------------------------------ MODULE CommitLog ------------------------------
(***************************************************************************)
(* What a machine promises to whoever commands it: an append-only log in   *)
(* which a command identity appears at most once, and acknowledgements     *)
(* only of what the log holds.                                             *)
(***************************************************************************)
EXTENDS Naturals, Sequences

CONSTANTS Entry,       \* what a transition commits
          CommandOf(_) \* the command identity of an entry

VARIABLES log,    \* accepted entries, in order
          acked   \* entries whose acceptance a caller has been told

Logged == {log[i] : i \in DOMAIN log}

LogInit == log = <<>> /\ acked = {}

Accept(e) ==
  /\ \A i \in DOMAIN log : CommandOf(log[i]) # CommandOf(e)
  /\ log' = Append(log, e)
  /\ UNCHANGED acked

Acknowledge(e) ==
  /\ e \in Logged
  /\ acked' = acked \cup {e}
  /\ UNCHANGED log

LogNext == \E e \in Entry : Accept(e) \/ Acknowledge(e)

LogSpec == LogInit /\ [][LogNext]_<<log, acked>>
==============================================================================
