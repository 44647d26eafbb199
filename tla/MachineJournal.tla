--------------------------- MODULE MachineJournal ---------------------------
(***************************************************************************)
(* Commits, the history of one machine and the admission test a journal    *)
(* applies to the next commit (_JournalHistory).                           *)
(*                                                                         *)
(* A commit identity is the digest of everything the transition committed  *)
(* and of its predecessor's identity.  It is modelled by what is digested: *)
(* the sequence of drafts from the first transition to this one.  The      *)
(* state is modelled by the sequence of deltas applied to the initial one. *)
(***************************************************************************)
EXTENDS Naturals, Sequences

CONSTANTS Command,  \* command identities
          Payload,  \* command payloads
          Delta,    \* state deltas a proposal may carry
          Child,    \* commands a transition may emit
          Status,   \* accepted statuses
          Unit      \* executable unit and execution lock identities

ASSUME JournalAssumption ==
  Command # {} /\ Payload # {} /\ Delta # {} /\ Status # {} /\ Unit # {}

(* The facts of a transition, the predecessor apart. *)
Draft == [command : Command, payload : Payload, delta : Delta,
          emits : SUBSET Child, status : Status, unit : Unit, epoch : Nat]

(* MachineCommit. *)
Commit == [base : Nat, prev : Seq(Draft), draft : Draft, state : Seq(Delta)]

CommitId(c) == Append(c.prev, c.draft)

Revision(c) == c.base + 1

(* The journal head's revision and identity; 0 and None (the empty
   sequence) when nothing is committed. *)
HeadRevision(j) == IF j = <<>> THEN 0 ELSE Revision(j[Len(j)])

HeadId(j) == IF j = <<>> THEN <<>> ELSE CommitId(j[Len(j)])

(* command_commit: the revisions at which a command is committed. *)
RevisionsOf(j, cmd) == {i \in DOMAIN j : j[i].draft.command = cmd}

HasEmitted(j) == \E i \in DOMAIN j : j[i].draft.emits # {}

(* validate_next: a commit equal to an accepted one is returned as it is.
   (Equal identities imply equal commands, so by_commit_id adds nothing.) *)
AlreadyAccepted(j, c) == \E i \in DOMAIN j : j[i] = c

(* Mutant: the optimistic check against the head is missing. *)
ValidNextAnywhere(j, c) == RevisionsOf(j, c.draft.command) = {}

(* validate_next: otherwise it must be a new command on top of the head,
   by the executable that wrote the head. *)
ValidNext(j, c) ==
  /\ RevisionsOf(j, c.draft.command) = {}
  /\ c.base = HeadRevision(j)
  /\ c.prev = HeadId(j)
  /\ j # <<>> => c.draft.unit = j[Len(j)].draft.unit

(* Envelopes of a commit: what the outbox is to deliver. *)
Envelope == [source : Seq(Draft), child : Child]

EnvelopesOf(c) == {[source |-> CommitId(c), child |-> k] : k \in c.draft.emits}

Envelopes(j) == UNION {EnvelopesOf(j[i]) : i \in DOMAIN j}

(* MachineSnapshot as an executor keeps it. *)
Snapshot == [revision : Nat, parent : Seq(Draft), state : Seq(Delta)]

InitialSnapshot == [revision |-> 0, parent |-> <<>>, state |-> <<>>]

SnapshotOf(c) == [revision |-> Revision(c), parent |-> CommitId(c), state |-> c.state]

(* The commit a step builds from its snapshot and the draft. *)
CommitOn(s, d) == [base |-> s.revision, prev |-> s.parent, draft |-> d,
                   state |-> Append(s.state, d.delta)]
=============================================================================
