-------------------------- MODULE MachineCheckpoint --------------------------
(***************************************************************************)
(* The executors of one machine with their snapshot store, over a journal  *)
(* that may be retired and purged under them: open, checkpoint, load,      *)
(* restore and what a step does to the snapshot.                           *)
(*                                                                         *)
(* MachineExecutor shows that snapshots follow one chain of commits, so    *)
(* here the state after revision i is i; only at revision 0, where each    *)
(* caller of open brings its own initial state, can two snapshots differ.  *)
(* What is kept of a snapshot is its revision, its state and the digest of *)
(* that, which comes in two kinds: json_content_digest of the state        *)
(* itself, and the digest a commit chains from its predecessor's and its   *)
(* delta, which a committed snapshot is given as a hint.                   *)
(***************************************************************************)
EXTENDS JournalRetirement

CONSTANTS Executor,
          Origin       \* initial states

VARIABLES snap,    \* executor -> its snapshot, or none
          reading, \* executors about to read the journal for the first time
          stored,  \* the stored snapshot, or none
          taken,   \* snapshots that checkpoint or load returned to callers
          durable  \* is the store DirectoryMachineSnapshotStore, or the in-memory one?

snapshotVars == <<snap, reading, stored, taken, durable>>
vars == <<journalVars, snapshotVars>>

ContentDigest(x) == <<"content", x>>
ChainDigest(x)   == <<"chain", x>>

(* MachineSnapshot without a digest hint: the initial one, or a decoded one. *)
PlainSnapshot(i, x) == [revision |-> i, state |-> x, digest |-> ContentDigest(x)]

(* MachineSnapshot of an accepted commit, with the commit's state digest. *)
CommittedSnapshot(i) == [revision |-> i, state |-> i, digest |-> ChainDigest(i)]

State == Origin \cup 1..MaxRecords

Snapshots == [revision : 0..MaxRecords, state : State, digest : {"content", "chain"} \X State]

Init ==
  /\ JournalInit
  /\ snap = [e \in Executor |-> None]
  /\ reading = {}
  /\ stored = None
  /\ taken = {}
  /\ durable \in BOOLEAN

Opened(e) == snap[e] # None

-----------------------------------------------------------------------------
(* What comes back from the document of snapshot s: the digest is computed
   again from the state, for the document does not hold it. *)
Decoded(s) == IF durable THEN PlainSnapshot(s.revision, s.state) ELSE s

(* _decode_snapshot accepts the document: the identity written with it, over
   the digest of s, is that of the decoded snapshot. *)
Readable(s) == Decoded(s) = s

(* Mutant: save overwrites whatever is there. *)
SaveOver(s) == stored # <<s>>

(* save writes s: it can read what is there, and s is newer. *)
SaveWrites(s) == stored # None => Readable(stored[1]) /\ s.revision > stored[1].revision

(* save finds s there and returns it. *)
SaveFinds(s) == stored # None /\ Readable(stored[1]) /\ Decoded(stored[1]) = s

(* save either way; otherwise it raises. *)
Save(s) == \/ SaveWrites(s) /\ stored' = <<s>>
           \/ SaveFinds(s) /\ UNCHANGED stored

(* The revision a reader of the file sees: a file that is not there is an
   empty journal. *)
Head == IF live = None THEN 0 ELSE live.records

(* The first read of a process: it looks for a retirement before it has the
   journal's lock ... *)
BeginRead(e) ==
  /\ snap[e] = None /\ retirement = None
  /\ reading' = reading \cup {e}
  /\ UNCHANGED <<journalVars, snap, stored, taken, durable>>

(* ... and reads what it finds when it has got it.  Later reads of an executor
   raise once the journal is retired, or gone from under its cache. *)
Reads(e) ==
  /\ LockFree /\ (retirement # None => e \in reading)
  /\ Opened(e) \/ e \in reading
  /\ reading' = reading \ {e}

(* open: the journal head decides; the store is only read when there is no
   commit, and then only its initial snapshot is used. *)
Open(e) ==
  /\ Reads(e)
  /\ \/ /\ Head > 0
        /\ snap' = [snap EXCEPT ![e] = <<CommittedSnapshot(Head)>>]
     \/ /\ Head = 0 /\ ~ Opened(e)
        /\ stored # None => Readable(stored[1]) /\ stored[1].revision = 0
        /\ \E x \in Origin :
             snap' = [snap EXCEPT ![e] = IF stored = None THEN <<PlainSnapshot(0, x)>>
                                         ELSE <<Decoded(stored[1])>>]
  /\ UNCHANGED <<journalVars, stored, taken, durable>>

(* The first read raises, or what was read is refused. *)
ReadFails(e) ==
  /\ e \in reading
  /\ reading' = reading \ {e}
  /\ UNCHANGED <<journalVars, snap, stored, taken, durable>>

(* Mutant: the snapshot moves on before the journal has accepted. *)
StepBeforeAppend(e) ==
  /\ Opened(e) /\ snap[e][1].revision = Head /\ Head < MaxRecords
  /\ snap' = [snap EXCEPT ![e] = <<CommittedSnapshot(Head + 1)>>]
  /\ AppendCommit \/ UNCHANGED journalVars
  /\ UNCHANGED <<reading, stored, taken, durable>>

(* A step that commits: only on top of the head. *)
Step(e) ==
  /\ Opened(e) /\ snap[e][1].revision = Head
  /\ AppendCommit
  /\ snap' = [snap EXCEPT ![e] = <<CommittedSnapshot(Head + 1)>>]
  /\ UNCHANGED <<reading, stored, taken, durable>>

(* A retried command of an earlier commit: step answers with the snapshot of
   that commit, and the executor is back there until it opens again. *)
Retry(e, i) ==
  /\ Opened(e) /\ LockFree /\ retirement = None
  /\ snap' = [snap EXCEPT ![e] = <<CommittedSnapshot(i)>>]
  /\ UNCHANGED <<journalVars, reading, stored, taken, durable>>

(* checkpoint: the store takes the executor's snapshot, or raises. *)
Checkpoint(e) ==
  /\ Opened(e)
  /\ Save(snap[e][1])
  /\ taken' = taken \cup {snap[e][1]}
  /\ UNCHANGED <<journalVars, snap, reading, durable>>

(* load: durable bytes are decoded for every caller. *)
Load ==
  /\ stored # None /\ Readable(stored[1])
  /\ taken' = taken \cup {Decoded(stored[1])}
  /\ UNCHANGED <<journalVars, snap, reading, stored, durable>>

(* restore: only a snapshot at the journal head.  The executor's snapshot is
   replaced before the store is asked, and stays replaced if that raises. *)
Restore(e, s) ==
  /\ Reads(e)
  /\ s.revision = Head
  /\ snap' = [snap EXCEPT ![e] = <<s>>]
  /\ \/ Save(s)
     \/ ~ SaveWrites(s) /\ ~ SaveFinds(s) /\ UNCHANGED stored
  /\ UNCHANGED <<journalVars, taken, durable>>

(* The executor is gone; the in-memory store lives on in the process. *)
Crash(e) ==
  /\ Opened(e) \/ e \in reading
  /\ snap' = [snap EXCEPT ![e] = None] /\ reading' = reading \ {e}
  /\ UNCHANGED <<journalVars, stored, taken, durable>>

Next ==
  \/ \E e \in Executor :
       \/ BeginRead(e) \/ Open(e) \/ ReadFails(e) \/ Step(e) \/ Checkpoint(e) \/ Crash(e)
       \/ \E i \in 1..Head : Retry(e, i)
       \/ \E s \in taken : Restore(e, s)
  \/ Load
  \/ PutForeign /\ UNCHANGED snapshotVars
  \/ \E k \in Collector : CollectorStep(k) /\ UNCHANGED snapshotVars

Spec == Init /\ [][Next]_vars

FairSpec == Spec /\ CollectorFairness

-----------------------------------------------------------------------------
(* Every variable has the type of the attribute it stands for. *)
TypeOK ==
  /\ reading \subseteq Executor
  /\ \A e \in Executor : Opened(e) => snap[e][1] \in Snapshots
  /\ stored # None => stored[1] \in Snapshots
  /\ taken \subseteq Snapshots

(* Snapshots are never a second authority: neither the store nor an executor
   ever shows a revision that was not accepted. *)
NeverAheadOfJournal ==
  /\ TypeOK
  /\ stored # None => stored[1].revision <= accepted
  /\ \A e \in Executor : Opened(e) => snap[e][1].revision <= accepted

(* However stale the executor that checkpoints, the stored snapshot is only
   replaced by a newer one, and only when it could be read: a snapshot of a
   commit in the directory store cannot, and stays for good. *)
StoreMoves ==
  [][stored # None => \/ stored' = stored
                      \/ /\ Readable(stored[1])
                         /\ stored'[1].revision > stored[1].revision]_vars
==============================================================================
