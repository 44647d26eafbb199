-------------------------- MODULE DirectoryJournal --------------------------
(***************************************************************************)
(* DirectoryMachineJournal: one machine's journal file, written by several *)
(* processes, each with a cache of the history it has read, and the        *)
(* recovery anchor that lets a cold process skip the prefix of the file.   *)
(*                                                                         *)
(* Reads and appends of a file hold its lock; an append crosses a write    *)
(* and a sync, either of which may fail, and its process may die at any    *)
(* point, which frees the lock.  A power loss ends every process and may   *)
(* take with it whatever was written after the last successful sync.       *)
(*                                                                         *)
(* What a file holds up to a record decides that record's predecessor and  *)
(* state, so a record is the command it commits, its base revision and     *)
(* whether it emits commands.  The identity of the file, by which a cache  *)
(* is known to be current, is its length: while a process lives, its file  *)
(* only grows.                                                             *)
(***************************************************************************)
EXTENDS Naturals, Sequences, FiniteSets

CONSTANTS Process, Command,
          Interval,    \* state_snapshot_interval
          MaxRecords,  \* bound: records
          MaxFaults    \* bound: failures, deaths and power losses

ASSUME DirectoryAssumption ==
  /\ Interval \in Nat \ {0} /\ MaxRecords \in Nat /\ MaxFaults \in Nat

VARIABLES file,    \* complete records of the journal file
          torn,    \* does part of a record follow them?
          synced,  \* records known to be on the disk
          anchor,  \* the recovery anchor file, or none
          cache,   \* process -> its cached history, or none
          doing,   \* process -> "idle", or what its append does next
          rec,     \* process -> the record its append carries
          acked,   \* records append has returned
          unsure,  \* those it returned from bytes that were not synced
          powered, \* does the power stay on?
          faults

vars == <<file, torn, synced, anchor, cache, doing, rec, acked, unsure, powered, faults>>

None == <<>>

Record == [command : Command, base : 0..(MaxRecords - 1), emits : BOOLEAN]

(* A cached history: it ends at record seen and, rebuilt from an anchor,
   starts at the anchor's record. *)
Cache == [seen : 0..MaxRecords, start : 1..(MaxRecords + 1), emitted : BOOLEAN]

Init ==
  /\ file = <<>> /\ torn = FALSE /\ synced = 0 /\ anchor = None
  /\ cache = [p \in Process |-> None]
  /\ doing = [p \in Process |-> "idle"]
  /\ rec = [p \in Process |-> None]
  /\ acked = {} /\ unsure = {} /\ powered \in BOOLEAN /\ faults = 0

LockFree == \A p \in Process : doing[p] = "idle"

Emits(from, to) == \E i \in from..to : file[i].emits

CommandsIn(from, to) == {file[i].command : i \in from..to}

-----------------------------------------------------------------------------
(* _read_authoritative over the whole file. *)
FullReplay == [seen |-> Len(file), start |-> 1, emitted |-> Emits(1, Len(file))]

(* _load_recovery_anchor: usable if the file still starts with the anchored
   prefix. *)
AnchorUsable == anchor # None /\ Len(anchor.prefix) <= Len(file)
                /\ SubSeq(file, 1, Len(anchor.prefix)) = anchor.prefix

(* Mutant: only what the anchor's history shows counts as emitted. *)
ReplayTailOnly ==
  [seen |-> Len(file), start |-> Len(anchor.prefix), emitted |-> Emits(Len(anchor.prefix), Len(file))]

(* The history rebuilt from the anchor and the records after it. *)
ReplayFromAnchor ==
  [seen |-> Len(file), start |-> Len(anchor.prefix),
   emitted |-> anchor.emitted \/ Emits(Len(anchor.prefix), Len(file))]

(* _authoritative_cache_locked. *)
Authoritative(p) ==
  IF cache[p] # None /\ cache[p].seen = Len(file) THEN cache[p]
  ELSE IF AnchorUsable THEN ReplayFromAnchor ELSE FullReplay

(* Mutant: commands before the anchor are forgotten. *)
PrefixForgotten(p, c) == Authoritative(p)

(* The cache in which append looks a command up: when its identity occurs in
   the skipped prefix, the whole file is read after all. *)
CacheFor(p, c) ==
  IF c \in CommandsIn(1, Authoritative(p).start - 1) THEN FullReplay ELSE Authoritative(p)

(* Mutant: a torn record is not noticed. *)
ReadableAlways == TRUE

(* _read_authoritative refuses a file that ends in part of a record. *)
FileReadable == ~ torn

(* validate_next on a cached history. *)
Existing(k, r)  == \E i \in k.start..k.seen : file[i] = r
ValidNext(k, r) == r.command \notin CommandsIn(k.start, k.seen) /\ r.base = k.seen

(* The records that are on the disk. *)
Synced == {file[i] : i \in 1..synced}

(* append up to the write: the lock is taken, the history brought up to date
   and the record checked against it.  An accepted record is returned. *)
StartAppend(p, r) ==
  /\ LockFree /\ FileReadable
  /\ r.base <= Len(file)
  /\ LET k == CacheFor(p, r.command)
     IN /\ cache' = [cache EXCEPT ![p] = k]
        /\ acked' = IF Existing(k, r) THEN acked \cup {r} ELSE acked
        /\ unsure' = IF Existing(k, r) /\ r \notin Synced THEN unsure \cup {r} ELSE unsure
        /\ doing' = IF ValidNext(k, r) THEN [doing EXCEPT ![p] = "write"] ELSE doing
        /\ rec' = IF ValidNext(k, r) THEN [rec EXCEPT ![p] = r] ELSE rec
  /\ UNCHANGED <<file, torn, synced, anchor, faults, powered>>

(* head, latest, command_commit, commits: a read brings the cache up to date,
   from the whole file when the whole history is asked for. *)
Read(p, full) ==
  /\ LockFree /\ FileReadable
  /\ cache' = [cache EXCEPT ![p] = IF full /\ Authoritative(p).start > 1 THEN FullReplay
                                   ELSE Authoritative(p)]
  /\ UNCHANGED <<file, torn, synced, anchor, doing, rec, acked, unsure, faults, powered>>

(* write_all. *)
Write(p) ==
  /\ doing[p] = "write"
  /\ file' = Append(file, rec[p])
  /\ doing' = [doing EXCEPT ![p] = "sync"]
  /\ UNCHANGED <<torn, synced, anchor, cache, rec, acked, unsure, faults, powered>>

Released(p) ==
  /\ doing' = [doing EXCEPT ![p] = "idle"]
  /\ rec' = [rec EXCEPT ![p] = None]

Fault == faults < MaxFaults /\ faults' = faults + 1

(* Mutant: the failed write is reported as accepted. *)
WriteFailsSilently(p) ==
  /\ doing[p] = "write" /\ Fault
  /\ torn' \in BOOLEAN
  /\ acked' = acked \cup {rec[p]}
  /\ Released(p)
  /\ UNCHANGED <<file, synced, anchor, cache, unsure, powered>>

(* write_all raises, having written part of the record or nothing. *)
WriteFails(p) ==
  /\ doing[p] = "write" /\ Fault
  /\ torn' \in BOOLEAN
  /\ Released(p)
  /\ UNCHANGED <<file, synced, anchor, cache, acked, unsure, powered>>

(* sync raises: the record is in the file, the caller is told it failed and
   the cache no longer matches the file. *)
SyncFails(p) ==
  /\ doing[p] = "sync" /\ Fault
  /\ Released(p)
  /\ UNCHANGED <<file, torn, synced, anchor, cache, acked, unsure, powered>>

(* _publish_recovery_anchor: at every Interval-th revision, if it succeeds. *)
Anchors(k) ==
  IF Len(file) % Interval = 0 THEN {anchor, [prefix |-> file, emitted |-> k.emitted]} ELSE {anchor}

(* sync succeeds: the cache accepts the record, an anchor may be published
   and append returns. *)
Sync(p) ==
  /\ doing[p] = "sync"
  /\ synced' = Len(file)
  /\ LET k == [cache[p] EXCEPT !.seen = @ + 1, !.emitted = @ \/ rec[p].emits]
     IN /\ cache' = [cache EXCEPT ![p] = k]
        /\ anchor' \in Anchors(k)
  /\ acked' = acked \cup {rec[p]}
  /\ Released(p)
  /\ UNCHANGED <<file, torn, unsure, faults, powered>>

(* The process dies; inside write_all, part of the record may be there. *)
Die(p) ==
  /\ doing[p] # "idle" \/ cache[p] # None
  /\ Fault
  /\ torn' \in IF doing[p] = "write" THEN BOOLEAN ELSE {torn}
  /\ cache' = [cache EXCEPT ![p] = None]
  /\ Released(p)
  /\ UNCHANGED <<file, synced, anchor, acked, unsure, powered>>

(* The power fails.  The anchor is not synced: it may be gone, or be back at
   an earlier one. *)
LosePower ==
  /\ ~ powered /\ Fault
  /\ \E n \in synced..Len(file) :
       /\ file' = SubSeq(file, 1, n)
       /\ synced' = n
       /\ torn' \in IF torn \/ n < Len(file) \/ \E p \in Process : doing[p] = "write"
                    THEN BOOLEAN ELSE {FALSE}
  /\ anchor' \in {None, anchor} \cup
        {[prefix |-> SubSeq(file, 1, i), emitted |-> Emits(1, i)] :
           i \in {j \in 1..synced : anchor # None /\ j % Interval = 0 /\ j < Len(anchor.prefix)}}
  /\ cache' = [p \in Process |-> None]
  /\ doing' = [p \in Process |-> "idle"]
  /\ rec' = [p \in Process |-> None]
  /\ UNCHANGED <<acked, unsure, powered>>

Next ==
  \/ \E p \in Process :
       \/ \E r \in Record : StartAppend(p, r)
       \/ \E full \in BOOLEAN : Read(p, full)
       \/ Write(p) \/ WriteFails(p) \/ Sync(p) \/ SyncFails(p) \/ Die(p)
  \/ LosePower

Spec == Init /\ [][Next]_vars

-----------------------------------------------------------------------------
(* The file, the anchor and the caches have the shapes the code builds; an
   anchor covers a multiple of the snapshot interval and only synced records,
   and one append at a time holds the lock. *)
TypeOK ==
  /\ file \in Seq(Record) /\ synced \in 0..Len(file)
  /\ anchor # None => Len(anchor.prefix) % Interval = 0 /\ Len(anchor.prefix) \in 1..synced
  /\ \A p \in Process : cache[p] # None => cache[p] \in Cache
  /\ Cardinality({p \in Process : doing[p] # "idle"}) <= 1

(* A history rebuilt from an anchor answers as a full replay would: whether
   anything was ever emitted (open refuses an executor without an outbox on
   it). *)
AnchorTransparent ==
  \A p \in Process :
    cache[p] # None => cache[p].emitted = Emits(1, cache[p].seen)

(* Whatever failed, the complete records of the file are one chain that a full
   replay accepts: each on the revision before it, no command twice, even when
   the append that added one saw only the history since the anchor; and an
   anchor changes no answer. *)
ChainValid ==
  /\ TypeOK /\ AnchorTransparent
  /\ \A i \in DOMAIN file :
       /\ file[i].base = i - 1
       /\ \A j \in DOMAIN file : file[j].command = file[i].command => i = j

(* Nothing is ever appended behind part of a record, which would hide it from
   every later read. *)
TornStops == [][torn /\ torn' => Len(file') <= Len(file)]_vars

(* A record append has returned stays in the file, whatever fails ("Crash-durable
   append-only journal"); unless it was returned by a retry that found it in the
   file after its sync had failed or its process had died, and the power fails. *)
AckedStored ==
  \A r \in acked : (powered \/ r \notin unsure) => \E i \in DOMAIN file : file[i] = r

RecordCommand(r) == r.command

(* What the callers of a journal see as long as the power stays on. *)
Log == INSTANCE CommitLog WITH
         log <- IF powered THEN file ELSE <<>>, acked <- IF powered THEN acked ELSE {},
         Entry <- Record, CommandOf <- RecordCommand

(* The file that several processes write, each through its own cache, is the
   append-only log the executors rely on. *)
ImplementsCommitLog == Log!LogSpec
==============================================================================
