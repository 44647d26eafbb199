--------------------------- MODULE MachineExecutor ---------------------------
(***************************************************************************)
(* Several executors of one machine (threads or processes on one durable   *)
(* journal, outbox and authority): open, step, replay and the crash of an  *)
(* executor between any two of their effects.                              *)
(*                                                                         *)
(* A step holds the executor's own lock throughout, but other executors    *)
(* move between its reads of the journal, its two authority assertions,    *)
(* the append and each envelope it enqueues; phase[e] says where it is.    *)
(***************************************************************************)
EXTENDS MachineJournal, LeaseAuthority, FiniteSets

CONSTANTS UnitOf,       \* executor -> its executable identity
          OutboxBound,  \* the executors constructed with an outbox
          UseAuthority, \* are executors constructed with an authority lease?
          MaxEpoch,     \* bound: leases taken
          MaxFaults     \* bound: crashes and failed writes

Executor == Owner

ASSUME ExecutorAssumption ==
  /\ UnitOf \in [Executor -> Unit]
  /\ OutboxBound \subseteq Executor
  /\ UseAuthority \in BOOLEAN
  /\ MaxEpoch \in Nat /\ MaxFaults \in Nat

VARIABLES journal,  \* the machine journal, one sequence of commits
          outbox,   \* envelopes written to the outbox
          phase,    \* executor -> where its current call is
          open,     \* executor -> _snapshot is not None
          snap,     \* executor -> _snapshot
          status,   \* executor -> _status
          held,     \* executor -> authority_lease
          draft,    \* executor -> command and proposal of the step in progress
          todo,     \* executor -> envelopes still to write
          result,   \* executor -> the commit the step will return (or none)
          acked,    \* drafts of the commits returned to callers
          faults    \* crashes and failed writes so far

execVars == <<phase, open, snap, status, held, draft, todo, result>>
vars == <<journal, outbox, acked, faults, execVars, leaseVars>>

Phase == {"idle", "reconciling", "proposing", "committing", "enqueueing"}

NoResult == <<>>

Ready == CHOOSE s \in Status : TRUE

NoDraft(e) == [command |-> CHOOSE c \in Command : TRUE,
               payload |-> CHOOSE p \in Payload : TRUE,
               delta   |-> CHOOSE d \in Delta : TRUE,
               emits   |-> {}, status |-> Ready, unit |-> UnitOf[e], epoch |-> 0]

(* authority_epoch of a commit; 0 stands for None. *)
EpochOf(e) == IF UseAuthority THEN held[e].epoch ELSE 0

(* Mutant: the lease is not asserted. *)
AuthorityUnchecked(e) == TRUE

(* _assert_authority. *)
AuthorityOk(e) == UseAuthority => Held(held[e])

Init ==
  /\ journal = <<>> /\ outbox = {} /\ acked = {} /\ faults = 0
  /\ phase  = [e \in Executor |-> "idle"]
  /\ open   = [e \in Executor |-> FALSE]
  /\ snap   = [e \in Executor |-> InitialSnapshot]
  /\ status = [e \in Executor |-> Ready]
  /\ held   = [e \in Executor |-> NoLease]
  /\ draft  = [e \in Executor |-> NoDraft(e)]
  /\ todo   = [e \in Executor |-> {}]
  /\ result = [e \in Executor |-> NoResult]
  /\ LeaseInit

-----------------------------------------------------------------------------
(* The call returns or raises: its locals are gone. *)
ToIdle(e) ==
  /\ phase'  = [phase EXCEPT ![e] = "idle"]
  /\ draft'  = [draft EXCEPT ![e] = NoDraft(e)]
  /\ todo'   = [todo EXCEPT ![e] = {}]
  /\ result' = [result EXCEPT ![e] = NoResult]

(* _assert_commit_unit_identity. *)
SameUnit(e, c) == c.draft.unit = UnitOf[e]

(* open on an empty journal: the initial snapshot, unless one is in memory. *)
OpenEmpty(e) ==
  /\ phase[e] = "idle" /\ journal = <<>>
  /\ open' = [open EXCEPT ![e] = TRUE]
  /\ snap' = [snap EXCEPT ![e] = IF open[e] THEN @ ELSE InitialSnapshot]
  /\ UNCHANGED <<journal, outbox, acked, faults, phase, status, held, draft,
                 todo, result, leaseVars>>

(* Mutant: open does not reconcile the outbox. *)
AfterOpenIdle(e) == "idle"

(* What open does once the snapshot is rebuilt. *)
AfterOpen(e) == IF e \in OutboxBound THEN "reconciling" ELSE "idle"

(* open on a journal head: refused to another executable, and to an executor
   without an outbox once anything was emitted; then the outbox is
   reconciled, from a second read of the journal. *)
OpenHead(e) ==
  /\ phase[e] = "idle" /\ journal # <<>>
  /\ SameUnit(e, journal[Len(journal)])
  /\ e \notin OutboxBound => ~ HasEmitted(journal)
  /\ open' = [open EXCEPT ![e] = TRUE]
  /\ snap' = [snap EXCEPT ![e] = SnapshotOf(journal[Len(journal)])]
  /\ status' = [status EXCEPT ![e] = journal[Len(journal)].draft.status]
  /\ phase' = [phase EXCEPT ![e] = AfterOpen(e)]
  /\ UNCHANGED <<journal, outbox, acked, faults, held, draft, todo, result, leaseVars>>

(* reconcile_outbox: every commit of the journal is enqueued again. *)
ReconcileOutbox(e) ==
  /\ phase[e] = "reconciling"
  /\ todo' = [todo EXCEPT ![e] = Envelopes(journal)]
  /\ result' = [result EXCEPT ![e] = NoResult]
  /\ phase' = [phase EXCEPT ![e] = "enqueueing"]
  /\ UNCHANGED <<journal, outbox, acked, faults, open, snap, status, held, draft, leaseVars>>

(* The outbox work a call has left once it holds commit c. *)
ToEnqueue(e, c) == IF e \in OutboxBound THEN EnvelopesOf(c) ELSE {}

(* The call now works from commit c: the snapshot is rebuilt from it, its
   envelopes are written, then the status is set and c is returned. *)
Adopt(e, c) ==
  /\ open' = [open EXCEPT ![e] = TRUE]
  /\ snap' = [snap EXCEPT ![e] = SnapshotOf(c)]
  /\ todo' = [todo EXCEPT ![e] = ToEnqueue(e, c)]
  /\ result' = [result EXCEPT ![e] = <<c>>]
  /\ phase' = [phase EXCEPT ![e] = "enqueueing"]

(* Mutant: a retry is answered without an outbox to enqueue in. *)
RetryUnbound(e, c) == SameUnit(e, c)

(* A retry is answered by the executable that committed, and only where what
   was emitted can be enqueued again. *)
RetryAllowed(e, c) == SameUnit(e, c) /\ (e \notin OutboxBound => c.draft.emits = {})

(* step of a command the journal already holds, at whatever revision: no
   authority is asserted and the executor need not be open. *)
StepExisting(e, cmd, pay) ==
  /\ phase[e] = "idle"
  /\ \E i \in RevisionsOf(journal, cmd) :
       /\ RetryAllowed(e, journal[i])
       /\ journal[i].draft.payload = pay
       /\ Adopt(e, journal[i])
  /\ UNCHANGED <<journal, outbox, acked, faults, status, held, draft, leaseVars>>

(* step of a new command: authority asserted, machine open, the command's
   expected revision is the snapshot's; the proposer is called. *)
StepBegin(e, cmd, pay) ==
  /\ phase[e] = "idle"
  /\ RevisionsOf(journal, cmd) = {}
  /\ AuthorityOk(e)
  /\ open[e]
  /\ draft' = [draft EXCEPT ![e] = [NoDraft(e) EXCEPT !.command = cmd, !.payload = pay]]
  /\ phase' = [phase EXCEPT ![e] = "proposing"]
  /\ UNCHANGED <<journal, outbox, acked, faults, open, snap, status, held, todo,
                 result, leaseVars>>

(* The sets of emitted commands that pass _validate_proposal and the test for
   an outbox. *)
EmitsAllowed(e) == IF e \in OutboxBound THEN SUBSET Child ELSE {{}}

(* The proposal arrives and is validated; authority is asserted again and
   the commit is built from the snapshot the step started with. *)
StepPropose(e) ==
  /\ phase[e] = "proposing"
  /\ AuthorityOk(e)
  /\ \E d \in Delta, k \in EmitsAllowed(e), s \in Status :
       draft' = [draft EXCEPT ![e] = [@ EXCEPT !.delta = d, !.emits = k, !.status = s,
                                               !.epoch = EpochOf(e)]]
  /\ phase' = [phase EXCEPT ![e] = "committing"]
  /\ UNCHANGED <<journal, outbox, acked, faults, open, snap, status, held, todo,
                 result, leaseVars>>

StepCommit(e) == CommitOn(snap[e], draft[e])

(* journal.append accepts the commit, or finds it accepted already. *)
StepAppend(e) ==
  /\ phase[e] = "committing"
  /\ \/ /\ AlreadyAccepted(journal, StepCommit(e))
        /\ UNCHANGED journal
     \/ /\ ValidNext(journal, StepCommit(e))
        /\ journal' = Append(journal, StepCommit(e))
  /\ Adopt(e, StepCommit(e))
  /\ UNCHANGED <<outbox, acked, faults, status, held, draft, leaseVars>>

(* journal.append writes the record but its sync fails: the caller gets an
   error for a commit that every later reader finds. *)
StepAppendUncertain(e) ==
  /\ phase[e] = "committing" /\ faults < MaxFaults
  /\ ValidNext(journal, StepCommit(e))
  /\ journal' = Append(journal, StepCommit(e))
  /\ ToIdle(e)
  /\ faults' = faults + 1
  /\ UNCHANGED <<outbox, acked, open, snap, status, held, leaseVars>>

(* Mutant: the snapshot is advanced before the append is known to succeed. *)
StepRefusedAdvanced(e) ==
  /\ phase[e] = "committing"
  /\ ~ AlreadyAccepted(journal, StepCommit(e)) /\ ~ ValidNext(journal, StepCommit(e))
  /\ snap' = [snap EXCEPT ![e] = SnapshotOf(StepCommit(e))]
  /\ ToIdle(e)
  /\ UNCHANGED <<journal, outbox, acked, faults, open, status, held, leaseVars>>

(* Mutant: the refusal is swallowed and the commit returned. *)
StepRefusedSwallowed(e) ==
  /\ phase[e] = "committing"
  /\ ~ AlreadyAccepted(journal, StepCommit(e)) /\ ~ ValidNext(journal, StepCommit(e))
  /\ acked' = acked \cup {draft[e]}
  /\ ToIdle(e)
  /\ UNCHANGED <<journal, outbox, faults, open, snap, status, held, leaseVars>>

(* The step ends in an exception that changes nothing: the proposer fails,
   authority is lost, or the journal refuses a stale commit. *)
StepRefused(e) ==
  /\ \/ phase[e] = "proposing"
     \/ /\ phase[e] = "committing"
        /\ ~ AlreadyAccepted(journal, StepCommit(e))
        /\ ~ ValidNext(journal, StepCommit(e))
  /\ ToIdle(e)
  /\ UNCHANGED <<journal, outbox, acked, faults, open, snap, status, held, leaseVars>>

(* One envelope of enqueue is written, with its PENDING receipt. *)
EnqueueOne(e) ==
  /\ phase[e] = "enqueueing"
  /\ \E v \in todo[e] :
       /\ outbox' = outbox \cup {v}
       /\ todo' = [todo EXCEPT ![e] = @ \ {v}]
  /\ UNCHANGED <<journal, acked, faults, phase, open, snap, status, held, draft,
                 result, leaseVars>>

(* Everything is enqueued: the status is set and the commit returned. *)
Return(e) ==
  /\ phase[e] = "enqueueing" /\ todo[e] = {}
  /\ ToIdle(e)
  /\ IF result[e] = NoResult
     THEN UNCHANGED <<status, acked>>
     ELSE /\ status' = [status EXCEPT ![e] = result[e][1].draft.status]
          /\ acked' = acked \cup {result[e][1].draft}
  /\ UNCHANGED <<journal, outbox, faults, open, snap, held, leaseVars>>

(* A write of the outbox fails: the exception leaves the new snapshot with
   the old status. *)
EnqueueFails(e) ==
  /\ phase[e] = "enqueueing" /\ todo[e] # {} /\ faults < MaxFaults
  /\ ToIdle(e)
  /\ faults' = faults + 1
  /\ UNCHANGED <<journal, outbox, acked, open, snap, status, held, leaseVars>>

(* replay: the snapshot and status of an accepted revision. *)
Replay(e) ==
  /\ phase[e] = "idle" /\ journal # <<>>
  /\ \A i \in DOMAIN journal : SameUnit(e, journal[i])
  /\ \E i \in DOMAIN journal :
       /\ snap' = [snap EXCEPT ![e] = SnapshotOf(journal[i])]
       /\ status' = [status EXCEPT ![e] = journal[i].draft.status]
  /\ open' = [open EXCEPT ![e] = TRUE]
  /\ UNCHANGED <<journal, outbox, acked, faults, phase, held, draft, todo, result, leaseVars>>

(* The process dies, or the executor is discarded: what it had in memory is
   gone, what it wrote stays. *)
Crash(e) ==
  /\ faults < MaxFaults
  /\ faults' = faults + 1
  /\ ToIdle(e)
  /\ open' = [open EXCEPT ![e] = FALSE]
  /\ snap' = [snap EXCEPT ![e] = InitialSnapshot]
  /\ status' = [status EXCEPT ![e] = Ready]
  /\ held' = [held EXCEPT ![e] = NoLease]
  /\ UNCHANGED <<journal, outbox, acked, leaseVars>>

(* The owner acquires the lease and constructs an executor with it. *)
Acquire(e) ==
  /\ UseAuthority /\ phase[e] = "idle" /\ ~ open[e]
  /\ ~ leaseLive => lease.epoch < MaxEpoch
  /\ AcquireLease(e)
  /\ held' = [held EXCEPT ![e] = lease']
  /\ UNCHANGED <<journal, outbox, acked, faults, phase, open, snap, status, draft,
                 todo, result>>

(* The owner renews the lease in force; its executor's copy is now stale. *)
Renew ==
  /\ UseAuthority
  /\ RenewLease(lease)
  /\ UNCHANGED <<journal, outbox, acked, faults, execVars>>

Lapse ==
  /\ UseAuthority
  /\ LapseLease
  /\ UNCHANGED <<journal, outbox, acked, faults, execVars>>

Step(e) ==
  \/ \E cmd \in Command, pay \in Payload : StepExisting(e, cmd, pay) \/ StepBegin(e, cmd, pay)
  \/ StepPropose(e) \/ StepAppend(e) \/ StepAppendUncertain(e) \/ StepRefused(e)

Next ==
  \/ \E e \in Executor :
       \/ OpenEmpty(e) \/ OpenHead(e) \/ ReconcileOutbox(e)
       \/ Step(e) \/ EnqueueOne(e) \/ Return(e) \/ EnqueueFails(e)
       \/ Replay(e) \/ Crash(e) \/ Acquire(e)
  \/ Renew \/ Lapse

Spec == Init /\ [][Next]_vars

-----------------------------------------------------------------------------
(* Every variable has the type of the attribute it stands for. *)
TypeOK ==
  /\ journal \in Seq(Commit)
  /\ outbox \subseteq Envelope
  /\ phase \in [Executor -> Phase]
  /\ open \in [Executor -> BOOLEAN]
  /\ snap \in [Executor -> Snapshot]
  /\ status \in [Executor -> Status]
  /\ held \in [Executor -> LeaseRecord]
  /\ draft \in [Executor -> Draft]
  /\ todo \in [Executor -> SUBSET Envelope]
  /\ result \in [Executor -> Seq(Commit)]
  /\ acked \subseteq Draft
  /\ faults \in Nat
  /\ LeaseTypeOK

(* Whatever order executors append in, revision i extends revision i - 1:
   its base, its predecessor identity and its state all come from it
   (validate_next with the snapshot a step starts from). *)
HistoryChained ==
  \A i \in DOMAIN journal :
    /\ journal[i].base = i - 1
    /\ i = 1 => journal[i].prev = <<>> /\ journal[i].state = <<journal[i].draft.delta>>
    /\ i > 1 => /\ journal[i].prev = CommitId(journal[i - 1])
                /\ journal[i].state = Append(journal[i - 1].state, journal[i].draft.delta)

(* A command is committed at most once, however many executors run it, retry
   it or crash in it. *)
CommandCommittedOnce ==
  \A i, k \in DOMAIN journal :
    journal[i].draft.command = journal[k].draft.command => i = k

(* A journal is written by one executable, even when executors of two are
   started on the empty journal. *)
OneExecutable ==
  \A i, k \in DOMAIN journal : journal[i].draft.unit = journal[k].draft.unit

(* The snapshot of an open executor is the initial one or exactly that of an
   accepted revision: no executor ever shows a state nobody accepted. *)
SnapshotAccepted ==
  \A e \in Executor :
    open[e] => \/ snap[e] = InitialSnapshot
               \/ \E i \in DOMAIN journal : snap[e] = SnapshotOf(journal[i])

(* Only what the journal accepted is ever handed to the outbox. *)
OutboxFromJournal == outbox \subseteq Envelopes(journal)

(* The journal has one history: a chain of revisions by one executable. *)
OneHistory == HistoryChained /\ OneExecutable

(* Nothing but accepted commits is ever shown or handed on: snapshots of open
   executors and envelopes in the outbox all come from the journal, though
   steps are refused, overtaken and cut short. *)
OnlyAccepted == TypeOK /\ SnapshotAccepted /\ OutboxFromJournal

(* A caller that got its commit back finds every command it emitted in the
   outbox, whatever crashed or failed on the way. *)
AckedEnqueued ==
  \A i \in DOMAIN journal :
    journal[i].draft \in acked => EnvelopesOf(journal[i]) \subseteq outbox

(* Fencing: although append does not look at the lease, a holder that was
   overtaken between its last assertion and its append never commits on top
   of its successor's commits. *)
EpochsMonotone ==
  \A i, k \in DOMAIN journal : i <= k => journal[i].draft.epoch <= journal[k].draft.epoch

(* The drafts within the bound on epochs. *)
BoundedDraft == [command : Command, payload : Payload, delta : Delta,
                 emits : SUBSET Child, status : Status, unit : Unit, epoch : 0..MaxEpoch]

DraftCommand(d) == d.command

(* The machine as its callers see it: an append-only log of distinct
   commands, with acknowledgements only of logged entries. *)
Log == INSTANCE CommitLog WITH
         Entry <- BoundedDraft, CommandOf <- DraftCommand,
         log <- [i \in DOMAIN journal |-> journal[i].draft]

ImplementsCommitLog == Log!LogSpec

-----------------------------------------------------------------------------
(* Liveness.  Calls in progress finish unless they crash, and every executor
   is opened again and again: the host opens a fresh driver for every
   execution (BoundExecutableUnit.open_driver). *)
Fairness ==
  \A e \in Executor :
    /\ WF_vars(ReconcileOutbox(e) \/ EnqueueOne(e) \/ Return(e))
    /\ WF_vars(StepPropose(e) \/ StepAppend(e) \/ StepRefused(e))
    /\ SF_vars(OpenHead(e))

FairSpec == Spec /\ Fairness

(* Every command an accepted transition emits reaches the outbox in the end,
   whatever crashed between the append and the enqueue. *)
EmittedEventuallyEnqueued ==
  \A n \in 1..Cardinality(Command) : \A k \in Child :
    (n <= Len(journal) /\ k \in journal[n].draft.emits)
      ~> (\E v \in outbox : v.child = k /\ Len(v.source) = n)
==============================================================================
