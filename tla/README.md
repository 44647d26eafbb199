# Noetrium: a TLA+ model of its durable core

Noetrium runs research programs as *machines*: a proposer suggests a
transition, the kernel turns it into a commit, the journal accepts it, and
everything else (snapshots, outboxes, projections, checkpoints, schedulers) is
derived from what was accepted. The repository has some 390,000 lines; this
project models the parts whose correctness rests on more than one actor or on
more than one store: the kernel under
`src/noetrium_platform/foundation/kernel/`, the effect journal under
`infrastructure/reliability/effect/`, the resource authority with the Python
environments and workspaces it guards, and one physical action from the agent's
call through the Minecraft bridge and back. `PROJECT.json` maps every definition
to the lines it stands for.

Contents: 1 the system, 2 modules and code, 3 runs, 4 fairness, 5 proofs,
6 limits and disagreements, 7 what is not modelled, 8 plan.

## 1. The system

### Parts, their state and their operations

| part (source) | state | operations | what must hold |
|---|---|---|---|
| executor (`kernel/executor.py`) | snapshot, status, lease copy, the call in progress | `open`, `step`, `replay`, `reconcile_outbox`, `checkpoint`, `restore` | a command commits once; the snapshot is always an accepted one; emitted commands are not lost |
| authority (`kernel/authority.py`, `lease_clock.py`) | one lease document and one clock anchor per directory | `acquire`, `renew`, `assert_held`, `release` | an epoch belongs to one owner; no lease comes back to life |
| journal (`kernel/journal.py`) | one file per machine, a recovery anchor, a cache per process | `append`, `commits`, `head`, `command_commit` | one chain; what was returned is stored; caches and anchors change no answer |
| journal retirement (`kernel/journal.py`) | retirement document, live file, quarantined file | `assess_gc`, `purge_journal` | no accepted commit is destroyed; retirement is final; it completes |
| snapshot store (`kernel/snapshot.py`) | one snapshot per machine | `save`, `load` | never ahead of the journal, never backwards, readable |
| outbox, inbox (`kernel/delivery.py`, `durable_delivery.py`) | envelope files, receipt files, inbox files | `enqueue`, `pending`, `mark_*`, `accept` | admitted once, delivered in the end, receipts never lose knowledge |
| effect journal (`reliability/effect`) | latest row and causal event chain per effect | `prepare`, `record_*`, `load`, reconciliation | row = head of chain; terminal is final; one unresolved effect per scope |
| scheduling authority (`concurrency/scheduling/runtime/durable.py`) | SQLite event log and checkpoint; per process a view, a queue, a writer baton | transition (grant, complete), rollback, release, read, close | one writer; receipts true; view and checkpoint derive from committed events |
| resource leases (`resources/authority/runtime/authority.py`) | SQLite rows of generations, leases and retirement gates | acquire, renew, release, fence, open the gate, reboot | one live exclusive lease; no consumer is cut off; nobody behind a gate |
| Python environments (`lifecycle/python/runtime/lifecycle.py`) | transaction journal, registry journal, directory, gate | `create`, `register`, `remove`, `borrow` | intact while borrowed; what a crash left is finished or rolled back |
| workspaces (`resources/directory`, `authority.reconcile`) | claims, tickets, bindings, the directory and its quarantine | `allocate_workspace`, `remove_workspace` | disk and records agree; a retired identity is not reused; removal converges |
| capability effects (`agent_turn/capability_effects.py`, `environment/minecraft`, the Mineflayer bridge) | effect journal, action ledger, proofs of the bridge client, the bridge's own journal | `invoke`, prepare, act, reconcile, observe, recycle | a handler runs at most once; answers are true; no effect stays unresolved |

### How they interact

    caller -> executor.step -> authority.assert_held -> proposer
                            -> authority.assert_held -> journal.append
                            -> outbox.enqueue -> dispatcher -> inbox of the child
    executor.open   -> journal.head -> reconcile_outbox
    executor.checkpoint / restore <-> snapshot store
    collector -> journal.assess_gc -> journal.purge_journal
    turn -> effect journal.prepare -> provider -> effect journal.record_*
    provider = session -> ledger, bridge client -> bridge process -> world
    create / remove / borrow -> leases, fence and gate of the authority
    allocate / remove workspace -> authority.reconcile -> physical provider
    reconciler -> effect journal.load -> provider -> effect journal.record_*
    threads -> scheduling authority -> one SQLite file shared by processes

### What makes it hard

- `step` asserts the lease twice and appends afterwards; the journal does not
  look at the lease. Only a stale base revision stops an overtaken holder.
- Commit and outbox are two stores: a crash between them must be repaired by
  whoever opens the machine next.
- `append` may raise after its bytes are in the file; the caller retries.
- Journal files are read by processes through caches and through an anchor
  that skips a prefix.
- Files are replaced by rename with or without a sync; a purge takes three
  durable steps.
- Leases are measured in elapsed time of one boot; hosts reboot and wall
  clocks move.
- Envelopes are delivered at least once, answers arrive late and out of order.
- A provider's answer about an effect is applied to a record that may have
  moved on while the answer was on its way.
- The scheduling authority batches the transitions of many threads in one
  transaction while other processes write the same file, and keeps going after
  a failed commit.
- The resource authority reads the clock before it waits for the writer: every
  decision about liveness is made with a reading of some age.
- Environments and workspaces are directories beside databases; any two writes
  may have a crash between them, and a reboot fences what a removal left.
- An action may run on in the bridge after its caller gave up, its host died or
  its answer was lost, and four places remember different things about it.

Each of these is a hazard in `PROJECT.json`, at its line, with the properties
that would show it going wrong.

## 2. Modules and code

| module | stands for | refines |
|---|---|---|
| `LeaseAuthority` | the lease as its users see it: an epoch, a holder, live or lapsed | abstract |
| `CommitLog` | a machine as its callers see it: an append-only log of distinct commands, acknowledgements only of what is in it | abstract |
| `MachineJournal` | values: drafts, commits, commit identities, snapshots, envelopes; `validate_next` | |
| `MachineExecutor` | executors of one machine over `MachineJournal` and `LeaseAuthority` | `CommitLog` |
| `MachineAuthority` | `DirectoryMachineAuthority` with clock anchor and reboots | `LeaseAuthority` |
| `DirectoryJournal` | `DirectoryMachineJournal.append` down to write and sync | `CommitLog` |
| `JournalRetirement` | `assess_gc`, `purge_journal` | |
| `MachineCheckpoint` | snapshot stores, `checkpoint`, `restore`, on top of `JournalRetirement` | |
| `MachineDelivery` | outbox, dispatcher, inbox | |
| `EffectJournal` | effect records, event chain, reconciliation, `load` | |
| `DurableScheduling` | `DurableUnifiedSchedulingAuthority` and the accounting it replays | |
| `ResourceLeases` | generations, leases, fences and gates of `UniversalResourceAuthority` | |
| `PythonEnvironment` | `PythonEnvironmentLifecycle`, on top of `ResourceLeases` | |
| `WorkspaceRealization` | `allocate_workspace`, `remove_workspace`, `reconcile`, the physical provider | |
| `ActionEffects` | `CapabilityEffectExecutor`, the Minecraft session and bridge client, the bridge process, on top of `EffectJournal` | |
| `...Proofs` | the theorems about the module they are named after; `MachineBoundaryProofs` is about `MachineAuthority` and `MachineDelivery` (section 5) | |

The `MC*` modules only give functions as values to constants.

**Composition.** `MachineExecutor` does not import the detailed journal and
authority. It uses their abstract forms, and `MachineAuthority` and
`DirectoryJournal` are checked to implement those. What the executor runs and
proofs say thus carries over to the directory implementations, as far as their
refinement proofs and runs reach. Three modules are compositions by extension:
`MachineCheckpoint` adds executors and their snapshots to a journal that
`JournalRetirement` retires under them, `PythonEnvironment` drives the leases and
gates of `ResourceLeases`, and `ActionEffects` writes through the operations of
`EffectJournal`.

**Abstractions common to the modules.**

- *Identities.* A digest is modelled by what it digests. A commit identity is
  the sequence of drafts up to the commit, so two histories have equal
  identities exactly when they are equal.
- *State.* A machine's state is the sequence of deltas applied; a scheduling
  view is the sequence of events applied. Properties over them say *which*
  inputs a state came from.
- *Exceptions.* A call that raises before changing anything is a stuttering
  step. One that raises after changing something is an action of its own
  (`StepRefused`, `StepAppendUncertain`, `EnqueueFails`, `WriteFails`,
  `SyncFails`, `MutateFails`, ...).
- *Locks.* What an interprocess lock or a transaction covers is one action,
  unless a crash or a failing write can divide it; then it is several actions,
  with the lock modelled by a guard.

### MachineExecutor

`phase[e]` follows a call: `idle`, `reconciling` (inside `open`), `proposing`
(after the first lease assertion), `committing` (after the second), and
`enqueueing`. `open`, `snap`, `status` and `held` are the executor's
attributes; `draft`, `todo` and `result` are locals of the call. `journal`,
`outbox` and the lease are shared. `StepExisting` is the branch of a command
the journal already holds; `StepBegin`, `StepPropose`, `StepAppend` are the
normal path; `EnqueueOne` writes one envelope; `Return` hands the commit to
the caller (`acked`). `StepAppendUncertain` stores the commit and raises.
`Crash` loses everything but the shared state.

### MachineAuthority

`record` is the lease document, `anchor` the clock anchor, `copies` every lease
ever handed out (any of them may be used again later). Time is `elapsed` in the
current `boot`; `Wall` is what the wall clock may show at any moment. Leases
store both, and the code decides by boot identity which is valid. The mapping
to `LeaseAuthority` takes a lease as live when the code would still accept it.

### DirectoryJournal

`file` is the list of complete records, `torn` whether a partial one follows,
`synced` how many are on the disk. `cache[p]` is what the process believes:
records seen, where its history starts (after an anchor), whether anything was
emitted. An append is `StartAppend`, `Write` or `WriteFails`, `Sync` or
`SyncFails`. `Die` kills a process; `LosePower` takes back what was not synced.
`powered`, chosen initially, tells the behaviours in which the power stays on:
in those the file refines `CommitLog`. `unsure` records which acknowledgements
were given from bytes that had not been synced.

### JournalRetirement

`doing[k]` is the position of a collector in `purge_journal`; the retirement
document goes RETIRED, QUARANTINED, PURGED. `PutForeign` places a file with
the same content that is not the retired one, which file generations tell
apart.

### MachineCheckpoint

Snapshots carry the digest they were built with. This is where a snapshot from
a commit (chained digest) and a decoded one (content digest) differ.
`durable`, chosen initially, is the store in use: in memory, or the directory
store, whose every read decodes and verifies. The executors' steps append to the
journal of `JournalRetirement`, whose collectors retire and purge it at any
moment; `BeginRead` and `Open` are apart because `open` looks for a retirement
before it has the lock.

### MachineDelivery

`writing` is what the enqueue that holds the lock still has to write, in order:
an envelope file, then its receipt file. `sent` never shrinks, so every
delivery may be repeated.

### EffectJournal

`record[i]` is the latest row, `events[i]` the chain; an effect prepared without
a run and lifetime has `scoped` FALSE and blocks nobody. Each operation of
`PersistentEffectIntentJournal` is an action over both, with matching and
conflicting requests and receipts as inputs. A reconciler (`client`) loads,
asks the provider and writes the answer in separate actions; `load` is split
into its two reads.

### DurableScheduling

Per process: `queue` and `draining` (the group-commit queue and its flag),
`batch`, `done` and `refused` (the captured cut, how far validation is, what it
refused), `view`, `applied`, `cut`, `readAt`. Per thread: `pc`, `call`, `leading`,
`receipt`, `own`. The writer begins the transaction, catches up and captures the
queue (`Begin`), accounts for one item after the other (`Insert`, `Refuse`), commits
or fails, and then publishes receipts and hands the baton to the head of the
queue. `written` are the rows of the open transaction, which a failure or a crash
rolls back. Mutations outside the queue (`rollback_grant`, `release_flow`,
`release_resource`) take the cut lock, and reset the view inside it when they
fail; the group commit resets it after the lock was free for a moment, in which
the view still holds the failed group (`Poisoned`). `spoilt` remembers that such a
view was stored as the checkpoint. A catch-up validates what it replays and
raises where validation refuses (`Replays`). `calls` counts the calls made in
all, `faults` the disturbances that happened: failed SQLite calls, crashes and
`close`.

### ResourceLeases

Time is relative: a row holds the time it has left, and a call brings the `age`
of the clock reading it decides by. `gen` is the generation of a resource key,
which a fence or a reboot moves on; a lease of an older generation is dead
whatever time it has left. `gates` are the retirement gates of fences. `lapsed`
marks a lease that was renewed, by an old reading, after it had run out.

### PythonEnvironment

`txn` and `reg` are the last records of the transaction journal and of the
registry, `root` the directory, `op` the operation that holds the file lock and
the step it is at; borrowers (`user`) take leases of `ResourceLeases` without the
lock. Each write is one action, and what an operation's recovery does next is
computed from what is stored. `Damage` deletes the directory from outside.

### WorkspaceRealization

`claim`, `ticket`, `bound` and `obs` are the rows of the authority for each
metadata document the workspace is allocated with; `tclaim` is the terminal claim
of a removal. `path` and `quar` are the directory and its quarantine. A call
plans from the rows (`Plan`), executes the plan one durable step at a time and
replans, as `reconcile` does, until nothing is left to do. `Crash`, `Reboot`,
`OrphanSweep`, `ScopeEnds` and `Delete` come between any two steps.

### ActionEffects

`call[c]` is where a caller is in `CapabilityEffectExecutor.invoke`. A new effect
goes `prepare` (the action is made known to the bridge), `intent` (the effect
journal's scoped prepare), `act`, `record`; one that failed or is found
unresolved goes `reconcile`, `refresh` (the read of the world that follows the
proof), `settle`, `terminalize`. `preparing`, `acting` and `asking` hold the
bridge client's lock and wait for an answer.

`ledger` is the session's action ledger, `proof` and `pending` the bridge
client's verdicts and its mark that the process must be recycled; a host crash
clears all three. `bridge` is the process: `live`, `dead` (it ended on its own)
or `down` (a restart failed), its command, the handler at work and its answer.
`wal` is the last line per action of the bridge's journal, which survives every
process. `world` is what a handler did: `acting` while it runs, then `applied`,
`ceased` (it ended and changed nothing), or `adrift` when its process ended and
nobody can say. `answers` collects what callers were told. Assumptions: a
handler's own verdict is true; a handler that cannot be shown to have settled is
reported unknown with the recommendation to recycle; calls of one slot do not
overlap; the bridge's journal is durable (`crash_durable`).

## 3. Runs

All runs finish within three minutes on two cores. The type invariant of a module
is part of its first safety invariant. That a command commits once is part of
`CommitLog`. Names in the third column are the properties; each is commented in
its module.

| run | instance | checks |
|---|---|---|
| `executor_leased` | 2 executors that compete for a lease, 2 commands, 2 epochs, 2 lease stamps, 1 fault | `OnlyAccepted`, `EpochsMonotone` |
| `executor_shared` | 3 executors without a lease, 2 executables, one executor without an outbox, 2 commands, 1 fault | `OneHistory`, `AckedEnqueued`, `ImplementsCommitLog`, `EmittedEventuallyEnqueued` |
| `authority` | 2 owners, 2 hosts, 1 reboot, 2 epochs, 2 TTLs | `EpochIdentifiesHolder`, `NoResurrection`, `ImplementsLeaseAuthority` |
| `journal` | 2 processes, 3 commands, anchor every 2 records, 2 faults, with and without power losses | `ChainValid`, `AckedStored`, `TornStops`, `ImplementsCommitLog` |
| `checkpoint` | 2 executors with 2 initial states, 2 revisions, both stores, 2 collectors, 1 crash of a purge, 1 foreign file | `NothingLost`, `NeverAheadOfJournal`, `RetirementFinal`, `StoreMoves`, `EventuallyPurged` |
| `delivery` | 2 commits, 3 envelopes, 2 attempts | `AdmittedOnce`, `KnowledgeGrows`, `EventuallyAccepted` |
| `effect_journal` | 2 effects of one scope, 2 requests, 1 receipt mark, 1 reconciler beside the callers | `ProjectionIsHead`, `OneUnresolvedPerScope`, `TerminalEvidence`, `TerminalFinal` |
| `scheduling` | 2 threads of one process and 1 of another, 3 calls, 1 disturbance (failed SQLite call, crash or close), checkpoint every 2 events | `JournalSound`, `ViewsSound`, `ReceiptArrives` |
| `leases` | an exclusive scope with 2 contenders, a shared resource leased through it, 2 gate holders, readings up to 1 old, 2 generations | `SoleLease`, `FencedQuiet`, `NoneCutOff` |
| `environment` | 1 environment, 2 borrowers, 1 crash, 1 deletion from outside, 3 generations | `EnvironmentSound`, `PendingResolves` |
| `workspaces` | 1 workspace, 2 metadata documents, 3 faults, 3 generations | `NoDrift`, `RetiredNotReused`, `CallsReturn`, `RemovalConverges` |
| `action_effects` | 2 callers, 2 actions of one scope and 1 that fails its contract, 2 faults | `ActedOnce`, `VerdictsTrue`, `EffectsSettle` |

What the newer runs show:

- `leases`: a grant never stands beside a live lease and a fence never cuts off a
  live consumer, however old the reading it decides by; two live exclusive leases
  only come from a renewal of a lease that had run out (section 6).
- `scheduling`: threads of two processes that grant, complete, roll back and
  release, with a failure at any point of a group commit, get true receipts, and
  none waits for ever; views and checkpoint say what the journal says until a
  view that still holds a failed group is stored (section 6).
- `environment`: whoever is inside `borrow` has an intact environment, and after
  a crash the next operations bring every pending transaction to an end, but
  for the four situations that `PendingResolves` names.
- `workspaces`: the directory always belongs to a claim that will retire it, no
  call fails for a reason that is not one of the known ones, `reconcile` always
  ends, and a removal converges through any crashes.
- `action_effects`: over lost answers, cancellations, dead processes and failed
  restarts, a handler starts at most once and never beside another, what callers
  and the effect journal say of an action is what happened, all callers of a slot
  are told the same, and every effect reaches its terminal record.

**Why these bounds.** Two executors and two commands are the least with which
one executor is overtaken at every point of a step and a retry meets another's
commit; two epochs give one change of holder. Two processes with an anchor
after two of three records are the least with which a cached, an anchored and a
complete history meet. Two faults let a crash hit the recovery from a crash; for
the environment, where one crash at any of its steps is checked, what holds after
several is proved (`EnvironmentIsSound`) except for liveness. A
workspace needs three, for a crash, a reboot and the end of its scope may all
fall into one removal. Two actions of one scope are the least with which an
unresolved effect blocks another and a handler left behind meets the next one.
Three threads are needed for a baton to pass to a thread that queued while
another was already waiting. Every property has been checked to fail when the
operator it guards is replaced by a plausible wrong one (the operators marked
*Mutant* in the modules).

Deadlock is checked except in the journal, scheduling and workspace runs, where
the system may stop: the records, calls and faults of the instance are used up,
every authority is closed, or the workspace is retired.

Symmetry is used in `effect_journal` and `leases` only: these modules never pick
an element of a constant set, and the runs check no liveness. The other modules
either use `CHOOSE` or are checked with liveness, for which it would be unsound.

## 4. Fairness

- *Executor*: a call in progress goes on unless it crashes, and every executor
  is opened again and again (strong fairness of `OpenHead`, since crashes and
  calls disable it in between): `unit_host.py` opens a fresh driver for every
  execution. Commands are never forced to arrive and leases never to be taken.
- *Delivery*: a started enqueue goes on, the dispatcher keeps offering what is
  pending, an envelope in transit arrives. Nothing is assumed of receipts.
- *Retirement*: a purge in progress goes on; after a crash somebody assesses
  and purges again. Crashes are bounded.
- *Scheduling*: as long as some thread can go on with its transition, one does.
  Which one is left open; the calls of an instance are bounded, so none can be
  passed over for ever.
- *Environment*: an operation goes on until it returns, borrowers come to an end,
  and there is always another operation: the lifecycle is called by every study.
- *Workspace*: a call that runs goes on; a published removal is retried and gets
  the file lock in the end (strong fairness, since other calls hold it).
- *Actions*: a call goes on and gets the bridge client's lock in the end (strong
  fairness per caller: every command that holds the lock has a deadline); the
  bridge works what it was sent; agents look at the world again and again
  (`Observe`), and interrupted calls are invoked again when a study resumes.
  `Observe` is needed: after a failed restart neither `prepare` nor `reconcile`
  starts a bridge, only a command that goes through `_command_owned` does.

No fairness is given to crashes, failures, callers or the passing of time.

## 5. Proofs

Every component but the workspaces has theorems, for every set of actors, values
and resources, and for every bound. All are of the form `Spec => ...`; the
properties are the ones the runs check.

| module | theorems | properties |
|---|---|---|
| `MachineExecutorProofs` | `TypeCorrect`, `HistoryIsOneChain`, `FencingHolds`, `OutboxFollowsJournal`, `AcceptedOnly`, `ExecutorsImplementLog` | `OneHistory`, `EpochsMonotone`, `AckedEnqueued`, `OnlyAccepted`, `ImplementsCommitLog` |
| `DirectoryJournalProofs` | `FileIsOneChain`, `ReturnedIsStored`, `NothingBehindTorn`, `DirectoryImplementsLog` | `ChainValid`, `AckedStored`, `TornStops`, `ImplementsCommitLog` |
| `MachineBoundaryProofs` (authority) | `EpochsIdentify`, `LostStaysLost`, `AuthorityImplementsLessor` | `EpochIdentifiesHolder`, `NoResurrection`, `ImplementsLeaseAuthority` |
| `MachineBoundaryProofs` (delivery) | `AdmittedAtMostOnce`, `KnowledgeOnlyGrows` | `AdmittedOnce`, `KnowledgeGrows` |
| `MachineCheckpointProofs` | `NothingIsLost`, `RetirementIsFinal`, `SnapshotsFollowJournal`, `StoreOnlyMoves` | `NothingLost`, `RetirementFinal`, `NeverAheadOfJournal`, `StoreMoves` |
| `EffectJournalProofs` | `RowIsHead`, `ScopeHasOne`, `TerminalIsProved`, `TerminalIsFinal` | `ProjectionIsHead`, `OneUnresolvedPerScope`, `TerminalEvidence`, `TerminalFinal` |
| `ActionEffectsProofs` | `HandlerStartsOnce`, `VerdictsAreTrue` | `ActedOnce`, `VerdictsTrue` |
| `ResourceLeasesProofs` | `SoleLeaseHolds`, `FencedStaysQuiet`, `NoneIsCutOff`; for the environments `EnvironmentUsesLeases`, `EnvironmentIsSound` | `SoleLease`, `FencedQuiet`, `NoneCutOff`, `EnvironmentSound` |
| `DurableSchedulingProofs` | `JournalIsSound`, `ViewsAreSound` | `JournalSound`, `ViewsSound` |

Assumptions: the `ASSUME`s of the modules (non-empty sets of values, functions of
the right type, natural bounds, a snapshot interval above zero, leases of
borrowers that are on the environment and do not expire); TLC evaluates them in
the runs. The bounds of the models (`MaxFaults`, `MaxRecords`, `MaxGen`,
...) are arbitrary in the theorems.

**The arguments.** `HistoryIsOneChain` needs `SnapshotsOnChain`: every snapshot,
of an open executor or not, is the initial one or that of a revision. A commit
built on such a snapshot passes `validate_next` only when the snapshot is the
head's, and then it extends the chain. `FencingHolds` is not inductive: nothing
in `append` compares epochs. The strengthening `FencedIsStale` says that an
executor in the middle of a step is *behind* every revision of a later epoch
than its own. It holds when a step begins, since the lease was asserted and no
later epoch exists; and each later commit of a newer holder lands above the
executor's snapshot. So the base of an overtaken executor is stale and its
commit is refused. `OutboxFollowsJournal` uses `OutboxWork`: for a commit about
to be returned, what is not in the outbox is in `todo`.

`ExecutorsImplementLog` and `DirectoryImplementsLog` show that initial states map
to initial states and that every step maps to a step of `CommitLog` or to none.
The executor's step that matters is the append of a commit: its draft is new and
joins the log, and an acknowledgement is only given for what is in it
(`OutboxWork`). For the directory the invariant `DirectoryInv` says that the file
is one chain, that the anchor and every cache answer for the records they have
seen as the file does, that an append under way is past a readable file and has
its record at the end of it, and that acknowledged records are in the file, or on
the disk. A cache that starts at an anchor does not know the commands before it;
the proof uses that `append` then reads the whole file (`CacheFor`).

`MachineAuthority`: `AuthorityInv` keeps the document's epoch the greatest of all
leases handed out, and ties it to an anchor of the same or a later boot; a lease
that is not the document's can then never pass `is_live` again. For the
implementation of `LeaseAuthority`, a step either leaves what users see of the
lease alone, lets it lapse, or is one of the abstract operations; expiries stay in
the abstract set of stamps because an anchor starts from a reading of the wall
clock (`ClockBound`).
`JournalRetirement`: before a retirement the live file is the whole journal, after
it the document names the journal's own object and whatever lies in its place
holds what was accepted (`JournalInv`); every step of an executor leaves the
journal alone or appends to it, so `MachineCheckpoint` inherits the invariant and
adds that no snapshot anywhere, those in callers' hands included, is ahead of it.
`MachineDelivery`: `EnvelopeFirst`, a receipt file is visited after its envelope
file. `EffectJournal`: each operation raises the rank of a record (`Legal`) and a
client's row is the record's or of a lower rank, which gives finality and the
meaning of a divergence. `ResourceLeases`: `BehindGeneration`, no row and no gate
is ahead of its resource, so that a moved generation cuts off every older lease.

`PythonEnvironment`: every step is one of the resource authority or leaves the
leases alone, so the lease theorems hold in the composition
(`EnvironmentUsesLeases`). `EnvironmentInv` says for each kind and phase of a
pending transaction what registry and directory look like (`CreateInv`,
`RemoveInv`), that they agree when none is pending, and what a borrower may rely
on from the moment it read the registry (`BorrowInv`): its generation is not ahead
of the resource's, and as long as it is the resource's, the environment is
registered and intact. A removal moves the generation on only when no live lease
is left, which is where the fence of the authority comes in.

`ActionEffects`: `ActionInv` ties four memories together. `CallInv` places the
journal's record for every position of a caller and lets one caller per action be
at work and one wait for the bridge; `BridgeInv` says that what the bridge works on
is what that caller sent; `SiteInv` relates a line of the bridge's journal to what
its handler did and says when a handler may still run behind its caller's back:
only until the process is recycled; `SendInv` says that an action that may still
be sent has not started. `ActedOnce` follows. For `VerdictsTrue` it is not enough
that a verdict is true when given: a verdict that nothing happened must stay true.
`TruthInv` states it as `Never`, that nobody can send the action any more, of
ledger, proofs, answers under way and records alike.

`DurableScheduling`: the invariant has five layers. `BatonInv` and `QueueInv`: one
thread of a draining process works or leads, queue and cut hold waiting threads of
the process once each. `CommitInv` and `BoundInv`: one write transaction, of a
process that is caught up. `CallInv`, `JournalInv` and `PlaceInv`: transitions have
numbers of their own and none is in the journal twice, and for every place where a
transition can be (queue, cut before and after validation, published, failed,
told) whether its event is in the journal, in the open transaction or in neither.
That gives `ReceiptsTrue`. `ViewInv`, until `spoilt`: clean views and the checkpoint
are prefixes, the writer's view is the journal with its own rows, and the journal
replays. The last layer is about accounting. That every grant a thread owns is in
flight does not follow from counting, since the completion of one thread could use
up the grant of another; `Matched` says that an injection takes every completion
and rollback to a grant of the same thread and leaves a grant over for every flow
that a thread owns, with the transition under way counted on the side where the
journal already has it. Both for the committed journal and with the open
transaction. A mutation that the code validates with a view that still holds a
failed group is therefore accepted by replay all the same.

**Only model-checked**: `WorkspaceRealization`, whose `NoDrift` and
`RetiredNotReused` depend on what plans contain; plans are sorted and flattened with
recursive operators, and what a recursion computes for every input is out of the
prover's reach. And all liveness, which needs fairness and `ENABLED`.

## 6. Limits of the code, and where it disagrees with what it says

None of these is a run that TLC refutes: each is stated as the exception in a
property that holds, or seen while modelling and left out as said.

In the kernel and the effect journal:

1. *A checkpoint after a commit cannot be read back* (`snapshot.py:94`,
   `StoreMoves`). The decoded snapshot is rebuilt without the commit's chained
   state digest, so its identity differs and `load`, and every later `save` of the
   directory store, raises.
2. *A scheduling checkpoint can hold transitions that were never committed*
   (`durable.py:464`, against the comment at `durable.py:47`). After a failed
   group commit the lock is free before the view is reset, and a mutation of
   another thread may store that view. `spoilt` marks exactly this; `ViewsSound`
   and the last part of `JournalSound` hold until then. Afterwards every process
   that starts from the checkpoint accounts for transitions that nobody made, and
   with two flows and four calls one can commit an event that a replay from the
   first event refuses.
3. *A retried append acknowledges an unsynced record* (`journal.py:1673`). When
   the first attempt wrote and its sync failed, the retry finds the record in the
   file and returns it without a sync; a power loss may then take it.
   `AckedStored` excepts exactly these records, and only when the power fails.
4. *The first read looks for a retirement before it has the lock*
   (`journal.py:1614`). A purge that completes in between leaves an empty file, and
   the executor shows a purged machine as a new one; it cannot commit to it
   (`RetirementFinal`).
5. *`load` may report a divergence that is not there* (`persistent.py:62`). Row
   and event head are read separately; `ProjectionIsHead` says that a record that
   moved in between is the only cause.
6. *A late unknown answer replaces a confirmed or rejected receipt*
   (`transitions.py:220`); `TerminalFinal` has it as its one exception.

In resources:

7. *Two live exclusive leases* (`authority.py:4448`: "the sole live lease"). A
   renewal that waited for the writer accepts, by its old reading, a lease that
   ran out and was meanwhile replaced. `SoleLease` says that nothing else does.
8. *Borrowers' leases do not expire*: one that dies with its lease blocks the
   removal of the environment (`Leaked` in `PendingResolves`).
9. *A pending removal of an external environment is never finished*
   (`lifecycle.py:262`): recovery refuses a root it does not manage. A host reboot
   strands a pending create or remove the same way.
10. *A crash between `mkdir` and the metadata* leaves a directory on which
    `observe` and `retire` raise (`workspace_physical.py:227`), although
    `reconciliation.py:158` takes every crash of a prepared ticket for recoverable.
    `RemovalConverges` excepts it.
11. *Claims have no generation in their identity*, so an allocation with the same
    metadata meets the old ticket; and after a reboot the terminal claim of a
    removal is fenced, so that the identity can be allocated again and the removal
    answers that there is nothing to remove. `RemovalConverges` and
    `RetiredNotReused` hold until then.

In actions (`EffectsSettle` holds because agents also observe):

12. *A bridge that could not be restarted* is neither dead nor pending
    (`jsonl_bridge.py:747`): retries of `prepare` and `reconcile` alone would fail
    for ever.
13. Not modelled: a failed write of the bridge's journal while the bridge lives. A
    failed `complete` answers unknown without a recommendation to recycle, and the
    bytes of a torn line make the next load of the journal fail.
14. Not modelled: two overlapping calls of one slot, which nothing in the plain
    dispatcher prevents; a crash after the dispatcher completed
    `capability.effect.prepare` and before the intent is written, after which the
    durable dispatcher asks for a replay; and a record the general reconciliation
    service made `reconciled` without a snapshot, which
    `resolve_existing_capability_effect` refuses.

## 7. Not modelled

- Encodings, digests, JSON canonicalisation, size limits: pure conversions.
- The proposer and the universal machine: a step takes any proposal that passes
  `_validate_proposal`.
- Fair sharing, virtual time and resource shapes of the unified scheduler.
- Quotas, reservations and the other resource kinds of the resource authority.
- Composite skills of the bridge with child actions, process-local bridge journals
  (whose unknown is final), and the session's checkpoint of the action ledger.
- What an action handler does in the game; its verdict is taken to be true.
- Everything that only reads (inspection, reports, observability), compiles
  (workflow lowering, composition) or drives external systems (processes, tmux,
  containers, browsers, model servers). This is by far the larger part of the
  repository.
- The parts listed in section 8.

`PROJECT.json` lists every part with its status and the reason.

## 8. Plan

Done, in order of importance: executor and its abstract log and lease; the
directory authority; the directory journal; retirement and snapshots, composed;
delivery; effect journal; scheduling authority; resource leases; Python
environments; workspaces; capability effects and the Minecraft bridge; theorems
about all but the workspaces.

Next, models: the service start journal (retries that stamp the time, `abort`
against a late process) and the durable operation dispatcher, both clients of
`EffectJournal`; child supervision, with `MachineDelivery`; task groups,
cancellation and single flight; budgets, serving admission and the replica pool;
unit driver and host, several machines on top of `CommitLog` and
`MachineDelivery`; garbage collection of the blob store.

Next, theorems: the parts of `NoDrift` that do not depend on the order of a plan;
that `PythonEnvironment` and `ActionEffects` implement abstract specifications of an
environment and of an action.
