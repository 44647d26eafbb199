------------------------ MODULE MachineExecutorProofs ------------------------
(***************************************************************************)
(* Invariance proofs for MachineExecutor: for every number of executors,   *)
(* commands, epochs and faults.                                            *)
(***************************************************************************)
EXTENDS MachineExecutor, TLAPS

(* The inductive invariant.  Snapshots are always on the chain, open or not. *)
SnapshotsOnChain ==
  \A e \in Executor : \/ snap[e] = InitialSnapshot
                      \/ \E i \in DOMAIN journal : snap[e] = SnapshotOf(journal[i])

(* Why a fenced executor cannot append: a commit of a later epoch than its
   own is a revision its snapshot does not have, so its base is stale. *)
FencedIsStale ==
  /\ \A i \in DOMAIN journal : journal[i].draft.epoch <= lease.epoch
  /\ ~ UseAuthority => \A i \in DOMAIN journal : journal[i].draft.epoch = 0
  /\ \A e \in Executor :
       /\ held[e].epoch <= lease.epoch
       /\ phase[e] = "committing" => draft[e].epoch = EpochOf(e)
       /\ phase[e] \in {"proposing", "committing"} =>
            \A i \in DOMAIN journal :
              journal[i].draft.epoch > EpochOf(e) => snap[e].revision < i

(* What is enqueued, or about to be, is in the journal; what is about to be
   acknowledged is in the journal and enqueued but for todo. *)
OutboxWork ==
  /\ outbox \subseteq Envelopes(journal)
  /\ \A d \in acked : \E i \in DOMAIN journal : journal[i].draft = d
  /\ \A e \in Executor :
       /\ todo[e] \subseteq Envelopes(journal)
       /\ e \notin OutboxBound => draft[e].emits = {}
       /\ result[e] # NoResult =>
            /\ \E i \in DOMAIN journal : journal[i] = result[e][1]
            /\ EnvelopesOf(result[e][1]) \subseteq outbox \cup todo[e]

JournalInv == HistoryChained /\ CommandCommittedOnce /\ OneExecutable /\ SnapshotsOnChain

(* The draft r with a proposal in it. *)
Proposed(r, d, k, s, n) == [r EXCEPT !.delta = d, !.emits = k, !.status = s, !.epoch = n]

(* A draft with a proposal in it is a draft. *)
LEMMA ProposedType ==
  ASSUME NEW r \in Draft, NEW d \in Delta, NEW k \in SUBSET Child, NEW s \in Status, NEW n \in Nat
  PROVE  /\ Proposed(r, d, k, s, n) \in Draft
         /\ Proposed(r, d, k, s, n).epoch = n /\ Proposed(r, d, k, s, n).emits = k
BY Zenon DEF Proposed, Draft

(* A draft with no proposal in it is a draft. *)
LEMMA NoDraftType == \A e \in Executor : NoDraft(e) \in Draft
BY JournalAssumption, ExecutorAssumption, Zenon DEF NoDraft, Draft, Ready

(* The lease nobody wrote is a lease record. *)
LEMMA NoLeaseType == NoLease \in LeaseRecord
BY OwnerAssumption, Zenon DEF NoLease, LeaseRecord

(* What a step commits on a snapshot is a commit. *)
LEMMA CommitOnType ==
  ASSUME NEW s \in Snapshot, NEW d \in Draft PROVE CommitOn(s, d) \in Commit
BY DEF CommitOn, Commit, Snapshot, Draft

(* The snapshot rebuilt from a commit is a snapshot. *)
LEMMA SnapshotOfType == ASSUME NEW c \in Commit PROVE SnapshotOf(c) \in Snapshot
BY DEF SnapshotOf, Snapshot, Commit, Revision, CommitId

(* The snapshot of an empty journal is a snapshot. *)
LEMMA InitialSnapshotType == InitialSnapshot \in Snapshot
BY DEF InitialSnapshot, Snapshot

(* The envelopes of a commit and of a journal are envelopes. *)
LEMMA EnvelopesOfType == ASSUME NEW c \in Commit PROVE EnvelopesOf(c) \subseteq Envelope
<1>1. CommitId(c) \in Seq(Draft)
  BY DEF Commit, CommitId
<1>2. c.draft.emits \subseteq Child
  BY Zenon DEF Commit, Draft
<1> QED
  BY <1>1, <1>2 DEF EnvelopesOf, Envelope

(* reconcile_outbox finds only envelopes. *)
LEMMA EnvelopesType == ASSUME NEW j \in Seq(Commit) PROVE Envelopes(j) \subseteq Envelope
BY EnvelopesOfType DEF Envelopes

(* Init establishes the types. *)
LEMMA InitType == Init => TypeOK
<1> SUFFICES ASSUME Init PROVE TypeOK
  BY Zenon
<1>1. Ready \in Status
  BY JournalAssumption, Zenon DEF Ready
<1>2. LeaseTypeOK
  BY NoLeaseType, Zenon DEF Init, LeaseInit, LeaseTypeOK
<1>3. journal \in Seq(Commit) /\ result \in [Executor -> Seq(Commit)]
  BY DEF Init, NoResult
<1>4. /\ phase \in [Executor -> Phase] /\ open \in [Executor -> BOOLEAN]
      /\ snap \in [Executor -> Snapshot] /\ status \in [Executor -> Status]
  BY <1>1, InitialSnapshotType, Zenon DEF Init, Phase
<1>5. held \in [Executor -> LeaseRecord] /\ draft \in [Executor -> Draft]
  BY NoDraftType, NoLeaseType, Zenon DEF Init
<1> QED
  BY <1>2, <1>3, <1>4, <1>5, Zenon DEF Init, TypeOK

(* Every step keeps the types. *)
LEMMA NextType == TypeOK /\ [Next]_vars => TypeOK'
<1> SUFFICES ASSUME TypeOK, [Next]_vars PROVE TypeOK'
  BY Zenon
<1>u. CASE UNCHANGED vars
  BY <1>u, Zenon DEF TypeOK, vars, execVars, leaseVars, LeaseTypeOK
<1>a. ASSUME NEW e \in Executor, OpenEmpty(e) PROVE TypeOK'
  BY <1>a, InitialSnapshotType, Zenon DEF TypeOK, OpenEmpty, leaseVars, LeaseTypeOK
<1>b. ASSUME NEW e \in Executor, OpenHead(e) PROVE TypeOK'
  <2>1. journal[Len(journal)] \in Commit
    BY <1>b DEF TypeOK, OpenHead
  <2>2. SnapshotOf(journal[Len(journal)]) \in Snapshot /\ journal[Len(journal)].draft.status \in Status
    BY <2>1, SnapshotOfType, Zenon DEF Commit, Draft
  <2> QED
    BY <1>b, <2>2, Zenon DEF TypeOK, OpenHead, AfterOpen, leaseVars, LeaseTypeOK, Phase
<1>c. ASSUME NEW e \in Executor, ReconcileOutbox(e) PROVE TypeOK'
  BY <1>c, EnvelopesType DEF TypeOK, ReconcileOutbox, leaseVars, LeaseTypeOK, Phase, NoResult
<1>ad. ASSUME NEW e \in Executor, NEW c \in Commit, Adopt(e, c)
       PROVE /\ open' \in [Executor -> BOOLEAN] /\ snap' \in [Executor -> Snapshot]
             /\ todo' \in [Executor -> SUBSET Envelope] /\ result' \in [Executor -> Seq(Commit)]
             /\ phase' \in [Executor -> Phase]
  <2>1. SnapshotOf(c) \in Snapshot /\ ToEnqueue(e, c) \subseteq Envelope /\ <<c>> \in Seq(Commit)
    BY SnapshotOfType, EnvelopesOfType DEF ToEnqueue
  <2> QED
    BY <1>ad, <2>1, Zenon DEF Adopt, TypeOK, Phase
<1>id. ASSUME NEW e \in Executor, ToIdle(e)
       PROVE /\ draft' \in [Executor -> Draft] /\ todo' \in [Executor -> SUBSET Envelope]
             /\ result' \in [Executor -> Seq(Commit)] /\ phase' \in [Executor -> Phase]
  BY <1>id, NoDraftType DEF ToIdle, TypeOK, Phase, NoResult
<1>sc. ASSUME NEW e \in Executor PROVE StepCommit(e) \in Commit
  BY CommitOnType, Zenon DEF StepCommit, TypeOK
<1>d. ASSUME NEW e \in Executor, NEW cmd \in Command, NEW pay \in Payload, StepExisting(e, cmd, pay)
      PROVE TypeOK'
  <2>1. PICK i \in DOMAIN journal : Adopt(e, journal[i])
    BY <1>d, Zenon DEF StepExisting, RevisionsOf
  <2>2. journal[i] \in Commit
    BY DEF TypeOK
  <2> QED
    BY <1>d, <1>ad, <2>1, <2>2, Zenon DEF StepExisting, TypeOK, leaseVars, LeaseTypeOK
<1>e. ASSUME NEW e \in Executor, NEW cmd \in Command, NEW pay \in Payload, StepBegin(e, cmd, pay)
      PROVE TypeOK'
  <2>1. [NoDraft(e) EXCEPT !.command = cmd, !.payload = pay] \in Draft
    BY NoDraftType, Zenon DEF Draft
  <2> QED
    BY <1>e, <2>1, Zenon DEF StepBegin, TypeOK, leaseVars, LeaseTypeOK, Phase
<1>f. ASSUME NEW e \in Executor, StepPropose(e) PROVE TypeOK'
  <2>1. EpochOf(e) \in Nat
    BY Zenon DEF EpochOf, TypeOK, LeaseRecord
  <2>2. draft' \in [Executor -> Draft]
    <3>1. PICK d \in Delta, k \in SUBSET Child, s \in Status :
            draft' = [draft EXCEPT ![e] = Proposed(draft[e], d, k, s, EpochOf(e))]
      BY <1>f, Zenon DEF StepPropose, EmitsAllowed, Proposed
    <3>2. draft \in [Executor -> Draft]
      BY Zenon DEF TypeOK
    <3> QED
      BY <2>1, <3>1, <3>2, ProposedType, Zenon
  <2> QED
    BY <1>f, <2>2, Zenon DEF StepPropose, TypeOK, leaseVars, LeaseTypeOK, Phase
<1>g. ASSUME NEW e \in Executor, StepAppend(e) PROVE TypeOK'
  <2>1. journal' \in Seq(Commit)
    <3>1. journal' = journal \/ journal' = Append(journal, StepCommit(e))
      BY <1>g, Zenon DEF StepAppend
    <3>2. journal \in Seq(Commit)
      BY Zenon DEF TypeOK
    <3> QED
      BY <1>sc, <3>1, <3>2
  <2> QED
    BY <1>g, <1>ad, <1>sc, <2>1, Zenon DEF StepAppend, TypeOK, leaseVars, LeaseTypeOK
<1>h. ASSUME NEW e \in Executor, StepAppendUncertain(e) PROVE TypeOK'
  <2>1. journal' \in Seq(Commit)
    BY <1>h, <1>sc DEF StepAppendUncertain, TypeOK
  <2> QED
    BY <1>h, <1>id, <2>1 DEF StepAppendUncertain, TypeOK, leaseVars, LeaseTypeOK
<1>i. ASSUME NEW e \in Executor, StepRefused(e) PROVE TypeOK'
  BY <1>i, <1>id, Zenon DEF StepRefused, TypeOK, leaseVars, LeaseTypeOK
<1>j. ASSUME NEW e \in Executor, EnqueueOne(e) PROVE TypeOK'
  BY <1>j DEF EnqueueOne, TypeOK, leaseVars, LeaseTypeOK
<1>k. ASSUME NEW e \in Executor, Return(e) PROVE TypeOK'
  <2>1. CASE result[e] = NoResult
    BY <1>k, <1>id, <2>1, Zenon DEF Return, TypeOK, leaseVars, LeaseTypeOK
  <2>2. CASE result[e] # NoResult
    <3>1. result[e][1] \in Commit
      BY <2>2 DEF TypeOK, NoResult
    <3>2. result[e][1].draft \in Draft /\ result[e][1].draft.status \in Status
      BY <3>1, Zenon DEF Commit, Draft
    <3> QED
      BY <1>k, <1>id, <2>2, <3>2, Zenon DEF Return, TypeOK, leaseVars, LeaseTypeOK
  <2> QED
    BY <2>1, <2>2, Zenon
<1>l. ASSUME NEW e \in Executor, EnqueueFails(e) PROVE TypeOK'
  BY <1>l, <1>id DEF EnqueueFails, TypeOK, leaseVars, LeaseTypeOK
<1>m. ASSUME NEW e \in Executor, Replay(e) PROVE TypeOK'
  <2>1. \A i \in DOMAIN journal :
          SnapshotOf(journal[i]) \in Snapshot /\ journal[i].draft.status \in Status
    <3>1. \A i \in DOMAIN journal : journal[i] \in Commit
      BY DEF TypeOK
    <3> QED
      BY <3>1, SnapshotOfType, Zenon DEF Commit, Draft
  <2> QED
    BY <1>m, <2>1 DEF Replay, TypeOK, leaseVars, LeaseTypeOK
<1>n. ASSUME NEW e \in Executor, Crash(e) PROVE TypeOK'
  <2>1. Ready \in Status
    BY JournalAssumption, Zenon DEF Ready
  <2> QED
    BY <1>n, <1>id, <2>1, InitialSnapshotType, NoLeaseType DEF Crash, TypeOK, leaseVars, LeaseTypeOK
<1>o. ASSUME NEW e \in Executor, Acquire(e) PROVE TypeOK'
  <2>1. lease' \in LeaseRecord /\ leaseLive' \in BOOLEAN
    <3>1. lease \in LeaseRecord /\ leaseLive \in BOOLEAN /\ e \in Owner
      BY Zenon DEF TypeOK, LeaseTypeOK, Executor
    <3>2. AcquireLease(e)
      BY <1>o, Zenon DEF Acquire
    <3>3. CASE lease' = lease /\ leaseLive' = leaseLive
      BY <3>1, <3>3, Zenon
    <3>4. CASE leaseLive' = TRUE /\ \E s \in Stamp :
                 lease' = [owner |-> e, epoch |-> lease.epoch + 1, stamp |-> s]
      <4>1. lease' \in LeaseRecord
        BY <3>1, <3>4 DEF LeaseRecord
      <4> QED
        BY <3>4, <4>1, Zenon
    <3> QED
      BY <3>2, <3>3, <3>4, Zenon DEF AcquireLease, leaseVars
  <2> QED
    BY <1>o, <2>1, Zenon DEF Acquire, TypeOK, LeaseTypeOK
<1>p. CASE Renew
  BY <1>p, Zenon DEF Renew, RenewLease, TypeOK, LeaseTypeOK, LeaseRecord, execVars
<1>q. CASE Lapse
  BY <1>q, Zenon DEF Lapse, LapseLease, TypeOK, LeaseTypeOK, execVars
<1> QED
  BY <1>u, <1>a, <1>b, <1>c, <1>d, <1>e, <1>f, <1>g, <1>h, <1>i, <1>j, <1>k, <1>l, <1>m, <1>n,
     <1>o, <1>p, <1>q, Zenon DEF Next, Step

(* Every variable keeps the type of the attribute it stands for. *)
THEOREM TypeCorrect == Spec => []TypeOK
BY InitType, NextType, PTL DEF Spec

-----------------------------------------------------------------------------
(* What appending to a journal changes. *)
LEMMA AppendFacts ==
  ASSUME NEW j \in Seq(Commit), NEW c \in Commit
  PROVE  /\ Append(j, c) \in Seq(Commit)
         /\ DOMAIN Append(j, c) = DOMAIN j \cup {Len(j) + 1}
         /\ DOMAIN j = 1..Len(j) /\ Len(j) \in Nat
         /\ Len(Append(j, c)) = Len(j) + 1
         /\ \A i \in DOMAIN j : Append(j, c)[i] = j[i]
         /\ Append(j, c)[Len(j) + 1] = c
OBVIOUS

(* What a step builds is a commit. *)
LEMMA StepCommitType == TypeOK => \A e \in Executor : StepCommit(e) \in Commit
BY CommitOnType, Zenon DEF StepCommit, TypeOK

(* The journal only changes by an append that validate_next admits, of the
   commit an executor built from its snapshot; the executor leaves the step. *)
LEMMA JournalStep ==
  [Next]_vars => \/ journal' = journal
                 \/ \E e \in Executor : /\ phase[e] = "committing"
                                        /\ ValidNext(journal, StepCommit(e))
                                        /\ journal' = Append(journal, StepCommit(e))
BY ZenonT(60) DEF Next, Step, vars, execVars, OpenEmpty, OpenHead, ReconcileOutbox, StepExisting, StepBegin,
       StepPropose, StepAppend, StepAppendUncertain, StepRefused, EnqueueOne, Return,
       EnqueueFails, Replay, Crash, Acquire, Renew, Lapse

(* Accepted commits keep their revision. *)
LEMMA JournalGrows ==
  TypeOK /\ [Next]_vars => /\ DOMAIN journal \subseteq DOMAIN journal'
                           /\ \A i \in DOMAIN journal : journal'[i] = journal[i]
<1> SUFFICES ASSUME TypeOK, [Next]_vars
             PROVE  /\ DOMAIN journal \subseteq DOMAIN journal'
                    /\ \A i \in DOMAIN journal : journal'[i] = journal[i]
  BY Zenon
<1>1. ASSUME NEW e \in Executor, journal' = Append(journal, StepCommit(e))
      PROVE  /\ DOMAIN journal \subseteq DOMAIN journal'
             /\ \A i \in DOMAIN journal : journal'[i] = journal[i]
  <2>1. journal \in Seq(Commit) /\ StepCommit(e) \in Commit
    BY StepCommitType, Zenon DEF TypeOK
  <2> QED
    BY <1>1, <2>1, AppendFacts
<1> QED
  BY <1>1, JournalStep, Zenon

(* An admitted commit extends the chain: its snapshot is the head's. *)
LEMMA HeadFacts ==
  ASSUME TypeOK, HistoryChained, SnapshotsOnChain, NEW e \in Executor,
         ValidNext(journal, StepCommit(e))
  PROVE  /\ snap[e].revision = Len(journal)
         /\ journal = <<>> => snap[e] = InitialSnapshot
         /\ journal # <<>> => snap[e] = SnapshotOf(journal[Len(journal)])
<1>1. journal \in Seq(Commit) /\ snap[e] \in Snapshot
  BY Zenon DEF TypeOK
<1>2. \A i \in DOMAIN journal : Revision(journal[i]) = i
  BY <1>1 DEF HistoryChained, Revision, Commit
<1>3. HeadRevision(journal) = Len(journal)
  BY <1>1, <1>2 DEF HeadRevision
<1>4. snap[e].revision = Len(journal)
  BY <1>3, Zenon DEF ValidNext, StepCommit, CommitOn
<1>5. snap[e] = InitialSnapshot \/ \E i \in DOMAIN journal : snap[e] = SnapshotOf(journal[i])
  BY Zenon DEF SnapshotsOnChain
<1>6. ASSUME NEW i \in DOMAIN journal, snap[e] = SnapshotOf(journal[i]) PROVE i = Len(journal)
  BY <1>2, <1>4, <1>6 DEF SnapshotOf
<1>7. journal # <<>> => snap[e] # InitialSnapshot
  BY <1>1, <1>4 DEF InitialSnapshot
<1> QED
  BY <1>1, <1>4, <1>5, <1>6, <1>7

(* The history stays chained, each command once, by one executable, and every
   snapshot stays on the chain. *)
LEMMA ChainedStep == TypeOK /\ JournalInv /\ [Next]_vars => (HistoryChained /\ CommandCommittedOnce /\ OneExecutable)'
<1> SUFFICES ASSUME TypeOK, JournalInv, [Next]_vars
             PROVE  (HistoryChained /\ CommandCommittedOnce /\ OneExecutable)'
  BY Zenon
<1>1. CASE journal' = journal
  BY <1>1 DEF JournalInv, HistoryChained, CommandCommittedOnce, OneExecutable
<1>2. ASSUME NEW e \in Executor, ValidNext(journal, StepCommit(e)),
             journal' = Append(journal, StepCommit(e))
      PROVE  (HistoryChained /\ CommandCommittedOnce /\ OneExecutable)'
  <2> DEFINE c == StepCommit(e)
             n == Len(journal)
  <2>1. journal \in Seq(Commit) /\ c \in Commit /\ n \in Nat
    BY StepCommitType DEF TypeOK
  <2>2. /\ DOMAIN journal' = DOMAIN journal \cup {n + 1} /\ DOMAIN journal = 1..n
        /\ \A i \in DOMAIN journal : journal'[i] = journal[i]
        /\ journal'[n + 1] = c
    BY <1>2, <2>1, AppendFacts, Zenon
  <2>3. HistoryChained'
    <3>1. c.base = n /\ c.prev = snap[e].parent /\ c.state = Append(snap[e].state, c.draft.delta)
      BY <1>2, HeadFacts, Zenon DEF StepCommit, CommitOn, JournalInv
    <3>2. n = 0 => c.prev = <<>> /\ c.state = <<c.draft.delta>>
      <4>1. n = 0 => journal = <<>>
        BY <2>1
      <4>2. n = 0 => snap[e].parent = <<>> /\ snap[e].state = <<>>
        BY <1>2, <4>1, HeadFacts DEF InitialSnapshot, JournalInv
      <4>3. \A x : Append(<<>>, x) = <<x>>
        OBVIOUS
      <4> QED
        BY <3>1, <4>2, <4>3, Zenon
    <3>3. n > 0 => /\ c.prev = CommitId(journal[n])
                   /\ c.state = Append(journal[n].state, c.draft.delta)
      BY <1>2, <2>1, <3>1, HeadFacts DEF SnapshotOf, JournalInv
    <3> HIDE DEF c
    <3>4. \A i \in DOMAIN journal :
            /\ journal'[i].base = i - 1
            /\ i = 1 => journal'[i].prev = <<>> /\ journal'[i].state = <<journal'[i].draft.delta>>
            /\ i > 1 => /\ journal'[i].prev = CommitId(journal'[i - 1])
                        /\ journal'[i].state = Append(journal'[i - 1].state, journal'[i].draft.delta)
      <4>1. HistoryChained
        BY Zenon DEF JournalInv
      <4>2. \A i \in DOMAIN journal : i > 1 => i - 1 \in DOMAIN journal
        BY <2>1, <2>2
      <4> QED
        BY <2>2, <4>1, <4>2, Zenon DEF HistoryChained
    <3>5. LET i == n + 1 IN
            /\ journal'[i].base = i - 1
            /\ i = 1 => journal'[i].prev = <<>> /\ journal'[i].state = <<journal'[i].draft.delta>>
            /\ i > 1 => /\ journal'[i].prev = CommitId(journal'[i - 1])
                        /\ journal'[i].state = Append(journal'[i - 1].state, journal'[i].draft.delta)
      <4> HIDE DEF n
      <4>1. n + 1 - 1 = n /\ (n > 0 => n \in 1..n)
        BY <2>1
      <4>2. n > 0 => journal'[n] = journal[n]
        BY <2>2, <4>1, Zenon
      <4> QED
        BY <2>1, <2>2, <3>1, <3>2, <3>3, <4>1, <4>2
    <3> QED
      BY <2>2, <3>4, <3>5, Zenon DEF HistoryChained
  <2>4. CommandCommittedOnce'
    BY <1>2, <2>1, <2>2 DEF JournalInv, CommandCommittedOnce, ValidNext, RevisionsOf
  <2>5. OneExecutable'
    BY <1>2, <2>1, <2>2 DEF JournalInv, OneExecutable, ValidNext
  <2> QED
    BY <2>3, <2>4, <2>5, Zenon
<1> QED
  BY <1>1, <1>2, JournalStep, Zenon

(* A snapshot changes only to the initial one or to that of a revision the
   journal holds after the step. *)
LEMMA SnapshotStep ==
  TypeOK /\ [Next]_vars =>
    \A x \in Executor : \/ snap'[x] \in {snap[x], InitialSnapshot}
                       \/ \E i \in DOMAIN journal' : snap'[x] = SnapshotOf(journal'[i])
<1> SUFFICES ASSUME TypeOK, [Next]_vars, NEW x \in Executor
             PROVE  \/ snap'[x] \in {snap[x], InitialSnapshot}
                    \/ \E i \in DOMAIN journal' : snap'[x] = SnapshotOf(journal'[i])
  BY Zenon
<1>t. snap \in [Executor -> Snapshot] /\ journal \in Seq(Commit)
  BY Zenon DEF TypeOK
<1>1. CASE snap' = snap
  BY <1>1, Zenon
<1>2. ASSUME NEW e \in Executor, OpenEmpty(e) \/ Crash(e)
      PROVE  snap'[x] \in {snap[x], InitialSnapshot}
  BY <1>2, <1>t, Zenon DEF OpenEmpty, Crash
<1>3. ASSUME NEW e \in Executor, NEW i \in DOMAIN journal', snap' = [snap EXCEPT ![e] = SnapshotOf(journal'[i])]
      PROVE  \/ snap'[x] = snap[x]
             \/ \E k \in DOMAIN journal' : snap'[x] = SnapshotOf(journal'[k])
  BY <1>3, <1>t, Zenon
<1>4. ASSUME NEW e \in Executor, OpenHead(e) \/ Replay(e)
      PROVE  \E i \in DOMAIN journal' : snap' = [snap EXCEPT ![e] = SnapshotOf(journal'[i])]
  BY <1>4, <1>t DEF OpenHead, Replay
<1>5. ASSUME NEW e \in Executor, NEW cmd, NEW pay, StepExisting(e, cmd, pay)
      PROVE  \E i \in DOMAIN journal' : snap' = [snap EXCEPT ![e] = SnapshotOf(journal'[i])]
  BY <1>5, Zenon DEF StepExisting, Adopt, RevisionsOf
<1>6. ASSUME NEW e \in Executor, StepAppend(e)
      PROVE  \E i \in DOMAIN journal' : snap' = [snap EXCEPT ![e] = SnapshotOf(journal'[i])]
  <2>1. snap' = [snap EXCEPT ![e] = SnapshotOf(StepCommit(e))]
    BY <1>6, Zenon DEF StepAppend, Adopt
  <2>2. CASE AlreadyAccepted(journal, StepCommit(e)) /\ journal' = journal
    BY <2>1, <2>2, Zenon DEF AlreadyAccepted
  <2>3. CASE journal' = Append(journal, StepCommit(e))
    <3>1. journal \in Seq(Commit) /\ StepCommit(e) \in Commit
      BY StepCommitType, <1>t, Zenon
    <3>2. Len(journal) + 1 \in DOMAIN journal' /\ journal'[Len(journal) + 1] = StepCommit(e)
      BY <2>3, <3>1, AppendFacts, Zenon
    <3> QED
      BY <2>1, <3>2, Zenon
  <2> QED
    BY <1>6, <2>2, <2>3, Zenon DEF StepAppend
<1> QED
  BY <1>1, <1>2, <1>3, <1>4, <1>5, <1>6, Zenon
     DEF Next, Step, vars, execVars, ReconcileOutbox, StepBegin, StepPropose, StepAppendUncertain,
         StepRefused, EnqueueOne, Return, EnqueueFails, Acquire, Renew, Lapse

(* No step breaks the chain, or leaves an open executor with a snapshot that is
   not on it. *)
LEMMA JournalInvStep == TypeOK /\ JournalInv /\ [Next]_vars => JournalInv'
<1> SUFFICES ASSUME TypeOK, JournalInv, [Next]_vars PROVE JournalInv'
  BY Zenon
<1>1. SnapshotsOnChain'
  <2>1. SnapshotsOnChain
    BY Zenon DEF JournalInv
  <2> QED
    BY <2>1, SnapshotStep, JournalGrows DEF SnapshotsOnChain
<1> QED
  BY <1>1, ChainedStep, Zenon DEF JournalInv

(* The empty journal is a chain. *)
LEMMA InitJournalInv == Init => JournalInv
BY DEF Init, JournalInv, HistoryChained, CommandCommittedOnce, OneExecutable, SnapshotsOnChain

(* Whatever executors do, and wherever they crash: every revision extends the
   one before it, a command is committed once, one executable writes the
   journal, and an open executor's snapshot is an accepted one. *)
THEOREM HistoryIsOneChain ==
  Spec => [](OneHistory /\ CommandCommittedOnce /\ SnapshotAccepted)
<1>1. Init => TypeOK /\ JournalInv
  BY InitType, InitJournalInv, Zenon
<1>2. TypeOK /\ JournalInv /\ [Next]_vars => (TypeOK /\ JournalInv)'
  BY NextType, JournalInvStep, Zenon
<1>3. JournalInv => OneHistory /\ CommandCommittedOnce /\ SnapshotAccepted
  BY Zenon DEF JournalInv, SnapshotsOnChain, SnapshotAccepted, OneHistory
<1> QED
  BY <1>1, <1>2, <1>3, PTL DEF Spec

-----------------------------------------------------------------------------
(* The epoch of the lease record never decreases, and an executor's copy is
   the old one, none, or the record in force. *)
LEMMA LeaseStep ==
  TypeOK /\ [Next]_vars =>
    /\ lease.epoch <= lease'.epoch
    /\ \A x \in Executor : held'[x] \in {held[x], NoLease, lease'}
<1> SUFFICES ASSUME TypeOK, [Next]_vars
             PROVE  /\ lease.epoch <= lease'.epoch
                    /\ \A x \in Executor : held'[x] \in {held[x], NoLease, lease'}
  BY Zenon
<1>t. held \in [Executor -> LeaseRecord] /\ lease.epoch \in Nat
  BY Zenon DEF TypeOK, LeaseTypeOK, LeaseRecord
<1>1. CASE lease' = lease /\ held' = held
  BY <1>1, <1>t
<1>2. ASSUME NEW e \in Executor, Crash(e) PROVE lease' = lease /\ held' = [held EXCEPT ![e] = NoLease]
  BY <1>2, Zenon DEF Crash, leaseVars
<1>3. ASSUME NEW e \in Executor, Acquire(e)
      PROVE  lease.epoch <= lease'.epoch /\ held' = [held EXCEPT ![e] = lease']
  <2>1. lease' = lease \/ lease'.epoch = lease.epoch + 1
    BY <1>3 DEF Acquire, AcquireLease, leaseVars
  <2> QED
    BY <1>3, <2>1, <1>t DEF Acquire
<1>4. CASE Renew
  <2>1. lease'.epoch = lease.epoch /\ held' = held
    BY <1>4, Zenon DEF Renew, RenewLease, execVars, TypeOK, LeaseTypeOK, LeaseRecord
  <2> QED
    BY <2>1, <1>t
<1>5. \/ lease' = lease /\ held' = held
      \/ \E e \in Executor : Crash(e) \/ Acquire(e)
      \/ Renew
  BY ZenonT(60) DEF Next, Step, vars, execVars, leaseVars, OpenEmpty, OpenHead, ReconcileOutbox, StepExisting,
         StepBegin, StepPropose, StepAppend, StepAppendUncertain, StepRefused, EnqueueOne, Return,
         EnqueueFails, Replay, Lapse, LapseLease
<1> QED
  BY <1>1, <1>2, <1>3, <1>4, <1>5, <1>t

(* An executor inside a step keeps its snapshot and its lease copy; it got
   there past an authority assertion, and the epoch it commits is its copy's. *)
LEMMA InStep ==
  TypeOK /\ [Next]_vars =>
    \A x \in Executor : phase'[x] \in {"proposing", "committing"} =>
      /\ held'[x] = held[x] /\ snap'[x] = snap[x]
      /\ \/ phase[x] \in {"proposing", "committing"}
         \/ AuthorityOk(x) /\ journal' = journal /\ lease' = lease
      /\ phase'[x] = "committing" => \/ draft'[x].epoch = EpochOf(x)
                                     \/ phase[x] = "committing" /\ draft'[x] = draft[x]
<1> DEFINE Q(x) == phase'[x] \in {"proposing", "committing"} =>
      /\ held'[x] = held[x] /\ snap'[x] = snap[x]
      /\ \/ phase[x] \in {"proposing", "committing"}
         \/ AuthorityOk(x) /\ journal' = journal /\ lease' = lease
      /\ phase'[x] = "committing" => \/ draft'[x].epoch = EpochOf(x)
                                     \/ phase[x] = "committing" /\ draft'[x] = draft[x]
<1> SUFFICES ASSUME TypeOK, [Next]_vars, NEW x \in Executor PROVE Q(x)
  BY Zenon
<1>t. /\ phase \in [Executor -> Phase] /\ snap \in [Executor -> Snapshot]
      /\ held \in [Executor -> LeaseRecord] /\ draft \in [Executor -> Draft]
  BY Zenon DEF TypeOK
<1>1. CASE phase' = phase /\ held' = held /\ snap' = snap /\ draft' = draft
  BY <1>1, Zenon
<1>2. ASSUME NEW e \in Executor, OpenEmpty(e) \/ Replay(e) \/ Acquire(e) PROVE Q(x)
  BY <1>2, <1>t, Zenon DEF OpenEmpty, Replay, Acquire
<1>3. ASSUME NEW e \in Executor, OpenHead(e) \/ ReconcileOutbox(e) PROVE Q(x)
  BY <1>3, <1>t, Zenon DEF OpenHead, AfterOpen, ReconcileOutbox
<1>4. ASSUME NEW e \in Executor, NEW c, Adopt(e, c), held' = held, draft' = draft PROVE Q(x)
  BY <1>4, <1>t, Zenon DEF Adopt
<1>5. ASSUME NEW e \in Executor, NEW cmd, NEW pay, StepBegin(e, cmd, pay) PROVE Q(x)
  BY <1>5, <1>t, Zenon DEF StepBegin, leaseVars
<1>6. ASSUME NEW e \in Executor, StepPropose(e) PROVE Q(x)
  <2>1. PICK d \in Delta, k \in SUBSET Child, s \in Status :
          draft' = [draft EXCEPT ![e] = Proposed(draft[e], d, k, s, EpochOf(e))]
    BY <1>6, Zenon DEF StepPropose, EmitsAllowed, Proposed
  <2>2. draft'[e].epoch = EpochOf(e) /\ (x # e => draft'[x] = draft[x])
    <3>1. draft'[e] = Proposed(draft[e], d, k, s, EpochOf(e)) /\ (x # e => draft'[x] = draft[x])
      BY <2>1, <1>t, Zenon
    <3>2. draft[e] \in Draft
      BY <1>t, Zenon
    <3> QED
      BY <3>1, <3>2, Zenon DEF Proposed, Draft
  <2>3. phase[e] = "proposing" /\ phase' = [phase EXCEPT ![e] = "committing"] /\ held' = held /\ snap' = snap
    BY <1>6, Zenon DEF StepPropose
  <2> QED
    BY <2>2, <2>3, <1>t, Zenon
<1>7. ASSUME NEW e \in Executor, ToIdle(e), held' = held, snap' = snap PROVE Q(x)
  BY <1>7, <1>t, Zenon DEF ToIdle
<1>8. ASSUME NEW e \in Executor, Crash(e) PROVE Q(x)
  BY <1>8, <1>t, Zenon DEF Crash, ToIdle
<1>9. ASSUME NEW e \in Executor, StepAppendUncertain(e) \/ StepRefused(e) \/ Return(e) \/ EnqueueFails(e)
      PROVE  ToIdle(e) /\ held' = held /\ snap' = snap
  BY <1>9, Zenon DEF StepAppendUncertain, StepRefused, Return, EnqueueFails
<1>10. ASSUME NEW e \in Executor, StepAppend(e) \/ (\E cmd \in Command, pay \in Payload : StepExisting(e, cmd, pay))
       PROVE  \E c : Adopt(e, c) /\ held' = held /\ draft' = draft
  BY <1>10, Zenon DEF StepAppend, StepExisting
<1>11. ASSUME NEW e \in Executor, EnqueueOne(e)
       PROVE  phase' = phase /\ held' = held /\ snap' = snap /\ draft' = draft
  BY <1>11, Zenon DEF EnqueueOne
<1>12. ASSUME Renew \/ Lapse \/ UNCHANGED vars
       PROVE  phase' = phase /\ held' = held /\ snap' = snap /\ draft' = draft
  BY <1>12, Zenon DEF Renew, Lapse, vars, execVars
<1> HIDE DEF Q
<1> QED
  BY <1>1, <1>2, <1>3, <1>4, <1>5, <1>6, <1>7, <1>8, <1>9, <1>10, <1>11, <1>12, Zenon DEF Next, Step

(* A snapshot is never ahead of the journal. *)
LEMMA SnapshotNotAhead ==
  TypeOK /\ JournalInv => \A x \in Executor : snap[x].revision <= Len(journal)
<1> SUFFICES ASSUME TypeOK, JournalInv, NEW x \in Executor PROVE snap[x].revision <= Len(journal)
  BY Zenon
<1>1. journal \in Seq(Commit)
  BY Zenon DEF TypeOK
<1>2. CASE snap[x] = InitialSnapshot
  BY <1>1, <1>2 DEF InitialSnapshot
<1>3. ASSUME NEW i \in DOMAIN journal, snap[x] = SnapshotOf(journal[i]) PROVE snap[x].revision <= Len(journal)
  <2>1. journal[i].base = i - 1
    BY Zenon DEF JournalInv, HistoryChained
  <2>2. snap[x].revision = i /\ i \in 1..Len(journal)
    BY <1>1, <1>3, <2>1 DEF SnapshotOf, Revision
  <2> QED
    BY <2>2
<1> QED
  BY <1>2, <1>3, Zenon DEF JournalInv, SnapshotsOnChain

(* The epochs a commit and an executor's copy carry are numbers. *)
LEMMA EpochTypes ==
  TypeOK => /\ lease.epoch \in Nat
            /\ \A x \in Executor : held[x].epoch \in Nat /\ EpochOf(x) \in Nat /\ snap[x].revision \in Nat
            /\ \A i \in DOMAIN journal : journal[i].draft.epoch \in Nat
<1> SUFFICES ASSUME TypeOK
             PROVE  /\ lease.epoch \in Nat
                    /\ \A x \in Executor : held[x].epoch \in Nat /\ EpochOf(x) \in Nat /\ snap[x].revision \in Nat
                    /\ \A i \in DOMAIN journal : journal[i].draft.epoch \in Nat
  BY Zenon
<1>1. lease.epoch \in Nat
  BY Zenon DEF TypeOK, LeaseTypeOK, LeaseRecord
<1>2. ASSUME NEW x \in Executor PROVE held[x].epoch \in Nat /\ EpochOf(x) \in Nat /\ snap[x].revision \in Nat
  BY Zenon DEF TypeOK, LeaseRecord, EpochOf, Snapshot
<1>3. ASSUME NEW i \in DOMAIN journal PROVE journal[i].draft.epoch \in Nat
  <2>1. journal[i] \in Commit
    BY DEF TypeOK
  <2> QED
    BY <2>1, Zenon DEF Commit, Draft
<1> QED
  BY <1>1, <1>2, <1>3, Zenon

(* The journal holds an old revision, or the commit just appended. *)
LEMMA NewRevision ==
  TypeOK /\ [Next]_vars =>
    \A i \in DOMAIN journal' :
      \/ i \in DOMAIN journal /\ journal'[i] = journal[i]
      \/ \E e \in Executor : /\ phase[e] = "committing" /\ ValidNext(journal, StepCommit(e))
                             /\ i = Len(journal) + 1 /\ journal'[i] = StepCommit(e)
<1> SUFFICES ASSUME TypeOK, [Next]_vars, NEW i \in DOMAIN journal'
             PROVE  \/ i \in DOMAIN journal /\ journal'[i] = journal[i]
                    \/ \E e \in Executor : /\ phase[e] = "committing" /\ ValidNext(journal, StepCommit(e))
                                           /\ i = Len(journal) + 1 /\ journal'[i] = StepCommit(e)
  BY Zenon
<1>1. ASSUME NEW e \in Executor, journal' = Append(journal, StepCommit(e))
      PROVE  \/ i \in DOMAIN journal /\ journal'[i] = journal[i]
             \/ i = Len(journal) + 1 /\ journal'[i] = StepCommit(e)
  <2>1. journal \in Seq(Commit) /\ StepCommit(e) \in Commit
    BY StepCommitType, Zenon DEF TypeOK
  <2> QED
    BY <1>1, <2>1, AppendFacts
<1> QED
  BY <1>1, JournalStep, Zenon

(* An executor whose lease epoch was overtaken in the journal stays behind the
   revision that overtook it, whatever step is taken. *)
LEMMA FencedStep == TypeOK /\ JournalInv /\ FencedIsStale /\ [Next]_vars => FencedIsStale'
<1> SUFFICES ASSUME TypeOK, JournalInv, FencedIsStale, [Next]_vars PROVE FencedIsStale'
  BY Zenon
<1>t. TypeOK'
  BY NextType, Zenon
<1>1. lease.epoch <= lease'.epoch /\ lease.epoch \in Nat /\ lease'.epoch \in Nat
  BY <1>t, LeaseStep, EpochTypes, Zenon DEF TypeOK, LeaseTypeOK, LeaseRecord
<1>2. ASSUME NEW e \in Executor PROVE EpochOf(e) \in Nat /\ EpochOf(e) <= lease.epoch /\ (~ UseAuthority => EpochOf(e) = 0)
  <2>1. held[e].epoch \in Nat /\ held[e].epoch <= lease.epoch
    BY EpochTypes, Zenon DEF FencedIsStale
  <2> QED
    BY <1>1, <2>1 DEF EpochOf
<1>3. ASSUME NEW e \in Executor, phase[e] = "committing" PROVE StepCommit(e).draft.epoch = EpochOf(e)
  BY <1>3, Zenon DEF FencedIsStale, StepCommit, CommitOn
<1>4. ASSUME NEW i \in DOMAIN journal'
      PROVE  /\ journal'[i].draft.epoch <= lease'.epoch
             /\ ~ UseAuthority => journal'[i].draft.epoch = 0
  <2>1. CASE i \in DOMAIN journal /\ journal'[i] = journal[i]
    BY <1>1, <2>1, EpochTypes DEF FencedIsStale
  <2>2. ASSUME NEW e \in Executor, phase[e] = "committing", journal'[i] = StepCommit(e)
        PROVE  /\ journal'[i].draft.epoch <= lease'.epoch
               /\ ~ UseAuthority => journal'[i].draft.epoch = 0
    BY <1>1, <1>2, <1>3, <2>2
  <2> QED
    BY <2>1, <2>2, NewRevision, Zenon
<1>5. ASSUME NEW x \in Executor PROVE held'[x].epoch <= lease'.epoch
  <2>1. held'[x] \in {held[x], NoLease, lease'}
    BY LeaseStep, Zenon
  <2>2. held[x].epoch <= lease.epoch /\ held[x].epoch \in Nat /\ NoLease.epoch = 0
    BY EpochTypes, Zenon DEF FencedIsStale, NoLease
  <2> QED
    BY <1>1, <2>1, <2>2
<1>6. ASSUME NEW x \in Executor, phase'[x] \in {"proposing", "committing"} PROVE EpochOf(x)' = EpochOf(x)
  BY <1>6, InStep, Zenon DEF EpochOf
<1>7. ASSUME NEW x \in Executor, phase'[x] = "committing" PROVE draft'[x].epoch = EpochOf(x)'
  BY <1>6, <1>7, InStep, Zenon DEF FencedIsStale
<1>8. ASSUME NEW x \in Executor, phase'[x] \in {"proposing", "committing"}, NEW i \in DOMAIN journal',
             journal'[i].draft.epoch > EpochOf(x)'
      PROVE  snap'[x].revision < i
  <2>1. snap'[x] = snap[x] /\ journal'[i].draft.epoch > EpochOf(x)
    BY <1>6, <1>8, InStep, Zenon
  <2>2. CASE i = Len(journal) + 1
    <3>1. snap[x].revision \in Nat
      BY EpochTypes, Zenon
    <3>2. Len(journal) \in Nat
      BY DEF TypeOK
    <3> QED
      BY <2>1, <2>2, <3>1, <3>2, SnapshotNotAhead
  <2>3. CASE i \in DOMAIN journal /\ journal'[i] = journal[i]
    <3>1. CASE phase[x] \in {"proposing", "committing"}
      BY <2>1, <2>3, <3>1, Zenon DEF FencedIsStale
    <3>2. CASE AuthorityOk(x)
      <4>1. journal[i].draft.epoch <= EpochOf(x)
        BY <2>3, <3>2, <1>2, EpochTypes DEF FencedIsStale, AuthorityOk, Held, EpochOf
      <4> QED
        BY <2>1, <2>3, <4>1, <1>2, EpochTypes
    <3> QED
      BY <1>8, <3>1, <3>2, InStep, Zenon
  <2> QED
    BY <2>2, <2>3, NewRevision, Zenon
<1> QED
  BY <1>4, <1>5, <1>7, <1>8, Zenon DEF FencedIsStale

(* Hence the journal refuses its commit, and epochs never go down along the
   history. *)
LEMMA EpochsStep == TypeOK /\ JournalInv /\ FencedIsStale /\ EpochsMonotone /\ [Next]_vars => EpochsMonotone'
<1> SUFFICES ASSUME TypeOK, JournalInv, FencedIsStale, EpochsMonotone, [Next]_vars,
                    NEW i \in DOMAIN journal', NEW k \in DOMAIN journal', i <= k
             PROVE  journal'[i].draft.epoch <= journal'[k].draft.epoch
  BY Zenon DEF EpochsMonotone
<1>1. CASE i \in DOMAIN journal /\ journal'[i] = journal[i] /\ k \in DOMAIN journal /\ journal'[k] = journal[k]
  BY <1>1, Zenon DEF EpochsMonotone
<1>2. ASSUME NEW e \in Executor, phase[e] = "committing", ValidNext(journal, StepCommit(e)),
             k = Len(journal) + 1, journal'[k] = StepCommit(e)
      PROVE  journal'[i].draft.epoch <= journal'[k].draft.epoch
  <2>1. journal'[k].draft.epoch = EpochOf(e) /\ EpochOf(e) \in Nat
    <3>1. draft[e].epoch = EpochOf(e)
      BY <1>2, Zenon DEF FencedIsStale
    <3>2. EpochOf(e) \in Nat
      BY EpochTypes, Zenon
    <3> QED
      BY <1>2, <3>1, <3>2 DEF StepCommit, CommitOn
  <2>2. CASE i \in DOMAIN journal /\ journal'[i] = journal[i]
    <3>1. snap[e].revision = Len(journal) /\ i <= Len(journal) /\ Len(journal) \in Nat /\ i \in Nat
      BY <1>2, <2>2, HeadFacts DEF JournalInv, TypeOK
    <3>2. ~ (journal[i].draft.epoch > EpochOf(e))
      <4>1. \A h \in DOMAIN journal : journal[h].draft.epoch > EpochOf(e) => snap[e].revision < h
        BY <1>2, Zenon DEF FencedIsStale
      <4>2. ~ (snap[e].revision < i)
        BY <3>1
      <4> QED
        BY <2>2, <4>1, <4>2, Zenon
    <3> QED
      BY <2>1, <2>2, <3>2, EpochTypes
  <2>3. CASE i = Len(journal) + 1
    BY <1>2, <2>1, <2>3
  <2> QED
    BY <2>2, <2>3, NewRevision, Zenon
<1>3. CASE i = Len(journal) + 1 /\ k \in DOMAIN journal
  BY <1>3 DEF TypeOK
<1> QED
  BY <1>1, <1>2, <1>3, NewRevision, Zenon

(* The journal's epochs never decrease: a holder overtaken anywhere between its
   authority assertions and its append cannot commit over its successor. *)
THEOREM FencingHolds == Spec => []EpochsMonotone
<1>1. Init => TypeOK /\ JournalInv /\ FencedIsStale /\ EpochsMonotone
  <2> SUFFICES ASSUME Init PROVE FencedIsStale /\ EpochsMonotone
    BY InitType, InitJournalInv, Zenon
  <2>1. journal = <<>> /\ lease = NoLease /\ held = [e \in Executor |-> NoLease] /\ phase = [e \in Executor |-> "idle"]
    BY Zenon DEF Init, LeaseInit
  <2>2. NoLease.epoch = 0
    BY Zenon DEF NoLease
  <2> QED
    BY <2>1, <2>2 DEF FencedIsStale, EpochsMonotone
<1>2. TypeOK /\ JournalInv /\ FencedIsStale /\ EpochsMonotone /\ [Next]_vars
        => (TypeOK /\ JournalInv /\ FencedIsStale /\ EpochsMonotone)'
  BY NextType, JournalInvStep, FencedStep, EpochsStep, Zenon
<1> QED
  BY <1>1, <1>2, PTL DEF Spec

-----------------------------------------------------------------------------
(* What one executor contributes to OutboxWork. *)
WorkOf(e) ==
  /\ todo[e] \subseteq Envelopes(journal)
  /\ e \notin OutboxBound => draft[e].emits = {}
  /\ result[e] # NoResult =>
       /\ \E i \in DOMAIN journal : journal[i] = result[e][1]
       /\ EnvelopesOf(result[e][1]) \subseteq outbox \cup todo[e]

(* The journal's envelopes and the outbox only grow. *)
LEMMA EnvelopesGrow ==
  TypeOK /\ [Next]_vars => Envelopes(journal) \subseteq Envelopes(journal') /\ outbox \subseteq outbox'
<1> SUFFICES ASSUME TypeOK, [Next]_vars
             PROVE  Envelopes(journal) \subseteq Envelopes(journal') /\ outbox \subseteq outbox'
  BY Zenon
<1>1. Envelopes(journal) \subseteq Envelopes(journal')
  BY JournalGrows, Zenon DEF Envelopes
<1>2. outbox \subseteq outbox'
  BY ZenonT(60) DEF Next, Step, vars, execVars, OpenEmpty, OpenHead, ReconcileOutbox, StepExisting, StepBegin,
         StepPropose, StepAppend, StepAppendUncertain, StepRefused, EnqueueOne, Return,
         EnqueueFails, Replay, Crash, Acquire, Renew, Lapse
<1> QED
  BY <1>1, <1>2, Zenon

(* An executor whose locals do not change keeps its part of OutboxWork. *)
LEMMA WorkFrame ==
  ASSUME TypeOK, [Next]_vars, NEW x \in Executor, WorkOf(x),
         todo'[x] = todo[x], result'[x] = result[x], draft'[x] = draft[x]
  PROVE  WorkOf(x)'
<1>1. \A i \in DOMAIN journal : i \in DOMAIN journal' /\ journal'[i] = journal[i]
  BY JournalGrows, Zenon
<1> QED
  BY <1>1, EnvelopesGrow, Zenon DEF WorkOf

(* Adopting a commit of the journal establishes OutboxWork for the executor. *)
LEMMA WorkAdopt ==
  ASSUME TypeOK, NEW e \in Executor, NEW i \in DOMAIN journal', WorkOf(e), Adopt(e, journal'[i]),
         draft' = draft, e \notin OutboxBound => journal'[i].draft.emits = {}
  PROVE  WorkOf(e)'
<1>1. todo'[e] = ToEnqueue(e, journal'[i]) /\ result'[e] = <<journal'[i]>>
  BY Zenon DEF Adopt, TypeOK
<1>2. EnvelopesOf(journal'[i]) \subseteq Envelopes(journal')
  BY Zenon DEF Envelopes
<1>3. e \notin OutboxBound => EnvelopesOf(journal'[i]) = {}
  BY Zenon DEF EnvelopesOf
<1>4. EnvelopesOf(journal'[i]) \subseteq todo'[e] /\ todo'[e] \subseteq Envelopes(journal')
  BY <1>1, <1>2, <1>3, Zenon DEF ToEnqueue
<1>5. result'[e][1] = journal'[i]
  BY <1>1
<1>6. e \notin OutboxBound => draft'[e].emits = {}
  BY Zenon DEF WorkOf
<1> QED
  BY <1>4, <1>5, <1>6, Zenon DEF WorkOf

(* Every step keeps every executor's part of OutboxWork. *)
LEMMA WorkStep ==
  ASSUME TypeOK, [Next]_vars, \A y \in Executor : WorkOf(y), NEW x \in Executor
  PROVE  WorkOf(x)'
<1>t. /\ todo \in [Executor -> SUBSET Envelope] /\ result \in [Executor -> Seq(Commit)]
      /\ draft \in [Executor -> Draft] /\ journal \in Seq(Commit)
  BY Zenon DEF TypeOK
<1>1. CASE todo' = todo /\ result' = result /\ draft' = draft
  BY <1>1, WorkFrame, Zenon
<1>2. ASSUME NEW e \in Executor, ToIdle(e) PROVE WorkOf(x)'
  <2>1. CASE x = e
    BY <1>2, <1>t, <2>1, Zenon DEF ToIdle, WorkOf, NoResult, NoDraft
  <2>2. CASE x # e
    <3>1. todo'[x] = todo[x] /\ result'[x] = result[x] /\ draft'[x] = draft[x]
      BY <1>2, <1>t, <2>2, Zenon DEF ToIdle
    <3> QED
      BY <3>1, WorkFrame, Zenon
  <2> QED
    BY <2>1, <2>2, Zenon
<1>3. ASSUME NEW e \in Executor, NEW i \in DOMAIN journal', Adopt(e, journal'[i]), draft' = draft,
             e \notin OutboxBound => journal'[i].draft.emits = {}
      PROVE  WorkOf(x)'
  <2>1. CASE x = e
    BY <1>3, <2>1, WorkAdopt, Zenon
  <2>2. CASE x # e
    <3>1. todo'[x] = todo[x] /\ result'[x] = result[x] /\ draft'[x] = draft[x]
      BY <1>3, <1>t, <2>2, Zenon DEF Adopt
    <3> QED
      BY <3>1, WorkFrame, Zenon
  <2> QED
    BY <2>1, <2>2, Zenon
<1>4. ASSUME NEW e \in Executor, ReconcileOutbox(e) PROVE WorkOf(x)'
  <2>1. CASE x = e
    <3>1. todo'[e] = Envelopes(journal') /\ result'[e] = NoResult /\ draft'[e] = draft[e]
      BY <1>4, <1>t, Zenon DEF ReconcileOutbox
    <3> QED
      BY <2>1, <3>1, Zenon DEF WorkOf
  <2>2. CASE x # e
    <3>1. todo'[x] = todo[x] /\ result'[x] = result[x] /\ draft'[x] = draft[x]
      BY <1>4, <1>t, <2>2, Zenon DEF ReconcileOutbox
    <3> QED
      BY <3>1, WorkFrame, Zenon
  <2> QED
    BY <2>1, <2>2, Zenon
<1>5. ASSUME NEW e \in Executor, todo' = todo, result' = result,
             e \notin OutboxBound => draft'[e].emits = {}, x # e => draft'[x] = draft[x],
             journal' = journal, outbox' = outbox
      PROVE  WorkOf(x)'
  BY <1>5, Zenon DEF WorkOf
<1>6. ASSUME NEW e \in Executor, NEW cmd, NEW pay, StepBegin(e, cmd, pay) PROVE WorkOf(x)'
  <2>1. draft'[e].emits = {} /\ (x # e => draft'[x] = draft[x])
    BY <1>6, <1>t, Zenon DEF StepBegin, NoDraft
  <2> QED
    BY <1>5, <1>6, <2>1, Zenon DEF StepBegin
<1>7. ASSUME NEW e \in Executor, StepPropose(e) PROVE WorkOf(x)'
  <2>1. PICK d \in Delta, k \in SUBSET Child, s \in Status :
          /\ e \notin OutboxBound => k = {}
          /\ draft' = [draft EXCEPT ![e] = Proposed(draft[e], d, k, s, EpochOf(e))]
    BY <1>7, Zenon DEF StepPropose, EmitsAllowed, Proposed
  <2>2. draft'[e].emits = k /\ (x # e => draft'[x] = draft[x])
    <3>1. draft'[e] = Proposed(draft[e], d, k, s, EpochOf(e)) /\ (x # e => draft'[x] = draft[x])
      BY <2>1, <1>t, Zenon
    <3>2. draft[e] \in Draft
      BY <1>t, Zenon
    <3> QED
      BY <3>1, <3>2, Zenon DEF Proposed, Draft
  <2> QED
    BY <1>5, <1>7, <2>1, <2>2, Zenon DEF StepPropose
<1>8. ASSUME NEW e \in Executor, EnqueueOne(e) PROVE WorkOf(x)'
  <2>1. PICK v \in todo[e] : outbox' = outbox \cup {v} /\ todo' = [todo EXCEPT ![e] = @ \ {v}]
    BY <1>8, Zenon DEF EnqueueOne
  <2>2. result' = result /\ draft' = draft /\ journal' = journal
    BY <1>8, Zenon DEF EnqueueOne
  <2>3. CASE x = e
    <3>1. todo'[e] = todo[e] \ {v}
      BY <1>t, <2>1, Zenon
    <3> QED
      BY <2>1, <2>2, <2>3, <3>1, Zenon DEF WorkOf
  <2>4. CASE x # e
    <3>1. todo'[x] = todo[x]
      BY <1>t, <2>1, <2>4, Zenon
    <3> QED
      BY <2>2, <3>1, WorkFrame, Zenon
  <2> QED
    BY <2>3, <2>4, Zenon
<1>9. ASSUME NEW e \in Executor, StepAppend(e) PROVE WorkOf(x)'
  <2>1. PICK i \in DOMAIN journal' : journal'[i] = StepCommit(e)
    <3>1. CASE AlreadyAccepted(journal, StepCommit(e)) /\ journal' = journal
      BY <3>1, Zenon DEF AlreadyAccepted
    <3>2. CASE journal' = Append(journal, StepCommit(e))
      <4>1. journal \in Seq(Commit) /\ StepCommit(e) \in Commit
        BY StepCommitType, <1>t, Zenon
      <4>2. Len(journal) + 1 \in DOMAIN journal' /\ journal'[Len(journal) + 1] = StepCommit(e)
        BY <3>2, <4>1, AppendFacts, Zenon
      <4> QED
        BY <4>2, Zenon
    <3> QED
      BY <1>9, <3>1, <3>2, Zenon DEF StepAppend
  <2>2. e \notin OutboxBound => StepCommit(e).draft.emits = {}
    BY Zenon DEF WorkOf, StepCommit, CommitOn
  <2>3. Adopt(e, journal'[i]) /\ draft' = draft
    BY <1>9, <2>1, Zenon DEF StepAppend
  <2> QED
    BY <1>3, <2>1, <2>2, <2>3, Zenon
<1>10. ASSUME NEW e \in Executor, NEW cmd, NEW pay, StepExisting(e, cmd, pay) PROVE WorkOf(x)'
  <2>1. PICK i \in DOMAIN journal :
          Adopt(e, journal[i]) /\ (e \notin OutboxBound => journal[i].draft.emits = {})
    BY <1>10, Zenon DEF StepExisting, RevisionsOf, RetryAllowed
  <2>2. journal' = journal /\ draft' = draft
    BY <1>10, Zenon DEF StepExisting
  <2>3. i \in DOMAIN journal' /\ Adopt(e, journal'[i])
    BY <2>1, <2>2, Zenon
  <2> QED
    BY <1>3, <2>1, <2>2, <2>3, Zenon
<1>11. ASSUME NEW e \in Executor,
              StepAppendUncertain(e) \/ StepRefused(e) \/ Return(e) \/ EnqueueFails(e) \/ Crash(e)
       PROVE  ToIdle(e)
  BY <1>11, Zenon DEF StepAppendUncertain, StepRefused, Return, EnqueueFails, Crash
<1>12. ASSUME NEW e \in Executor, OpenEmpty(e) \/ OpenHead(e) \/ Replay(e) \/ Acquire(e)
       PROVE  todo' = todo /\ result' = result /\ draft' = draft
  BY <1>12, Zenon DEF OpenEmpty, OpenHead, Replay, Acquire
<1>13. ASSUME Renew \/ Lapse \/ UNCHANGED vars PROVE todo' = todo /\ result' = result /\ draft' = draft
  BY <1>13, Zenon DEF Renew, Lapse, vars, execVars
<1>14. ASSUME NEW e \in Executor,
              StepAppendUncertain(e) \/ StepRefused(e) \/ Return(e) \/ EnqueueFails(e) \/ Crash(e)
       PROVE  WorkOf(x)'
  BY <1>2, <1>11, <1>14, Zenon
<1>15. ASSUME NEW e \in Executor, OpenEmpty(e) \/ OpenHead(e) \/ Replay(e) \/ Acquire(e) PROVE WorkOf(x)'
  BY <1>1, <1>12, <1>15, Zenon
<1>16. ASSUME Renew \/ Lapse \/ UNCHANGED vars PROVE WorkOf(x)'
  BY <1>1, <1>13, <1>16, Zenon
<1> QED
  BY <1>4, <1>6, <1>7, <1>8, <1>9, <1>10, <1>14, <1>15, <1>16, Zenon DEF Next, Step

(* How the acknowledged drafts change: only Return adds one, the draft of its
   executor's result, when no envelope of it is left to write. *)
LEMMA AckStep ==
  [Next]_vars => \/ acked' = acked
                 \/ \E e \in Executor : /\ result[e] # NoResult /\ todo[e] = {}
                                        /\ acked' = acked \cup {result[e][1].draft}
                                        /\ journal' = journal /\ outbox' = outbox
BY ZenonT(60) DEF Next, Step, vars, execVars, OpenEmpty, OpenHead, ReconcileOutbox, StepExisting, StepBegin,
       StepPropose, StepAppend, StepAppendUncertain, StepRefused, EnqueueOne, Return,
       EnqueueFails, Replay, Crash, Acquire, Renew, Lapse

(* How the outbox changes: only by an envelope an executor had to write. *)
LEMMA OutboxStep ==
  [Next]_vars => outbox' = outbox \/ \E e \in Executor : outbox' \subseteq outbox \cup todo[e]
BY ZenonT(60) DEF Next, Step, vars, execVars, OpenEmpty, OpenHead, ReconcileOutbox, StepExisting, StepBegin,
       StepPropose, StepAppend, StepAppendUncertain, StepRefused, EnqueueOne, Return,
       EnqueueFails, Replay, Crash, Acquire, Renew, Lapse

(* What an executor still has to enqueue stays accounted for at every step. *)
LEMMA OutboxWorkStep == TypeOK /\ OutboxWork /\ [Next]_vars => OutboxWork'
<1> SUFFICES ASSUME TypeOK, OutboxWork, [Next]_vars PROVE OutboxWork'
  BY Zenon
<1>1. \A x \in Executor : WorkOf(x)
  BY Zenon DEF OutboxWork, WorkOf
<1>2. \A x \in Executor : WorkOf(x)'
  BY <1>1, WorkStep, Zenon
<1>3. outbox' \subseteq Envelopes(journal')
  BY OutboxStep, EnvelopesGrow, Zenon DEF OutboxWork
<1>4. ASSUME NEW d \in acked' PROVE \E i \in DOMAIN journal' : journal'[i].draft = d
  <2>1. CASE d \in acked
    BY <2>1, JournalGrows DEF OutboxWork
  <2>2. ASSUME NEW e \in Executor, result[e] # NoResult, journal' = journal, d = result[e][1].draft
        PROVE  \E i \in DOMAIN journal' : journal'[i].draft = d
    BY <2>2, Zenon DEF OutboxWork
  <2> QED
    BY <2>1, <2>2, AckStep, Zenon
<1> QED
  BY <1>2, <1>3, <1>4, Zenon DEF OutboxWork, WorkOf

(* A call returns only when nothing of its commit is left to enqueue. *)
LEMMA AckedStep ==
  TypeOK /\ JournalInv /\ OutboxWork /\ AckedEnqueued /\ [Next]_vars => AckedEnqueued'
<1> SUFFICES ASSUME TypeOK, JournalInv, OutboxWork, AckedEnqueued, [Next]_vars,
                    NEW i \in DOMAIN journal', journal'[i].draft \in acked'
             PROVE  EnvelopesOf(journal'[i]) \subseteq outbox'
  BY Zenon DEF AckedEnqueued
<1>1. CASE acked' = acked
  <2>1. PICK k \in DOMAIN journal : journal[k].draft = journal'[i].draft
    BY <1>1, Zenon DEF OutboxWork
  <2>2. k \in DOMAIN journal' /\ journal'[k] = journal[k]
    BY JournalGrows, Zenon
  <2>3. i = k
    BY <2>1, <2>2, ChainedStep, Zenon DEF CommandCommittedOnce
  <2> QED
    BY <1>1, <2>1, <2>2, <2>3, EnvelopesGrow, Zenon DEF AckedEnqueued
<1>2. ASSUME NEW e \in Executor, result[e] # NoResult, todo[e] = {}, journal' = journal,
             outbox' = outbox, acked' = acked \cup {result[e][1].draft}
      PROVE  EnvelopesOf(journal'[i]) \subseteq outbox'
  <2>1. CASE journal[i].draft \in acked
    BY <1>2, <2>1, Zenon DEF AckedEnqueued
  <2>2. CASE journal[i].draft = result[e][1].draft
    <3>1. PICK k \in DOMAIN journal : journal[k] = result[e][1]
      BY <1>2, Zenon DEF OutboxWork
    <3>2. i = k
      BY <1>2, <2>2, <3>1, Zenon DEF JournalInv, CommandCommittedOnce
    <3> QED
      BY <1>2, <3>1, <3>2, Zenon DEF OutboxWork
  <2> QED
    BY <1>2, <2>1, <2>2, Zenon
<1> QED
  BY <1>1, <1>2, AckStep, Zenon

(* The outbox holds only envelopes of accepted commits, and all envelopes of a
   commit whose step returned. *)
THEOREM OutboxFollowsJournal == Spec => [](OutboxFromJournal /\ AckedEnqueued)
<1>1. Init => TypeOK /\ JournalInv /\ OutboxWork /\ AckedEnqueued
  <2> SUFFICES ASSUME Init PROVE OutboxWork /\ AckedEnqueued
    BY InitType, InitJournalInv, Zenon
  <2> QED
    BY Zenon DEF Init, OutboxWork, AckedEnqueued, NoDraft
<1>2. TypeOK /\ JournalInv /\ OutboxWork /\ AckedEnqueued /\ [Next]_vars
        => (TypeOK /\ JournalInv /\ OutboxWork /\ AckedEnqueued)'
  BY NextType, JournalInvStep, OutboxWorkStep, AckedStep, Zenon
<1>3. OutboxWork => OutboxFromJournal
  BY Zenon DEF OutboxWork, OutboxFromJournal
<1> QED
  BY <1>1, <1>2, <1>3, PTL DEF Spec

(* Every variable keeps its type, and whatever an open executor shows or the
   outbox holds comes from an accepted commit. *)
THEOREM AcceptedOnly == Spec => []OnlyAccepted
<1>1. TypeOK /\ SnapshotAccepted /\ OutboxFromJournal => OnlyAccepted
  BY Zenon DEF OnlyAccepted
<1> QED
  BY <1>1, TypeCorrect, HistoryIsOneChain, OutboxFollowsJournal, PTL

-----------------------------------------------------------------------------
(* The bound on epochs, which the entries of the abstract log share. *)
EpochBound == lease.epoch <= MaxEpoch

LEMMA EpochBoundStep == TypeOK /\ EpochBound /\ [Next]_vars => EpochBound'
<1> SUFFICES ASSUME TypeOK, EpochBound, [Next]_vars PROVE EpochBound'
  BY Zenon
<1>t. lease \in LeaseRecord /\ lease.epoch \in Nat /\ MaxEpoch \in Nat
  BY ExecutorAssumption, Zenon DEF TypeOK, LeaseTypeOK, LeaseRecord
<1>1. CASE lease' = lease
  BY <1>1, Zenon DEF EpochBound
<1>2. ASSUME NEW e \in Executor, Acquire(e), lease' # lease PROVE EpochBound'
  <2>1. ~ leaseLive /\ lease.epoch < MaxEpoch /\ lease'.epoch = lease.epoch + 1
    BY <1>2 DEF Acquire, AcquireLease, leaseVars
  <2> QED
    BY <1>t, <2>1 DEF EpochBound
<1>3. CASE Renew
  <2>1. lease'.epoch = lease.epoch
    BY <1>3, <1>t, Zenon DEF Renew, RenewLease, LeaseRecord
  <2> QED
    BY <2>1, Zenon DEF EpochBound
<1>4. lease' = lease \/ (\E e \in Executor : Acquire(e)) \/ Renew
  BY ZenonT(60) DEF Next, Step, vars, execVars, leaseVars, OpenEmpty, OpenHead, ReconcileOutbox, StepExisting,
         StepBegin, StepPropose, StepAppend, StepAppendUncertain, StepRefused, EnqueueOne, Return,
         EnqueueFails, Replay, Crash, Lapse, LapseLease
<1> QED
  BY <1>1, <1>2, <1>3, <1>4, Zenon

(* A draft of an epoch that was handed out is an entry. *)
LEMMA BoundedEntry ==
  ASSUME NEW d \in Draft, d.epoch <= MaxEpoch PROVE d \in BoundedDraft
  BY ExecutorAssumption DEF Draft, BoundedDraft

LEMMA LoggedBounded ==
  ASSUME TypeOK, FencedIsStale, EpochBound, NEW i \in DOMAIN journal
  PROVE  journal[i].draft \in BoundedDraft
<1>1. journal[i] \in Commit
  BY DEF TypeOK
<1>2. journal[i].draft \in Draft /\ journal[i].draft.epoch \in Nat
  BY <1>1, Zenon DEF Commit, Draft
<1>3. lease.epoch \in Nat /\ MaxEpoch \in Nat /\ journal[i].draft.epoch <= lease.epoch /\ lease.epoch <= MaxEpoch
  BY ExecutorAssumption, Zenon DEF TypeOK, LeaseTypeOK, LeaseRecord, FencedIsStale, EpochBound
<1> QED
  BY <1>2, <1>3, BoundedEntry

LEMMA DraftBounded ==
  ASSUME TypeOK, FencedIsStale, EpochBound, NEW e \in Executor, phase[e] = "committing"
  PROVE  draft[e] \in BoundedDraft
<1>1. draft[e] \in Draft /\ draft[e].epoch = EpochOf(e) /\ held[e].epoch <= lease.epoch
  BY Zenon DEF TypeOK, FencedIsStale
<1>2. lease.epoch \in Nat /\ MaxEpoch \in Nat /\ held[e].epoch \in Nat /\ lease.epoch <= MaxEpoch
  BY ExecutorAssumption, Zenon DEF TypeOK, LeaseTypeOK, LeaseRecord, EpochBound
<1>3. draft[e].epoch <= MaxEpoch
  BY <1>1, <1>2 DEF EpochOf
<1> QED
  BY <1>1, <1>3, BoundedEntry, Zenon

(* The drafts of a journal, in order: the abstract log. *)
DraftsOf(j) == [i \in DOMAIN j |-> j[i].draft]

LEMMA DraftsAppend ==
  ASSUME NEW j \in Seq(Commit), NEW c \in Commit
  PROVE  DraftsOf(Append(j, c)) = Append(DraftsOf(j), c.draft)
<1>1. /\ DOMAIN Append(j, c) = 1..(Len(j) + 1) /\ DOMAIN j = 1..Len(j) /\ Len(j) \in Nat
      /\ \A i \in 1..Len(j) : Append(j, c)[i] = j[i]
      /\ Append(j, c)[Len(j) + 1] = c
  BY AppendFacts
<1>2. \A i \in 1..Len(j) : j[i].draft \in Draft
  <2>1. \A i \in 1..Len(j) : j[i] \in Commit
    BY <1>1
  <2> QED
    BY <2>1, Zenon DEF Commit
<1>3. DraftsOf(j) \in Seq(Draft) /\ Len(DraftsOf(j)) = Len(j)
  BY <1>1, <1>2 DEF DraftsOf
<1>4. /\ DOMAIN Append(DraftsOf(j), c.draft) = 1..(Len(j) + 1)
      /\ \A i \in 1..Len(j) : Append(DraftsOf(j), c.draft)[i] = DraftsOf(j)[i]
      /\ Append(DraftsOf(j), c.draft)[Len(j) + 1] = c.draft
      /\ Append(DraftsOf(j), c.draft) = [i \in 1..(Len(j) + 1) |-> Append(DraftsOf(j), c.draft)[i]]
  BY <1>1, <1>3 DEF Commit
<1>5. \A i \in 1..(Len(j) + 1) : Append(j, c)[i].draft = Append(DraftsOf(j), c.draft)[i]
  BY <1>1, <1>4 DEF DraftsOf
<1> QED
  BY <1>1, <1>4, <1>5, Zenon DEF DraftsOf

(* Every step is an Accept or an Acknowledge of the abstract log, or leaves it
   as it is: the append accepts, the return acknowledges. *)
LEMMA StepRefines ==
  ASSUME TypeOK, FencedIsStale, OutboxWork, EpochBound, [Next]_vars
  PROVE  [Log!LogNext]_<<DraftsOf(journal), acked>>
<1>1. ASSUME NEW e \in Executor, phase[e] = "committing", ValidNext(journal, StepCommit(e)),
             journal' = Append(journal, StepCommit(e)), acked' = acked
      PROVE  Log!LogNext
  <2>1. journal \in Seq(Commit) /\ StepCommit(e) \in Commit /\ StepCommit(e).draft = draft[e]
    BY StepCommitType, Zenon DEF TypeOK, StepCommit, CommitOn
  <2>2. DraftsOf(journal)' = Append(DraftsOf(journal), draft[e])
    BY <1>1, <2>1, DraftsAppend, Zenon DEF DraftsOf
  <2>3. \A i \in DOMAIN journal : journal[i].draft.command # draft[e].command
    BY <1>1, <2>1, Zenon DEF ValidNext, RevisionsOf
  <2>4. draft[e] \in BoundedDraft
    BY <1>1, DraftBounded, Zenon
  <2>5. PICK d \in BoundedDraft : d = draft[e]
    BY <2>4, Zenon
  <2>6. Log!Accept(d)
    BY <1>1, <2>2, <2>3, <2>5, Zenon DEF Log!Accept, DraftsOf, DraftCommand
  <2> QED
    BY <2>6, Zenon DEF Log!LogNext
<1>2. ASSUME NEW e \in Executor, result[e] # NoResult, journal' = journal, acked' = acked \cup {result[e][1].draft}
      PROVE  Log!LogNext
  <2>1. PICK i \in DOMAIN journal : journal[i] = result[e][1]
    BY <1>2, Zenon DEF OutboxWork
  <2>2. journal[i].draft \in BoundedDraft
    BY LoggedBounded, Zenon
  <2>3. Log!Acknowledge(journal[i].draft)
    BY <1>2, <2>1, Zenon DEF Log!Acknowledge, Log!Logged
  <2> QED
    BY <2>2, <2>3, Zenon DEF Log!LogNext
<1>3. ASSUME journal' = journal, acked' = acked PROVE UNCHANGED <<DraftsOf(journal), acked>>
  BY <1>3, Zenon DEF DraftsOf
<1>4. ASSUME NEW e \in Executor PROVE journal # Append(journal, StepCommit(e))
  BY <1>4, StepCommitType, AppendFacts DEF TypeOK
<1> QED
  BY <1>1, <1>2, <1>3, <1>4, JournalStep, AckStep, Zenon

(* Executors on one journal, with any number of crashes, failed writes and lost
   leases, are the append-only log of distinct commands their callers rely on
   (step, journal.append). *)
THEOREM ExecutorsImplementLog == Spec => ImplementsCommitLog
<1> DEFINE Inv == TypeOK /\ JournalInv /\ FencedIsStale /\ OutboxWork /\ EpochBound
<1>1. Init => Inv
  <2> SUFFICES ASSUME Init PROVE FencedIsStale /\ OutboxWork /\ EpochBound
    BY InitType, InitJournalInv, Zenon
  <2>1. journal = <<>> /\ lease = NoLease /\ held = [e \in Executor |-> NoLease] /\ phase = [e \in Executor |-> "idle"]
    BY Zenon DEF Init, LeaseInit
  <2>2. NoLease.epoch = 0
    BY Zenon DEF NoLease
  <2>3. OutboxWork
    BY Zenon DEF Init, OutboxWork, NoDraft
  <2> QED
    BY <2>1, <2>2, <2>3, ExecutorAssumption DEF FencedIsStale, EpochBound
<1>2. Inv /\ [Next]_vars => Inv'
  BY NextType, JournalInvStep, FencedStep, OutboxWorkStep, EpochBoundStep, Zenon
<1>3. Init => Log!LogInit
  BY DEF Init, Log!LogInit
<1>4. Inv /\ [Next]_vars => [Log!LogNext]_<<[i \in DOMAIN journal |-> journal[i].draft], acked>>
  BY StepRefines, Zenon DEF DraftsOf
<1>5. Spec => Log!LogSpec
  <2> HIDE DEF Inv
  <2> QED
    BY <1>1, <1>2, <1>3, <1>4, PTL DEF Spec, Log!LogSpec
<1> QED
  BY <1>5, Zenon DEF ImplementsCommitLog
==============================================================================
