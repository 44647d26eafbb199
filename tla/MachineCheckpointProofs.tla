----------------------- MODULE MachineCheckpointProofs -----------------------
(***************************************************************************)
(* For any number of executors, collectors, closure proofs, records,       *)
(* deaths and foreign files: retirement loses nothing and is final, and no *)
(* snapshot is ever ahead of the journal.                                  *)
(*                                                                         *)
(* What makes NothingLost and RetirementFinal inductive is JournalInv:     *)
(* before a retirement the live file is the journal with all that was      *)
(* accepted and nothing else is there; after it the retirement names the   *)
(* journal's own object, whatever lies at its place holds what was         *)
(* accepted, and one collector at most is inside purge.  It carries over   *)
(* to the executors, for every step of one leaves the journal alone or     *)
(* appends to it.                                                          *)
(***************************************************************************)
EXTENDS MachineCheckpoint, TLAPS

JournalInv ==
  /\ live # None => live \in File
  /\ quarantine # None => quarantine \in File
  /\ gc \in [Collector -> {None} \cup Assessment]
  /\ doing \in [Collector -> {"idle", "purge", "moved"}]
  /\ accepted \in 0..MaxRecords /\ foreign \in Nat
  /\ \A j, k \in Collector : Purging(j) /\ Purging(k) => j = k
  /\ \A k \in Collector : Purging(k) => gc[k] # None
  /\ retirement = None =>
       /\ quarantine = None
       /\ IF live = None THEN accepted = 0
          ELSE live.object = "journal" /\ live.records = accepted
  /\ retirement # None =>
       /\ retirement.phase \in Phases
       /\ retirement.gc \in Assessment /\ retirement.gc.revision = accepted
       /\ retirement.generation.object = "journal"
       /\ live # None => live.records = accepted
       /\ quarantine # None => quarantine.records = accepted
       /\ foreign = 0 => /\ live # None => live.object = "journal"
                         /\ quarantine # None => quarantine.object = "journal"
       /\ foreign = 0 /\ retirement.phase = "retired" => (live = None) # (quarantine = None)

-----------------------------------------------------------------------------
(* A document is there. *)
LEMMA DocumentThere ==
  ASSUME NEW phase, NEW assessment, NEW generation
  PROVE  [phase |-> phase, gc |-> assessment, generation |-> generation] # None
  BY DEF None

LEMMA FileThere == \A f \in File : f # None /\ f.object \in Object /\ f.records \in 1..MaxRecords
  BY DEF None, File

LEMMA AssessmentThere == \A a \in Assessment : a # None /\ a.revision \in 1..MaxRecords
  BY DEF None, Assessment

LEMMA InitInv == JournalInit => JournalInv
  BY RetirementAssumption DEF JournalInit, JournalInv, Purging

LEMMA AppendInv == ASSUME JournalInv, AppendCommit PROVE JournalInv'
<1>1. retirement = None /\ UNCHANGED <<quarantine, retirement, gc, doing, crashes, foreign>>
  BY Zenon DEF AppendCommit, Appendable
<1>2. accepted' = accepted + 1 /\ accepted \in 0..MaxRecords /\ accepted < MaxRecords /\ MaxRecords \in Nat
  BY RetirementAssumption, Zenon DEF AppendCommit, JournalInv
<1>3. live' \in File /\ live'.object = "journal" /\ live'.records = accepted'
  <2>1. CASE live = None
    <3>1. accepted = 0 /\ live' = [object |-> "journal", records |-> 1]
      BY <1>1, <2>1, Zenon DEF JournalInv, AppendCommit
    <3> QED
      BY <1>2, <3>1 DEF File, Object
  <2>2. CASE live # None
    <3>1. live \in File /\ live.object = "journal" /\ live.records = accepted
      BY <1>1, <2>2, Zenon DEF JournalInv
    <3>2. live' = [live EXCEPT !.records = @ + 1]
      BY <2>2, Zenon DEF AppendCommit
    <3> QED
      BY <1>2, <3>1, <3>2 DEF File, Object
  <2> QED
    BY <2>1, <2>2, Zenon
<1>4. live' # None
  BY <1>3, FileThere, Zenon
<1> QED
  BY <1>1, <1>2, <1>3, <1>4 DEF JournalInv, Purging

LEMMA ForeignInv == ASSUME JournalInv, PutForeign PROVE JournalInv'
<1>1. retirement # None /\ foreign' = foreign + 1 /\ foreign \in Nat
      /\ UNCHANGED <<retirement, accepted, gc, doing, crashes>>
  BY Zenon DEF PutForeign, JournalInv
<1> DEFINE f == [object |-> "foreign", records |-> retirement.gc.revision]
<1>2. f \in File /\ f.records = accepted
  <2>1. retirement.gc.revision = accepted /\ retirement.gc.revision \in 1..MaxRecords
    BY <1>1, AssessmentThere, Zenon DEF JournalInv
  <2> QED
    BY <2>1, Zenon DEF File, Object
<1>3. f # None
  BY <1>2, FileThere, Zenon
<1>4. \/ live' = f /\ UNCHANGED quarantine
      \/ quarantine' = f /\ UNCHANGED live
  BY Zenon DEF PutForeign
<1> HIDE DEF f
<1>5. foreign' # 0 /\ foreign' \in Nat
  BY <1>1
<1>6. CASE live' = f /\ UNCHANGED quarantine
  BY <1>1, <1>2, <1>3, <1>5, <1>6, Zenon DEF JournalInv, Purging
<1>7. CASE quarantine' = f /\ UNCHANGED live
  BY <1>1, <1>2, <1>3, <1>5, <1>7, Zenon DEF JournalInv, Purging
<1> QED
  BY <1>4, <1>6, <1>7, Zenon

LEMMA AssessInv ==
  ASSUME JournalInv, NEW k \in Collector, NEW proof \in Proof, AssessGc(k, proof)
  PROVE  JournalInv'
<1>1. UNCHANGED <<live, quarantine, retirement, accepted, doing, crashes, foreign>>
  BY Zenon DEF AssessGc
<1> DEFINE n == IF retirement = None THEN live.records ELSE retirement.gc.revision
<1>2. n \in 1..MaxRecords
  <2>1. CASE retirement = None
    <3>1. live \in File
      BY <2>1, Zenon DEF AssessGc, JournalInv
    <3> QED
      BY <2>1, <3>1, FileThere, Zenon
  <2>2. CASE retirement # None
    BY <2>2, AssessmentThere, Zenon DEF JournalInv
  <2> QED
    BY <2>1, <2>2, Zenon
<1>3. [revision |-> n, proof |-> proof] \in Assessment
  BY <1>2, Zenon DEF Assessment
<1>4. gc' = [gc EXCEPT ![k] = [revision |-> n, proof |-> proof]]
  BY Zenon DEF AssessGc
<1> HIDE DEF n
<1>5. gc' \in [Collector -> {None} \cup Assessment]
  BY <1>3, <1>4, Zenon DEF JournalInv
<1>6. \A j \in Collector : doing[j] = "idle"
  BY Zenon DEF AssessGc, LockFree
<1> QED
  BY <1>1, <1>5, <1>6, Zenon DEF JournalInv, Purging

LEMMA StartInv == ASSUME JournalInv, NEW k \in Collector, StartPurge(k) PROVE JournalInv'
<1>1. UNCHANGED <<live, quarantine, retirement, accepted, gc, crashes, foreign>> /\ gc[k] # None
      /\ doing' = [doing EXCEPT ![k] = "purge"] /\ \A j \in Collector : doing[j] = "idle"
  BY Zenon DEF StartPurge, LockFree
<1>2. doing' \in [Collector -> {"idle", "purge", "moved"}]
  BY <1>1, Zenon DEF JournalInv
<1>3. \A i, j \in Collector : doing'[i] # "idle" /\ doing'[j] # "idle" => i = j
  BY <1>1, Zenon DEF JournalInv
<1> QED
  BY <1>1, <1>2, <1>3 DEF JournalInv, Purging

(* A collector inside purge gives up the lock or stays inside. *)
LEMMA LockKept ==
  ASSUME JournalInv, NEW k \in Collector, Purging(k),
         NEW s \in {"idle", "purge", "moved"}, doing' = [doing EXCEPT ![k] = s]
  PROVE  /\ doing' \in [Collector -> {"idle", "purge", "moved"}]
         /\ \A i, j \in Collector : doing'[i] # "idle" /\ doing'[j] # "idle" => i = j
         /\ \A j \in Collector : doing'[j] # "idle" => gc[j] # None
  BY Zenon DEF JournalInv, Purging

LEMMA EndInv ==
  ASSUME JournalInv, NEW k \in Collector, EndPurge(k) \/ CollectorDies(k)
  PROVE  JournalInv'
<1>1. UNCHANGED <<live, quarantine, retirement, accepted, gc, foreign>>
      /\ doing' = [doing EXCEPT ![k] = "idle"] /\ Purging(k)
  BY Zenon DEF EndPurge, CollectorDies
<1>2. /\ doing' \in [Collector -> {"idle", "purge", "moved"}]
      /\ \A i, j \in Collector : doing'[i] # "idle" /\ doing'[j] # "idle" => i = j
      /\ \A j \in Collector : doing'[j] # "idle" => gc[j] # None
  BY <1>1, LockKept, Zenon
<1> QED
  BY <1>1, <1>2, Zenon DEF JournalInv, Purging

(* The assessment a collector purges by. *)
LEMMA HeldAssessment ==
  ASSUME JournalInv, NEW k \in Collector, NEW phase, InPhase(k, phase)
  PROVE  retirement # None /\ gc[k] \in Assessment /\ gc[k].revision = accepted /\ gc[k] = retirement.gc
  BY Zenon DEF JournalInv, InPhase

LEMMA PublishRetiredInv ==
  ASSUME JournalInv, NEW k \in Collector, PublishRetired(k)
  PROVE  JournalInv'
<1>1. UNCHANGED <<live, quarantine, accepted, gc, doing, crashes, foreign>>
      /\ retirement = None /\ quarantine = None /\ live # None /\ live.records = gc[k].revision
      /\ Purging(k)
      /\ retirement' = [phase |-> "retired", gc |-> gc[k], generation |-> live]
  BY Zenon DEF PublishRetired, Publish, Assessed
<1>2. retirement' # None /\ retirement'.phase = "retired" /\ retirement'.gc = gc[k] /\ retirement'.generation = live
  BY <1>1, DocumentThere, Zenon
<1>3. gc[k] \in Assessment /\ live \in File /\ live.object = "journal" /\ live.records = accepted
  BY <1>1, Zenon DEF JournalInv
<1> QED
  BY <1>1, <1>2, <1>3, Zenon DEF JournalInv, Purging, Phases

LEMMA MoveInv == ASSUME JournalInv, NEW k \in Collector, MoveToQuarantine(k) PROVE JournalInv'
<1>1. UNCHANGED <<retirement, accepted, gc, crashes, foreign>> /\ live' = None /\ quarantine' = live
      /\ live # None /\ quarantine = None /\ doing' = [doing EXCEPT ![k] = "moved"]
      /\ retirement # None /\ retirement.phase = "retired" /\ Purging(k)
  BY Zenon DEF MoveToQuarantine, InPhase
<1>2. /\ doing' \in [Collector -> {"idle", "purge", "moved"}]
      /\ \A i, j \in Collector : doing'[i] # "idle" /\ doing'[j] # "idle" => i = j
      /\ \A j \in Collector : doing'[j] # "idle" => gc[j] # None
  BY <1>1, LockKept, Zenon
<1> QED
  BY <1>1, <1>2, Zenon DEF JournalInv, Purging

LEMMA PublishQuarantinedInv ==
  ASSUME JournalInv, NEW k \in Collector, PublishQuarantined(k)
  PROVE  JournalInv'
<1>1. UNCHANGED <<live, quarantine, accepted, gc, crashes, foreign>>
      /\ doing' = [doing EXCEPT ![k] = "purge"] /\ Purging(k)
      /\ retirement' = [phase |-> "quarantined", gc |-> gc[k], generation |-> quarantine]
      /\ quarantine = retirement.generation
  BY Zenon DEF PublishQuarantined, Publish, InPhase, SameGeneration
<1>2. retirement # None /\ gc[k] = retirement.gc
  BY HeldAssessment, Zenon DEF PublishQuarantined
<1>3. retirement' # None /\ retirement'.phase = "quarantined" /\ retirement'.gc = retirement.gc
      /\ retirement'.generation = retirement.generation
  BY <1>1, <1>2, DocumentThere, Zenon
<1>4. /\ doing' \in [Collector -> {"idle", "purge", "moved"}]
      /\ \A i, j \in Collector : doing'[i] # "idle" /\ doing'[j] # "idle" => i = j
      /\ \A j \in Collector : doing'[j] # "idle" => gc[j] # None
  BY <1>1, LockKept, Zenon
<1> QED
  BY <1>1, <1>2, <1>3, <1>4, Zenon DEF JournalInv, Purging, Phases

LEMMA UnlinkInv == ASSUME JournalInv, NEW k \in Collector, Unlink(k) PROVE JournalInv'
<1>1. UNCHANGED <<live, retirement, accepted, gc, doing, crashes, foreign>> /\ quarantine' = None
      /\ retirement # None /\ retirement.phase = "quarantined"
  BY Zenon DEF Unlink, InPhase
<1> QED
  BY <1>1, Zenon DEF JournalInv, Purging

LEMMA PublishPurgedInv == ASSUME JournalInv, NEW k \in Collector, PublishPurged(k) PROVE JournalInv'
<1>1. UNCHANGED <<live, quarantine, accepted, gc, doing, crashes, foreign>>
      /\ retirement' = [phase |-> "purged", gc |-> gc[k], generation |-> retirement.generation]
  BY Zenon DEF PublishPurged, Publish
<1>2. retirement # None /\ gc[k] = retirement.gc
  BY HeldAssessment, Zenon DEF PublishPurged
<1>3. retirement' # None /\ retirement'.phase = "purged" /\ retirement'.gc = retirement.gc
      /\ retirement'.generation = retirement.generation
  BY <1>1, <1>2, DocumentThere, Zenon
<1> QED
  BY <1>1, <1>2, <1>3, Zenon DEF JournalInv, Purging, Phases

LEMMA PurgeStepInv ==
  ASSUME JournalInv, NEW k \in Collector, PurgeStep(k)
  PROVE  JournalInv'
  BY PublishRetiredInv, MoveInv, PublishQuarantinedInv, UnlinkInv, PublishPurgedInv, Zenon DEF PurgeStep

LEMMA JournalStepInv == ASSUME JournalInv, [JournalNext]_journalVars PROVE JournalInv'
<1>1. CASE AppendCommit
  BY <1>1, AppendInv, Zenon
<1>2. CASE PutForeign
  BY <1>2, ForeignInv, Zenon
<1>3. ASSUME NEW k \in Collector, CollectorStep(k) PROVE JournalInv'
  BY <1>3, AssessInv, StartInv, PurgeStepInv, EndInv, Zenon DEF CollectorStep
<1>4. CASE UNCHANGED journalVars
  BY <1>4, Zenon DEF JournalInv, Purging, journalVars
<1> QED
  BY <1>1, <1>2, <1>3, <1>4, Zenon DEF JournalNext

-----------------------------------------------------------------------------
(* What a step may do to a retirement, and to a file put there by others. *)
Final ==
  /\ retirement # None =>
       /\ retirement' # None /\ retirement'.gc = retirement.gc
       /\ retirement.phase = "purged" => retirement' = retirement
       /\ retirement.phase = "quarantined" => retirement'.phase # "retired"
       /\ accepted' = accepted
  /\ live # None /\ live.object = "foreign" => live' = live
  /\ quarantine # None /\ quarantine.object = "foreign" => quarantine' = quarantine

LEMMA PurgeIsFinal == ASSUME JournalInv, NEW k \in Collector, PurgeStep(k) PROVE Final
<1>1. CASE PublishRetired(k)
  BY <1>1, Zenon DEF PublishRetired, Final
<1>2. CASE MoveToQuarantine(k)
  <2>1. live.object = "journal"
    BY <1>2, Zenon DEF MoveToQuarantine, InPhase, SameGeneration, JournalInv
  <2> QED
    BY <1>2, <2>1, Zenon DEF MoveToQuarantine, InPhase, Final
<1>3. CASE PublishQuarantined(k)
  <2>1. retirement # None /\ retirement.phase = "retired" /\ gc[k] = retirement.gc
    BY <1>3, Zenon DEF PublishQuarantined, InPhase
  <2>2. retirement' = [phase |-> "quarantined", gc |-> gc[k], generation |-> quarantine]
        /\ UNCHANGED <<live, quarantine, accepted>>
    BY <1>3, Zenon DEF PublishQuarantined, Publish
  <2> QED
    BY <2>1, <2>2, DocumentThere, Zenon DEF Final
<1>4. CASE Unlink(k)
  <2>1. quarantine.object = "journal"
    BY <1>4, Zenon DEF Unlink, InPhase, SameGeneration, JournalInv
  <2> QED
    BY <1>4, <2>1, Zenon DEF Unlink, Final
<1>5. CASE PublishPurged(k)
  <2>1. retirement # None /\ retirement.phase = "quarantined" /\ gc[k] = retirement.gc
    BY <1>5, Zenon DEF PublishPurged, InPhase
  <2>2. retirement' = [phase |-> "purged", gc |-> gc[k], generation |-> retirement.generation]
        /\ UNCHANGED <<live, quarantine, accepted>>
    BY <1>5, Zenon DEF PublishPurged, Publish
  <2> QED
    BY <2>1, <2>2, DocumentThere, Zenon DEF Final
<1> QED
  BY <1>1, <1>2, <1>3, <1>4, <1>5, Zenon DEF PurgeStep

LEMMA ForeignIsFinal == ASSUME JournalInv, PutForeign PROVE Final
<1> DEFINE f == [object |-> "foreign", records |-> retirement.gc.revision]
<1>1. /\ retirement # None /\ UNCHANGED <<retirement, accepted>>
      /\ \/ live = None /\ UNCHANGED quarantine
         \/ quarantine' = f /\ UNCHANGED live
  BY Zenon DEF PutForeign
<1>2. quarantine # None /\ quarantine.object = "foreign" => quarantine = f
  BY <1>1, Zenon DEF JournalInv, File
<1> QED
  BY <1>1, <1>2, Zenon DEF Final

LEMMA StepIsFinal == ASSUME JournalInv, [JournalNext]_journalVars PROVE Final
<1>1. CASE AppendCommit
  BY <1>1, Zenon DEF AppendCommit, Appendable, JournalInv, Final
<1>2. ASSUME NEW k \in Collector, CollectorStep(k) PROVE Final
  <2>1. CASE PurgeStep(k)
    BY <2>1, PurgeIsFinal, Zenon
  <2>2. CASE ~ PurgeStep(k)
    <3>1. UNCHANGED <<live, quarantine, retirement, accepted>>
      BY <1>2, <2>2, Zenon DEF CollectorStep, AssessGc, StartPurge, EndPurge, CollectorDies
    <3> QED
      BY <3>1, Zenon DEF Final
  <2> QED
    BY <2>1, <2>2, Zenon
<1>3. CASE UNCHANGED journalVars
  BY <1>3, Zenon DEF journalVars, Final
<1> QED
  BY <1>1, <1>2, <1>3, ForeignIsFinal, Zenon DEF JournalNext

-----------------------------------------------------------------------------
(* The executors and their snapshots. *)

(* A snapshot of a revision the journal has accepted. *)
Below == {s \in Snapshots : s.revision <= accepted}

(* Every snapshot there is, wherever it is kept, is such a one: those that
   callers hold too, for restore brings them back. *)
SnapshotInv ==
  /\ reading \subseteq Executor
  /\ snap \in [Executor -> {None} \cup {<<s>> : s \in Below}]
  /\ stored \in {None} \cup {<<s>> : s \in Below}
  /\ taken \subseteq Below

CheckpointInv == JournalInv /\ SnapshotInv

-----------------------------------------------------------------------------
LEMMA Boxed == \A s : <<s>> # None /\ <<s>>[1] = s
  BY Zenon DEF None

LEMMA CommittedIsSnapshot ==
  ASSUME NEW i \in 1..MaxRecords PROVE CommittedSnapshot(i) \in Snapshots /\ CommittedSnapshot(i).revision = i
  BY RetirementAssumption DEF CommittedSnapshot, Snapshots, State, ChainDigest

LEMMA PlainIsSnapshot ==
  ASSUME NEW i \in 0..MaxRecords, NEW x \in State
  PROVE  PlainSnapshot(i, x) \in Snapshots /\ PlainSnapshot(i, x).revision = i
  BY Zenon DEF PlainSnapshot, Snapshots, ContentDigest

LEMMA DecodedIsBelow == ASSUME NEW s \in Below PROVE Decoded(s) \in Below
<1>1. s \in Snapshots /\ s.revision <= accepted /\ s.revision \in 0..MaxRecords /\ s.state \in State
  BY Zenon DEF Below, Snapshots
<1> QED
  BY <1>1, PlainIsSnapshot, Zenon DEF Decoded, Below

LEMMA HeadAccepted ==
  ASSUME JournalInv
  PROVE  /\ Head \in 0..MaxRecords /\ Head <= accepted
         /\ retirement = None => Head = accepted
         /\ accepted \in 0..MaxRecords /\ accepted \in Nat /\ 0 \in 0..MaxRecords /\ 0 <= accepted
<1>0. accepted \in 0..MaxRecords /\ accepted \in Nat /\ 0 \in 0..MaxRecords /\ 0 <= accepted
  <2>1. accepted \in 0..MaxRecords
    BY Zenon DEF JournalInv
  <2> QED
    BY <2>1, RetirementAssumption
<1>1. CASE live = None
  BY <1>1, RetirementAssumption DEF Head, JournalInv
<1>2. CASE live # None
  <2>1. live \in File /\ live.records = accepted
    BY <1>2, Zenon DEF JournalInv
  <2> QED
    BY <1>0, <1>2, <2>1, FileThere DEF Head
<1> QED
  BY <1>0, <1>1, <1>2, Zenon

(* To the journal a step of the composition is one of its own steps. *)
LEMMA NextIsJournalNext == ASSUME [Next]_vars PROVE [JournalNext]_journalVars
<1>1. ASSUME NEW e \in Executor, BeginRead(e) \/ Open(e) \/ ReadFails(e) \/ Step(e) \/ Checkpoint(e) \/ Crash(e)
      PROVE  AppendCommit \/ UNCHANGED journalVars
  BY <1>1, Zenon DEF BeginRead, Open, ReadFails, Step, Checkpoint, Crash
<1>2. ASSUME NEW e \in Executor, NEW i, Retry(e, i) PROVE UNCHANGED journalVars
  BY <1>2, Zenon DEF Retry
<1>3. ASSUME NEW e \in Executor, NEW s, Restore(e, s) PROVE UNCHANGED journalVars
  BY <1>3, Zenon DEF Restore
<1>4. ASSUME Load PROVE UNCHANGED journalVars
  BY <1>4, Zenon DEF Load
<1>5. UNCHANGED vars => UNCHANGED journalVars
  BY Zenon DEF vars
<1> QED
  BY <1>1, <1>2, <1>3, <1>4, <1>5, Zenon DEF Next, JournalNext

(* accepted never shrinks, so what was below it stays below it. *)
LEMMA BelowGrows == ASSUME JournalInv, AppendCommit \/ UNCHANGED accepted PROVE Below \subseteq Below'
<1>1. accepted \in Nat /\ (accepted' = accepted \/ accepted' = accepted + 1)
  BY RetirementAssumption DEF JournalInv, AppendCommit
<1>2. \A s \in Snapshots : s.revision \in Nat
  BY DEF Snapshots
<1> QED
  BY <1>1, <1>2 DEF Below

LEMMA SaveKeeps ==
  ASSUME SnapshotInv, NEW s \in Below, Save(s)
  PROVE  stored' \in {None} \cup {<<t>> : t \in Below}
  BY Zenon DEF Save, SnapshotInv

LEMMA SnapshotInit == Init => CheckpointInv
  BY InitInv, Zenon DEF Init, CheckpointInv, SnapshotInv

-----------------------------------------------------------------------------
LEMMA OpenKeeps == ASSUME CheckpointInv, NEW e \in Executor, Open(e) PROVE SnapshotInv'
<1>1. UNCHANGED <<accepted, stored, taken>> /\ reading' = reading \ {e}
  BY Zenon DEF Open, Reads, journalVars
<1>2. Below' = Below
  BY <1>1, Zenon DEF Below
<1>3. PICK s \in Below : snap' = [snap EXCEPT ![e] = <<s>>]
  <2>1. CASE Head > 0
    <3>1. CommittedSnapshot(Head) \in Below
      BY <2>1, HeadAccepted, CommittedIsSnapshot DEF Below, CheckpointInv
    <3> QED
      BY <2>1, <3>1 DEF Open
  <2>2. CASE ~ (Head > 0)
    <3>1. PICK x \in Origin :
            snap' = [snap EXCEPT ![e] = IF stored = None THEN <<PlainSnapshot(0, x)>>
                                        ELSE <<Decoded(stored[1])>>]
      BY <2>2, Zenon DEF Open
    <3>2. PlainSnapshot(0, x) \in Below
      <4>1. 0 \in 0..MaxRecords /\ x \in State /\ 0 <= accepted
        BY HeadAccepted, Zenon DEF State, CheckpointInv
      <4> QED
        BY <4>1, PlainIsSnapshot, Zenon DEF Below
    <3>3. CASE stored = None
      BY <3>1, <3>2, <3>3, Zenon
    <3>4. CASE stored # None
      <4>1. PICK s \in Below : stored = <<s>>
        BY <3>4, Zenon DEF CheckpointInv, SnapshotInv
      <4>2. Decoded(stored[1]) \in Below
        BY <4>1, Boxed, DecodedIsBelow, Zenon
      <4> QED
        BY <3>1, <3>4, <4>2, Zenon
    <3> QED
      BY <3>3, <3>4, Zenon
  <2> QED
    BY <2>1, <2>2, Zenon
<1> QED
  BY <1>1, <1>2, <1>3, Zenon DEF CheckpointInv, SnapshotInv

LEMMA StepKeeps == ASSUME CheckpointInv, NEW e \in Executor, Step(e) PROVE SnapshotInv'
<1>1. UNCHANGED <<reading, stored, taken>> /\ AppendCommit
      /\ snap' = [snap EXCEPT ![e] = <<CommittedSnapshot(Head + 1)>>]
  BY Zenon DEF Step
<1>2. Head = accepted /\ accepted' = accepted + 1 /\ accepted < MaxRecords /\ accepted \in Nat
  <2>1. retirement = None /\ accepted' = accepted + 1 /\ accepted < MaxRecords
    BY <1>1, Zenon DEF AppendCommit, Appendable
  <2> QED
    BY <2>1, HeadAccepted, Zenon DEF CheckpointInv
<1>3. CommittedSnapshot(Head + 1) \in Below'
  <2>1. Head + 1 \in 1..MaxRecords
    BY <1>2, RetirementAssumption
  <2> QED
    BY <1>2, <2>1, CommittedIsSnapshot DEF Below
<1>4. Below \subseteq Below'
  BY <1>1, BelowGrows, Zenon DEF CheckpointInv
<1> QED
  BY <1>1, <1>3, <1>4, Zenon DEF CheckpointInv, SnapshotInv

LEMMA RetryKeeps ==
  ASSUME CheckpointInv, NEW e \in Executor, NEW i \in 1..Head, Retry(e, i)
  PROVE  SnapshotInv'
<1>1. UNCHANGED <<reading, stored, taken, accepted>>
      /\ snap' = [snap EXCEPT ![e] = <<CommittedSnapshot(i)>>]
  BY Zenon DEF Retry, journalVars
<1>2. Below' = Below
  BY <1>1, Zenon DEF Below
<1>3. CommittedSnapshot(i) \in Below
  <2>1. i \in 1..MaxRecords /\ i <= accepted
    BY HeadAccepted, RetirementAssumption DEF CheckpointInv
  <2> QED
    BY <2>1, CommittedIsSnapshot, Zenon DEF Below
<1> QED
  BY <1>1, <1>2, <1>3, Zenon DEF CheckpointInv, SnapshotInv

LEMMA CheckpointKeeps == ASSUME CheckpointInv, NEW e \in Executor, Checkpoint(e) PROVE SnapshotInv'
<1>1. UNCHANGED <<snap, reading, accepted>> /\ taken' = taken \cup {snap[e][1]}
      /\ snap[e] # None /\ Save(snap[e][1])
  BY Zenon DEF Checkpoint, Opened, journalVars
<1>2. Below' = Below
  BY <1>1, Zenon DEF Below
<1>3. PICK s \in Below : snap[e] = <<s>>
  BY <1>1, Zenon DEF CheckpointInv, SnapshotInv
<1>4. snap[e][1] \in Below
  BY <1>3, Boxed, Zenon
<1>5. stored' \in {None} \cup {<<t>> : t \in Below}
  BY <1>1, <1>4, SaveKeeps, Zenon DEF CheckpointInv
<1> QED
  BY <1>1, <1>2, <1>4, <1>5, Zenon DEF CheckpointInv, SnapshotInv

LEMMA LoadKeeps == ASSUME CheckpointInv, Load PROVE SnapshotInv'
<1>1. UNCHANGED <<snap, reading, stored, accepted>> /\ taken' = taken \cup {Decoded(stored[1])} /\ stored # None
  BY Zenon DEF Load, journalVars
<1>2. Below' = Below
  BY <1>1, Zenon DEF Below
<1>3. PICK s \in Below : stored = <<s>>
  BY <1>1, Zenon DEF CheckpointInv, SnapshotInv
<1>4. Decoded(stored[1]) \in Below
  BY <1>3, Boxed, DecodedIsBelow, Zenon
<1> QED
  BY <1>1, <1>2, <1>4, Zenon DEF CheckpointInv, SnapshotInv

LEMMA RestoreKeeps ==
  ASSUME CheckpointInv, NEW e \in Executor, NEW s \in taken, Restore(e, s)
  PROVE  SnapshotInv'
<1>1. UNCHANGED <<taken, accepted>> /\ reading' = reading \ {e} /\ snap' = [snap EXCEPT ![e] = <<s>>]
      /\ (Save(s) \/ UNCHANGED stored)
  BY Zenon DEF Restore, Reads, journalVars
<1>2. Below' = Below /\ s \in Below
  BY <1>1, Zenon DEF Below, CheckpointInv, SnapshotInv
<1>3. stored' \in {None} \cup {<<t>> : t \in Below}
  BY <1>1, <1>2, SaveKeeps, Zenon DEF CheckpointInv, SnapshotInv
<1> QED
  BY <1>1, <1>2, <1>3, Zenon DEF CheckpointInv, SnapshotInv

LEMMA ReadsKeep ==
  ASSUME CheckpointInv, NEW e \in Executor, BeginRead(e) \/ ReadFails(e) \/ Crash(e)
  PROVE  SnapshotInv'
<1>1. UNCHANGED <<accepted, stored, taken>> /\ reading' \subseteq reading \cup {e}
      /\ (UNCHANGED snap \/ snap' = [snap EXCEPT ![e] = None])
  BY Zenon DEF BeginRead, ReadFails, Crash, journalVars
<1>2. Below' = Below
  BY <1>1, Zenon DEF Below
<1> QED
  BY <1>1, <1>2, Zenon DEF CheckpointInv, SnapshotInv

LEMMA JournalKeeps ==
  ASSUME CheckpointInv, [JournalNext]_journalVars, UNCHANGED snapshotVars
  PROVE  SnapshotInv'
<1>1. AppendCommit \/ UNCHANGED accepted
  BY Zenon DEF JournalNext, PutForeign, CollectorStep, AssessGc, StartPurge, PurgeStep, PublishRetired,
         MoveToQuarantine, PublishQuarantined, Unlink, PublishPurged, EndPurge, CollectorDies, journalVars
<1>2. Below \subseteq Below'
  BY <1>1, BelowGrows, Zenon DEF CheckpointInv
<1> QED
  BY <1>2, Zenon DEF CheckpointInv, SnapshotInv, snapshotVars

LEMMA NextKeeps == ASSUME CheckpointInv, [Next]_vars PROVE CheckpointInv'
<1>1. JournalInv'
  BY NextIsJournalNext, JournalStepInv, Zenon DEF CheckpointInv
<1>2. ASSUME NEW e \in Executor,
             \/ BeginRead(e) \/ Open(e) \/ ReadFails(e) \/ Step(e) \/ Checkpoint(e) \/ Crash(e)
             \/ \E i \in 1..Head : Retry(e, i)
             \/ \E s \in taken : Restore(e, s)
      PROVE  SnapshotInv'
  BY <1>2, OpenKeeps, StepKeeps, CheckpointKeeps, RetryKeeps, RestoreKeeps, ReadsKeep, Zenon
<1>3. CASE UNCHANGED snapshotVars
  <2>1. [JournalNext]_journalVars
    BY NextIsJournalNext, Zenon
  <2> QED
    BY <1>1, <1>3, <2>1, JournalKeeps, Zenon DEF CheckpointInv
<1>4. UNCHANGED vars => UNCHANGED snapshotVars
  BY Zenon DEF vars
<1> QED
  BY <1>1, <1>2, <1>3, <1>4, LoadKeeps, Zenon DEF Next, CheckpointInv

LEMMA InvariantNotAhead == ASSUME CheckpointInv PROVE NeverAheadOfJournal
<1>1. \A s \in Below : <<s>>[1] \in Snapshots /\ <<s>>[1].revision <= accepted
  BY Boxed, Zenon DEF Below
<1>2. stored # None => stored[1] \in Snapshots /\ stored[1].revision <= accepted
  BY <1>1, Zenon DEF CheckpointInv, SnapshotInv
<1>3. \A e \in Executor : snap[e] # None => snap[e][1] \in Snapshots /\ snap[e][1].revision <= accepted
  BY <1>1, Zenon DEF CheckpointInv, SnapshotInv
<1>4. reading \subseteq Executor /\ taken \subseteq Snapshots
  BY Zenon DEF CheckpointInv, SnapshotInv, Below
<1> QED
  BY <1>2, <1>3, <1>4, Zenon DEF NeverAheadOfJournal, TypeOK, Opened

(* What a step may do to the stored snapshot. *)
Moves ==
  stored # None => \/ stored' = stored
                   \/ /\ Readable(stored[1])
                      /\ stored'[1].revision > stored[1].revision

LEMMA NextMoves == ASSUME [Next]_vars PROVE Moves
<1>1. ASSUME NEW s, Save(s) PROVE Moves
  BY <1>1, Boxed, Zenon DEF Save, SaveWrites, Moves
<1>2. ASSUME NEW e, Checkpoint(e) PROVE Moves
  BY <1>1, <1>2, Zenon DEF Checkpoint
<1>3. ASSUME NEW e, NEW s, Restore(e, s) PROVE Moves
  BY <1>1, <1>3, Zenon DEF Restore, Moves
<1>4. ASSUME NEW e, NEW i, BeginRead(e) \/ Open(e) \/ ReadFails(e) \/ Step(e) \/ Crash(e) \/ Retry(e, i) \/ Load
      PROVE  Moves
  BY <1>4, Zenon DEF BeginRead, Open, ReadFails, Step, Crash, Retry, Load, Moves
<1>5. UNCHANGED snapshotVars \/ UNCHANGED vars => Moves
  BY Zenon DEF snapshotVars, vars, Moves
<1> QED
  BY <1>2, <1>3, <1>4, <1>5, Zenon DEF Next

-----------------------------------------------------------------------------
(* One purge at most, counted. *)
INSTANCE FiniteSetTheorems

LEMMA OnePurges == ASSUME JournalInv PROVE Cardinality({k \in Collector : Purging(k)}) <= 1
<1> DEFINE P == {k \in Collector : Purging(k)}
<1>1. CASE P = {}
  BY <1>1, FS_EmptySet
<1>2. CASE P # {}
  <2>1. PICK k \in P : TRUE
    BY <1>2, Zenon
  <2>2. P = {k}
    BY <2>1, Zenon DEF JournalInv
  <2> QED
    BY <2>2, FS_Singleton
<1> QED
  BY <1>1, <1>2, Zenon

LEMMA InvariantNothingLost == ASSUME JournalInv PROVE NothingLost
<1>1. JournalTypeOK
  BY OnePurges, Zenon DEF JournalInv, JournalTypeOK
<1>2. ASSUME accepted > 0, foreign = 0, retirement # None => retirement.phase = "retired"
      PROVE  Has(live) # Has(quarantine)
  <2>1. CASE retirement = None
    BY <1>2, <2>1 DEF JournalInv, Has
  <2>2. CASE retirement # None
    BY <1>2, <2>2, Zenon DEF JournalInv, Has
  <2> QED
    BY <2>1, <2>2, Zenon
<1> QED
  BY <1>1, <1>2, Zenon DEF JournalInv, NothingLost

-----------------------------------------------------------------------------
(* The inductive invariant of the composition. *)
THEOREM CheckpointInvariant == Spec => []CheckpointInv
<1>1. Init => CheckpointInv
  BY SnapshotInit, Zenon
<1>2. CheckpointInv /\ [Next]_vars => CheckpointInv'
  BY NextKeeps, Zenon
<1> QED
  BY <1>1, <1>2, PTL DEF Spec

(* Whatever executors, purges cut short and others do, the journal exists in
   exactly one place until it is quarantined, and what purge destroys is all
   that was accepted, as the assessment had it (append, purge). *)
THEOREM NothingIsLost == Spec => []NothingLost
<1>1. CheckpointInv => NothingLost
  BY InvariantNothingLost, Zenon DEF CheckpointInv
<1> QED
  BY <1>1, CheckpointInvariant, PTL

(* The retirement document only advances, no commit is accepted after it, and
   purge removes no file but the journal it retired. *)
THEOREM RetirementIsFinal == Spec => RetirementFinal
<1>1. CheckpointInv /\ [Next]_vars => [Final]_journalVars
  BY NextIsJournalNext, StepIsFinal, Zenon DEF CheckpointInv
<1>2. Spec => [][Final]_journalVars
  BY <1>1, CheckpointInvariant, PTL DEF Spec
<1> QED
  BY <1>2, Zenon DEF RetirementFinal, Final

(* Neither the store nor an executor shows a revision the journal has not
   accepted, whatever is restored from wherever (open, restore, checkpoint). *)
THEOREM SnapshotsFollowJournal == Spec => []NeverAheadOfJournal
  BY CheckpointInvariant, InvariantNotAhead, PTL

(* save replaces a stored snapshot only by a newer one and only when it can
   read it. *)
THEOREM StoreOnlyMoves == Spec => StoreMoves
<1>1. [Next]_vars => [Moves]_vars
  BY NextMoves, Zenon
<1>2. Spec => [][Moves]_vars
  BY <1>1, PTL DEF Spec
<1> QED
  BY <1>2, Zenon DEF StoreMoves, Moves

==============================================================================
