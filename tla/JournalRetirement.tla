-------------------------- MODULE JournalRetirement --------------------------
(***************************************************************************)
(* The end of a machine journal: assess_gc, and purge, which retires the   *)
(* machine's identity for good, moves the journal file to quarantine and   *)
(* removes it, with a durable phase before each step so that any later     *)
(* purge can go on where one was cut short.                                *)
(*                                                                         *)
(* purge and append hold the journal's lock, but the file system is not    *)
(* theirs alone: between two purges someone may put a file (a backup, say) *)
(* where the journal was or swap the quarantined one, with the same bytes  *)
(* in it.  (Against someone who does so between a check of a purge and the *)
(* system call after it no program can guard.)  A file is the object it is *)
(* and the number of records in it.                                        *)
(***************************************************************************)
EXTENDS Naturals, FiniteSets

CONSTANTS Collector,   \* callers of assess_gc and purge
          Proof,       \* reference-closure proofs, all eligible
          MaxRecords,  \* bound: records
          MaxCrashes,  \* bound: deaths inside purge
          MaxForeign   \* bound: files put there by others

ASSUME RetirementAssumption == MaxRecords \in Nat /\ MaxCrashes \in Nat /\ MaxForeign \in Nat

VARIABLES live,        \* the journal file, or none
          quarantine,  \* the quarantined file, or none
          retirement,  \* the retirement document, or none
          accepted,    \* commits acknowledged to executors
          gc,          \* collector -> the assessment it holds, or none
          doing,       \* collector -> where its purge is
          crashes, foreign

journalVars == <<live, quarantine, retirement, accepted, gc, doing, crashes, foreign>>

None == <<>>

Object == {"journal", "foreign"}
File   == [object : Object, records : 1..MaxRecords]

(* MachineJournalGcAssessment: the terminal revision (with it the content) and
   the closure proof. *)
Assessment == [revision : 1..MaxRecords, proof : Proof]

Phases == {"retired", "quarantined", "purged"}

JournalInit ==
  /\ live = None /\ quarantine = None /\ retirement = None
  /\ accepted = 0
  /\ gc = [k \in Collector |-> None]
  /\ doing = [k \in Collector |-> "idle"]
  /\ crashes = 0 /\ foreign = 0

(* No purge holds the journal's lock. *)
LockFree == \A k \in Collector : doing[k] = "idle"

-----------------------------------------------------------------------------
(* Mutant: append does not look for a retirement. *)
OpenForAppend == LockFree

(* append refuses a retired identity. *)
Appendable == LockFree /\ retirement = None

(* append of a commit that is accepted. *)
AppendCommit ==
  /\ Appendable /\ accepted < MaxRecords
  /\ live' = IF live = None THEN [object |-> "journal", records |-> 1]
             ELSE [live EXCEPT !.records = @ + 1]
  /\ accepted' = accepted + 1
  /\ UNCHANGED <<quarantine, retirement, gc, doing, crashes, foreign>>

(* assess_gc: the journal's terminal revision, or the retired one. *)
AssessGc(k, proof) ==
  /\ LockFree
  /\ IF retirement = None THEN quarantine = None /\ live # None ELSE TRUE
  /\ gc' = [gc EXCEPT ![k] =
       [revision |-> IF retirement = None THEN live.records ELSE retirement.gc.revision,
        proof |-> proof]]
  /\ UNCHANGED <<live, quarantine, retirement, accepted, doing, crashes, foreign>>

(* purge takes the lock. *)
StartPurge(k) ==
  /\ LockFree /\ gc[k] # None
  /\ doing' = [doing EXCEPT ![k] = "purge"]
  /\ UNCHANGED <<live, quarantine, retirement, accepted, gc, crashes, foreign>>

Purging(k) == doing[k] # "idle"

(* _publish_retirement: the phase, for the assessment of collector k and the
   generation of the file it is about. *)
Publish(k, phase, generation) ==
  retirement' = [phase |-> phase, gc |-> gc[k], generation |-> generation]

(* Mutant: the journal may have grown since it was assessed. *)
AssessedEarlier(k) == TRUE

(* _require_gc_identity. *)
Assessed(k) == live.records = gc[k].revision

(* No retirement yet: the live journal is what was assessed. *)
PublishRetired(k) ==
  /\ Purging(k) /\ retirement = None
  /\ quarantine = None /\ live # None
  /\ Assessed(k)
  /\ Publish(k, "retired", live)
  /\ UNCHANGED <<live, quarantine, accepted, gc, doing, crashes, foreign>>

(* _require_retirement_matches_gc. *)
InPhase(k, phase) == Purging(k) /\ retirement # None /\ retirement.gc = gc[k] /\ retirement.phase = phase

(* _validate_quarantine_identity, and the generation check of the live file:
   the object that was retired, with the content that was assessed. *)
SameGeneration(f) == f = retirement.generation /\ f.records = retirement.gc.revision

(* RETIRED, the journal still at its place: rename it. *)
MoveToQuarantine(k) ==
  /\ InPhase(k, "retired") /\ doing[k] = "purge"
  /\ live # None /\ quarantine = None
  /\ Assessed(k) /\ SameGeneration(live)
  /\ quarantine' = live /\ live' = None
  /\ doing' = [doing EXCEPT ![k] = "moved"]
  /\ UNCHANGED <<retirement, accepted, gc, crashes, foreign>>

(* Mutant: only the purge that moved the file publishes the phase. *)
MovedHere(k) == doing[k] = "moved"

(* The file has been moved: by this purge, or by one that was cut short, and
   then nothing may be at its old place. *)
Moved(k) == live # None => doing[k] = "moved"

(* The file is in quarantine, from this purge or from one that was cut short:
   it is validated and the phase published. *)
PublishQuarantined(k) ==
  /\ InPhase(k, "retired")
  /\ quarantine # None /\ Moved(k)
  /\ SameGeneration(quarantine)
  /\ Publish(k, "quarantined", quarantine)
  /\ doing' = [doing EXCEPT ![k] = "purge"]
  /\ UNCHANGED <<live, quarantine, accepted, gc, crashes, foreign>>

(* QUARANTINED: the validated file is removed. *)
Unlink(k) ==
  /\ InPhase(k, "quarantined")
  /\ live = None /\ quarantine # None /\ SameGeneration(quarantine)
  /\ quarantine' = None
  /\ UNCHANGED <<live, retirement, accepted, gc, doing, crashes, foreign>>

(* Nothing is left of the journal. *)
CarrierGone == live = None /\ quarantine = None

PublishPurged(k) ==
  /\ InPhase(k, "quarantined") /\ CarrierGone
  /\ Publish(k, "purged", retirement.generation)
  /\ UNCHANGED <<live, quarantine, accepted, gc, doing, crashes, foreign>>

PurgeStep(k) ==
  PublishRetired(k) \/ MoveToQuarantine(k) \/ PublishQuarantined(k) \/ Unlink(k) \/ PublishPurged(k)

(* The phase is PURGED, or a check above has failed and raises. *)
PurgeEnds(k) == ~ ENABLED PurgeStep(k)

(* purge returns. *)
EndPurge(k) ==
  /\ Purging(k) /\ PurgeEnds(k)
  /\ doing' = [doing EXCEPT ![k] = "idle"]
  /\ UNCHANGED <<live, quarantine, retirement, accepted, gc, crashes, foreign>>

(* The process dies inside purge; its lock goes with it. *)
CollectorDies(k) ==
  /\ Purging(k) /\ crashes < MaxCrashes
  /\ doing' = [doing EXCEPT ![k] = "idle"]
  /\ crashes' = crashes + 1
  /\ UNCHANGED <<live, quarantine, retirement, accepted, gc, foreign>>

(* Someone copies the journal back to its place, or over the quarantine. *)
PutForeign ==
  /\ LockFree /\ retirement # None /\ foreign < MaxForeign
  /\ foreign' = foreign + 1
  /\ LET f == [object |-> "foreign", records |-> retirement.gc.revision]
     IN \/ live = None /\ live' = f /\ UNCHANGED quarantine
        \/ quarantine' = f /\ UNCHANGED live
  /\ UNCHANGED <<retirement, accepted, gc, doing, crashes>>

CollectorStep(k) ==
  \/ \E proof \in Proof : AssessGc(k, proof)
  \/ StartPurge(k) \/ PurgeStep(k) \/ EndPurge(k) \/ CollectorDies(k)

JournalNext == AppendCommit \/ PutForeign \/ \E k \in Collector : CollectorStep(k)

JournalSpec == JournalInit /\ [][JournalNext]_journalVars

(* A purge that runs goes on, and a caller whose assessment the retirement
   holds calls again; the lock goes to everyone who waits for it. *)
CollectorFairness ==
  \A k \in Collector :
    /\ WF_journalVars(PurgeStep(k)) /\ WF_journalVars(EndPurge(k))
    /\ SF_journalVars(retirement # None /\ retirement.gc = gc[k] /\ StartPurge(k))
    /\ SF_journalVars(retirement # None /\ AssessGc(k, retirement.gc.proof))

-----------------------------------------------------------------------------
(* Files, documents and assessments have their shapes, and one purge at a time
   holds the lock. *)
JournalTypeOK ==
  /\ live # None => live \in File
  /\ quarantine # None => quarantine \in File
  /\ retirement # None => retirement.phase \in Phases /\ retirement.gc \in Assessment
  /\ \A k \in Collector : gc[k] # None => gc[k] \in Assessment
  /\ Cardinality({k \in Collector : Purging(k)}) <= 1

Has(f) == f # None /\ f.object = "journal"

(* The journal is destroyed only as a whole and only as it was assessed: as
   long as the phase is not QUARANTINED one copy exists, and whatever was ever
   accepted is what the retiring assessment covered. *)
NothingLost ==
  /\ JournalTypeOK
  /\ accepted > 0 /\ foreign = 0 /\ (retirement # None => retirement.phase = "retired")
       => Has(live) # Has(quarantine)
  /\ retirement # None => retirement.gc.revision = accepted

(* Retirement is final: its phases only advance, for the same assessment, and
   nothing is accepted after it; and it removes no file but the journal it
   retired: what others put in its place stays, even with the same bytes. *)
RetirementFinal ==
  [][/\ retirement # None =>
          /\ retirement' # None /\ retirement'.gc = retirement.gc
          /\ retirement.phase = "purged" => retirement' = retirement
          /\ retirement.phase = "quarantined" => retirement'.phase # "retired"
          /\ accepted' = accepted
     /\ live # None /\ live.object = "foreign" => live' = live
     /\ quarantine # None /\ quarantine.object = "foreign" => quarantine' = quarantine]_journalVars

(* Under purges cut short anywhere, a retired journal is purged in the end by
   whoever calls again with the assessment that retired it, unless somebody put
   another file in its place, which purge refuses to remove. *)
EventuallyPurged ==
  (retirement # None) ~> ((retirement # None /\ retirement.phase = "purged") \/ foreign > 0)
==============================================================================
