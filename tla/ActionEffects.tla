---------------------------- MODULE ActionEffects ----------------------------
(***************************************************************************)
(* One physical action, from the agent's capability call to the world and  *)
(* back, across the four places that remember it:                          *)
(*                                                                         *)
(*   - the effect journal of the host, whose operations are EffectJournal's *)
(*     (CapabilityEffectExecutor writes the intent before the provider     *)
(*     acts, and a terminal record after);                                 *)
(*   - the action ledger of the Minecraft session, in host memory;         *)
(*   - the proofs of the JSONL bridge client, in host memory, with the     *)
(*     mark that the bridge process must be recycled before its next use;  *)
(*   - the write-ahead journal of the bridge process (ActionRecoveryJournal *)
(*     in JavaScript), which survives both processes.                      *)
(*                                                                         *)
(* Callers run concurrently and share the session; one command at a time   *)
(* is out to the bridge (_operation_lock).  The bridge works its commands  *)
(* in order while the host waits, gives up, or dies; it dies with the host *)
(* (its guardian kills it) and on its own.  Calls of one slot do not       *)
(* overlap: a slot belongs to one step of one agent turn.                  *)
(***************************************************************************)
EXTENDS EffectJournal

CONSTANTS Caller,      \* threads that invoke capabilities
          Forbidden,   \* intents whose action fails its contract or is not allowed
          MaxFaults    \* bound: crashes, timeouts, failed starts, exceptions

ASSUME ActionAssumption ==
  /\ None \notin Id /\ Forbidden \subseteq Id /\ MaxFaults \in Nat
  /\ Receipt \subseteq Snapshot /\ {"acted", "proved"} \subseteq Mark
  /\ Request # {} /\ Completion # {} /\ Client = {}

VARIABLES call,      \* Caller -> where its invoke is
          ledger,    \* MinecraftActionLedger._values: Id -> disposition or none
          proof,     \* JsonlMinecraftBridge._action_proofs
          pending,   \* _recycle_pending
          bridge,    \* the bridge process and its pipes
          wal,       \* actions.jsonl: Id -> its last line's state and disposition
          world,     \* Id -> what its handler did
          starts,    \* Id -> how often its handler was started
          answers,   \* Id -> the certainties its callers were told
          faults     \* faults so far

memory  == <<ledger, proof, pending>>
site    == <<bridge, wal, world, starts>>
journal == <<record, events, client>>
all     == <<journal, call, memory, site, answers, faults>>

Waiting == {"preparing", "acting", "asking"}
At      == Waiting \cup {"prepare", "intent", "act", "record", "reconcile", "refresh", "settle", "terminalize"}
Settled == {"applied", "rejected", "not_applied"}

(* The certainty of the receipt for a disposition. *)
CertaintyOf == [d \in Disposition |->
  CASE d = "applied"     -> "confirmed"
    [] d = "rejected"    -> "rejected"
    [] d = "not_applied" -> "no_effect"
    [] d = "unknown"     -> "indeterminate"]

(* The request and the consumption evidence of an intent are functions of it. *)
TheRequest    == CHOOSE q \in Request : TRUE
TheCompletion == CHOOSE w \in Completion : TRUE

(* A receipt of the execution, with its observations, or of the reconciliation. *)
ReceiptOf(d, mark) == [request |-> TheRequest, certainty |-> CertaintyOf[d], mark |-> mark]

(* A bridge process that has just loaded its journal. *)
Fresh == [up |-> "live", inbox |-> None, busy |-> None, reply |-> None]

ActionInit ==
  /\ Init
  /\ call = [c \in Caller |-> Idle]
  /\ ledger = [i \in Id |-> "none"] /\ proof = [i \in Id |-> "none"] /\ pending = FALSE
  /\ bridge = Fresh
  /\ wal = [i \in Id |-> None]
  /\ world = [i \in Id |-> "untouched"] /\ starts = [i \in Id |-> 0]
  /\ answers = [i \in Id |-> {}]
  /\ faults = 0

Fault   == faults < MaxFaults /\ faults' = faults + 1
Healthy == UNCHANGED faults

Goto(c, at)           == call' = [call EXCEPT ![c].at = at]
GotoWith(c, at, e)    == call' = [call EXCEPT ![c].at = at, ![c].effect = e]
Leave(c)              == call' = [call EXCEPT ![c] = Idle]
Answer(c, i, e)       == Leave(c) /\ answers' = [answers EXCEPT ![i] = @ \cup {e.certainty}]

(* _operation_lock: held while a command is out. *)
LockFree == \A c \in Caller : call[c].at \notin Waiting

(* A handler whose process is gone: nobody can say any more what it did. *)
Adrift == [i \in Id |-> IF world[i] = "acting" THEN "adrift" ELSE world[i]]

-----------------------------------------------------------------------------
(* A command to the bridge. *)

Command(cmd, i) == [cmd |-> cmd, id |-> i]

(* The client recycles the bridge when the last command's fate is unknown, and
   restarts one that died. *)
MustStart == pending \/ bridge.up = "dead"

Send(cmd, i) ==
  /\ LockFree
  /\ MustStart \/ bridge.up = "live"
  /\ bridge' = [(IF MustStart THEN Fresh ELSE bridge) EXCEPT !.inbox = Command(cmd, i)]
  /\ world' = IF MustStart THEN Adrift ELSE world
  /\ pending' = FALSE

(* Mutant: a command that finds no bridge leaves no mark to start one. *)
CannotSendUnmarked(marks) ==
  /\ LockFree
  /\ \/ /\ MustStart /\ Fault
        /\ bridge' = [Fresh EXCEPT !.up = "down"] /\ world' = Adrift
        /\ UNCHANGED pending
     \/ ~MustStart /\ bridge.up = "down" /\ Healthy /\ UNCHANGED <<bridge, world, pending>>

(* The bridge does not start; or there is none, which only a command that goes
   through _command_owned marks for the next one to repair. *)
CannotSend(marks) ==
  /\ LockFree
  /\ \/ /\ MustStart /\ Fault
        /\ bridge' = [Fresh EXCEPT !.up = "down"] /\ world' = Adrift
        /\ UNCHANGED pending
     \/ /\ ~MustStart /\ bridge.up = "down" /\ Healthy
        /\ pending' = marks
        /\ UNCHANGED <<bridge, world>>

Taken == bridge' = [bridge EXCEPT !.reply = None]

-----------------------------------------------------------------------------
(* CapabilityEffectExecutor.invoke: the journal decides between a new effect,
   the recovery of an interrupted one, and the answer it has.  The handle of an
   action that fails its contract is made without the bridge. *)

Free(c, i) == call[c] = Idle /\ \A d \in Caller : call[d] # Idle => call[d].id # i

Enter(c, i, at, e) == call' = [call EXCEPT ![c] = [at |-> at, id |-> i, effect |-> e]]

InvokeNew(c, i) ==
  /\ Free(c, i) /\ record[i] = None
  /\ Enter(c, i, IF i \in Forbidden THEN "intent" ELSE "prepare", None)
  /\ UNCHANGED <<journal, memory, site, answers, faults>>

(* Mutant: an intent found prepared is executed again. *)
RecoverByActing(c, i) ==
  /\ Free(c, i) /\ Unresolved(i)
  /\ IF record[i].phase = "prepared" THEN Enter(c, i, "act", None)
                                     ELSE Enter(c, i, "terminalize", record[i].snapshot)
  /\ UNCHANGED <<journal, memory, site, answers, faults>>

InvokeRecover(c, i) ==
  /\ Free(c, i) /\ Unresolved(i)
  /\ IF record[i].phase = "prepared" THEN Enter(c, i, "reconcile", None)
                                     ELSE Enter(c, i, "terminalize", record[i].snapshot)
  /\ UNCHANGED <<journal, memory, site, answers, faults>>

InvokeReplay(c, i) ==
  /\ Free(c, i) /\ record[i] # None /\ ~Unresolved(i)
  /\ answers' = [answers EXCEPT ![i] = @ \cup {record[i].snapshot.certainty}]
  /\ UNCHANGED <<journal, call, memory, site, faults>>

-----------------------------------------------------------------------------
(* execute_new_capability_effect. *)

(* prepare_action_recovery: the provider makes the action known to the bridge's
   journal. *)
PrepareHandle(c) ==
  /\ call[c].at = "prepare"
  /\ Send("prepare", call[c].id)
  /\ Goto(c, "preparing")
  /\ UNCHANGED <<journal, ledger, proof, wal, starts, answers, faults>>

PrepareFails(c) ==
  /\ call[c].at = "prepare"
  /\ CannotSend(FALSE)
  /\ Leave(c)
  /\ UNCHANGED <<journal, ledger, proof, wal, starts, answers>>

PrepareAck(c) ==
  /\ call[c].at = "preparing" /\ bridge.reply # None
  /\ Taken
  /\ Goto(c, "intent")
  /\ UNCHANGED <<journal, memory, wal, world, starts, answers, faults>>

(* EffectIntentOperations.prepare: one transaction proves the scope clear and
   writes the intent, or raises. *)
Intend(c) ==
  /\ call[c].at = "intent"
  /\ \/ PrepareScoped(call[c].id, TheRequest) /\ Goto(c, "act")
     \/ ~ScopeClear(call[c].id) /\ Leave(c) /\ UNCHANGED journal
  /\ UNCHANGED <<memory, site, answers, faults>>

(* _contract_rejection_result: the ledger has nothing else to say. *)
RejectedHere(i) == ledger[i] \in {"none", "rejected"}

(* execute_prepared_action: assert_new refuses what the ledger knows. *)
Act(c) ==
  LET i == call[c].id IN
  /\ call[c].at = "act"
  /\ \/ /\ i \in Forbidden /\ RejectedHere(i)
        /\ ledger' = [ledger EXCEPT ![i] = "rejected"]
        /\ GotoWith(c, "record", ReceiptOf("rejected", "proved"))
        /\ UNCHANGED <<proof, pending, site>>
     \/ /\ i \notin Forbidden /\ ledger[i] = "none"
        /\ Send("act", i)
        /\ Goto(c, "acting")
        /\ UNCHANGED <<ledger, proof, wal, starts>>
  /\ UNCHANGED <<journal, answers, faults>>

(* The command is not even sent: act fences the action as unknown all the same,
   and the caller reconciles. *)
ActFails(c) ==
  /\ call[c].at = "act" /\ call[c].id \notin Forbidden
  /\ CannotSend(TRUE)
  /\ ledger' = [ledger EXCEPT ![call[c].id] = "unknown"]
  /\ Goto(c, "reconcile")
  /\ UNCHANGED <<journal, proof, wal, starts, answers>>

(* What the client remembers of a proof: unknown may become a verdict, never the
   reverse (_record_action_proof). *)
Remember(i, d) == proof' = [proof EXCEPT ![i] = IF @ \in Settled THEN @ ELSE d]

(* The action's result arrives with its acknowledgement, which may recommend that
   the bridge be recycled. *)
ActResult(c) ==
  LET i == call[c].id  r == bridge.reply IN
  /\ call[c].at = "acting" /\ r # None
  /\ Taken /\ pending' = r.recycle
  /\ Remember(i, r.disposition)
  /\ ledger' = [ledger EXCEPT ![i] = r.disposition]
  /\ GotoWith(c, "record", ReceiptOf(r.disposition, "acted"))
  /\ UNCHANGED <<journal, wal, world, starts, answers, faults>>

(* The caller is cancelled once the result is read, or the acknowledgement behind
   it is lost: the proof stays, the ledger is told unknown. *)
ActCancelled(c) ==
  LET i == call[c].id  r == bridge.reply IN
  /\ call[c].at = "acting" /\ r # None /\ Fault
  /\ Taken /\ pending' \in {r.recycle, TRUE}
  /\ Remember(i, r.disposition)
  /\ ledger' = [ledger EXCEPT ![i] = "unknown"]
  /\ Goto(c, "reconcile")
  /\ UNCHANGED <<journal, wal, world, starts, answers>>

(* record_terminal_result, and the answer. *)
RecordAct(c) ==
  LET i == call[c].id  e == call[c].effect IN
  /\ call[c].at = "record"
  /\ RecordTerminalResult(i, TheRequest, e, e,
                          IF e.certainty \in Consumable THEN TheCompletion ELSE None)
  /\ Answer(c, i, e)
  /\ UNCHANGED <<memory, site, faults>>

-----------------------------------------------------------------------------
(* resolve_existing_capability_effect, and the same steps after a failed act. *)

(* ActionLedger.resolve: unknown is refined once, a verdict never changes. *)
Refines(i, d) == ledger[i] \in {"none", "unknown", d}

(* The proof goes to the ledger; a contradiction raises. *)
Proven(c, i, d) ==
  IF Refines(i, d)
  THEN /\ ledger' = [ledger EXCEPT ![i] = d]
       /\ GotoWith(c, "refresh", ReceiptOf(d, "proved"))
  ELSE Leave(c) /\ UNCHANGED ledger

(* reconcile_prepared_action: rejected by contract, answered by a remembered
   proof, or asked of the bridge. *)
Ask(c) ==
  LET i == call[c].id IN
  /\ call[c].at = "reconcile"
  /\ \/ /\ i \in Forbidden /\ RejectedHere(i)
        /\ ledger' = [ledger EXCEPT ![i] = "rejected"]
        /\ GotoWith(c, "settle", ReceiptOf("rejected", "proved"))
        /\ UNCHANGED <<proof, pending, site>>
     \/ /\ i \notin Forbidden /\ LockFree /\ proof[i] \in Settled
        /\ Proven(c, i, proof[i])
        /\ UNCHANGED <<proof, pending, site>>
     \/ /\ i \notin Forbidden /\ proof[i] \notin Settled
        /\ Send("reconcile", i)
        /\ Goto(c, "asking")
        /\ UNCHANGED <<ledger, proof, wal, starts>>
  /\ UNCHANGED <<journal, answers, faults>>

AskFails(c) ==
  /\ call[c].at = "reconcile" /\ call[c].id \notin Forbidden
  /\ proof[call[c].id] \notin Settled
  /\ CannotSend(FALSE)
  /\ Leave(c)
  /\ UNCHANGED <<journal, ledger, proof, wal, starts, answers>>

ProofArrives(c) ==
  LET i == call[c].id  d == bridge.reply.disposition IN
  /\ call[c].at = "asking" /\ bridge.reply # None
  /\ Taken
  /\ Remember(i, d)
  /\ Proven(c, i, d)
  /\ UNCHANGED <<journal, pending, wal, world, starts, answers, faults>>

(* A read of the world goes through the bridge, or fails. *)
Reads ==
  \/ /\ LockFree
     /\ MustStart \/ bridge.up = "live"
     /\ bridge' = IF MustStart THEN Fresh ELSE bridge
     /\ world' = IF MustStart THEN Adrift ELSE world
     /\ pending' = FALSE
     /\ Healthy
  \/ CannotSend(TRUE)
  \/ /\ LockFree /\ ~MustStart /\ bridge.up = "live" /\ Fault
     /\ pending' = TRUE
     /\ UNCHANGED <<bridge, world>>

(* session.reconcile_prepared_action reads the world after the proof; that it
   fails changes nothing of the verdict. *)
Refresh(c) ==
  /\ call[c].at = "refresh"
  /\ Reads
  /\ Goto(c, "settle")
  /\ UNCHANGED <<journal, ledger, proof, wal, starts, answers>>

Settle(c) ==
  LET i == call[c].id  e == call[c].effect IN
  /\ call[c].at = "settle"
  /\ RecordReconciled(i, TheRequest, e, e)
  /\ Goto(c, "terminalize")
  /\ UNCHANGED <<memory, site, answers, faults>>

(* terminalize_capability_effect, and the answer. *)
Terminalize(c) ==
  LET i == call[c].id  e == call[c].effect IN
  /\ call[c].at = "terminalize"
  /\ \/ e.certainty = "no_effect"     /\ RecordNotApplied(i, TheRequest, e)
     \/ e.certainty = "indeterminate" /\ RecordIndeterminate(i, TheRequest, e)
     \/ e.certainty \in Consumable    /\ RecordConsumed(i, TheRequest, TheCompletion)
  /\ Answer(c, i, e)
  /\ UNCHANGED <<memory, site, faults>>

-----------------------------------------------------------------------------
(* What goes wrong on the host. *)

(* No acknowledgement before the deadline, or the pipe breaks: whatever was asked,
   the bridge is not used again as it is; an action is fenced as unknown. *)
Lost(c) ==
  LET i == call[c].id IN
  /\ call[c].at \in Waiting
  /\ \/ bridge.up = "dead" /\ Healthy
     \/ bridge.up = "live" /\ Fault
  /\ pending' = TRUE
  /\ IF call[c].at = "acting"
     THEN ledger' = [ledger EXCEPT ![i] = "unknown"] /\ Goto(c, "reconcile")
     ELSE Leave(c) /\ UNCHANGED ledger
  /\ UNCHANGED <<journal, proof, site, answers>>

(* A cancellation or a failed write ends the call; what execute_prepared raises
   sends it to the reconciliation. *)
Raise(c) ==
  /\ call[c].at \in At \ (Waiting \cup {"act"}) /\ Fault
  /\ Leave(c)
  /\ UNCHANGED <<journal, memory, site, answers>>

Interrupt(c) ==
  /\ call[c].at \in {"act", "record"} /\ Fault
  /\ GotoWith(c, "reconcile", None)
  /\ UNCHANGED <<journal, memory, site, answers>>

(* An agent looks at the world: the read that repairs a bridge. *)
Observe ==
  /\ MustStart \/ bridge.up = "down" \/ faults < MaxFaults
  /\ Reads
  /\ UNCHANGED <<journal, call, ledger, proof, wal, starts, answers>>

(* The host process ends, and its guardian ends the bridge; both start again. *)
HostCrash ==
  /\ Fault
  /\ call' = [c \in Caller |-> Idle]
  /\ ledger' = [i \in Id |-> "none"] /\ proof' = [i \in Id |-> "none"] /\ pending' = FALSE
  /\ bridge' = Fresh /\ world' = Adrift
  /\ UNCHANGED <<journal, wal, starts, answers>>

-----------------------------------------------------------------------------
(* The bridge process: MinecraftBotActor takes one command after the other. *)

Received(cmd) == bridge.up = "live" /\ bridge.busy = None /\ bridge.inbox # None
                 /\ bridge.inbox.cmd = cmd

Reply(d, recycle) ==
  bridge' = [bridge EXCEPT !.inbox = None, !.busy = None,
                           !.reply = [disposition |-> d, recycle |-> recycle]]

Line(state, d) == [state |-> state, disposition |-> d]

(* ActionRecoveryJournal.prepare. *)
BridgePrepare ==
  LET i == bridge.inbox.id  line == IF wal[i] = None THEN Line("prepared", "not_applied") ELSE wal[i] IN
  /\ Received("prepare")
  /\ wal' = [wal EXCEPT ![i] = line]
  /\ Reply(line.disposition, FALSE)
  /\ UNCHANGED <<journal, call, memory, world, starts, answers, faults>>

(* Mutant: the handler starts while its line still says prepared. *)
BeginUnlogged ==
  /\ Received("act")
  /\ bridge' = [bridge EXCEPT !.inbox = None, !.busy = bridge.inbox.id]
  /\ world' = [world EXCEPT ![bridge.inbox.id] = "acting"]
  /\ starts' = [starts EXCEPT ![bridge.inbox.id] = @ + 1]
  /\ UNCHANGED <<journal, call, memory, wal, answers, faults>>

(* begin: the line says unknown before the handler starts; what is past prepared
   is answered from its line. *)
BridgeBegin ==
  LET i == bridge.inbox.id IN
  /\ Received("act")
  /\ IF wal[i] = None \/ wal[i].state = "prepared"
     THEN /\ wal' = [wal EXCEPT ![i] = Line("intent", "unknown")]
          /\ bridge' = [bridge EXCEPT !.inbox = None, !.busy = i]
          /\ world' = [world EXCEPT ![i] = "acting"]
          /\ starts' = [starts EXCEPT ![i] = @ + 1]
     ELSE Reply(wal[i].disposition, FALSE) /\ UNCHANGED <<wal, world, starts>>
  /\ UNCHANGED <<journal, call, memory, answers, faults>>

(* The command fails before its line is written: the handler is not started, and
   the answer is unknown all the same. *)
BridgeRefuses ==
  /\ Received("act") /\ Fault
  /\ Reply("unknown", FALSE)
  /\ UNCHANGED <<journal, call, memory, wal, world, starts, answers>>

(* The handler changes the world, whoever still waits for it. *)
WorldEffect(i) ==
  /\ bridge.up = "live" /\ world[i] = "acting"
  /\ world' = [world EXCEPT ![i] = "applied"]
  /\ UNCHANGED <<journal, call, memory, bridge, wal, starts, answers, faults>>

(* What a handler may report, and the world it leaves: a verdict is true; a handler
   that failed or was cancelled is unknown, and may not even have settled. *)
Reports(d) ==
  CASE d = "applied" -> {"applied"}
    [] d \in {"rejected", "not_applied"} -> {"ceased"}
    [] d = "unknown" -> {"applied", "adrift", "acting"}

(* complete: the line first, then the result with its acknowledgement, which
   recommends to recycle a bridge whose handler has not settled. *)
BridgeComplete ==
  LET i == bridge.busy IN
  /\ bridge.up = "live" /\ bridge.busy # None
  /\ \E d \in Disposition : \E after \in Reports(d) :
       /\ (world[i] = "applied") = (after = "applied")
       /\ world' = [world EXCEPT ![i] = after]
       /\ wal' = [wal EXCEPT ![i] = Line("terminal", d)]
       /\ Reply(d, after = "acting")
  /\ UNCHANGED <<journal, call, memory, starts, answers, faults>>

(* ActionRecoveryJournal.reconcile. *)
BridgeReconcile ==
  LET i == bridge.inbox.id IN
  /\ Received("reconcile")
  /\ Reply(IF wal[i] = None THEN "unknown" ELSE wal[i].disposition, FALSE)
  /\ UNCHANGED <<journal, call, memory, wal, world, starts, answers, faults>>

BridgeDies ==
  /\ bridge.up = "live" /\ Fault
  /\ bridge' = [bridge EXCEPT !.up = "dead", !.inbox = None, !.busy = None]
  /\ world' = Adrift
  /\ UNCHANGED <<journal, call, memory, wal, starts, answers>>

-----------------------------------------------------------------------------
CallerStep(c) ==
  \/ \E i \in Id : InvokeNew(c, i) \/ InvokeRecover(c, i) \/ InvokeReplay(c, i)
  \/ PrepareHandle(c) \/ PrepareFails(c) \/ PrepareAck(c) \/ Intend(c)
  \/ Act(c) \/ ActFails(c) \/ ActResult(c) \/ ActCancelled(c) \/ RecordAct(c)
  \/ Ask(c) \/ AskFails(c) \/ ProofArrives(c) \/ Refresh(c) \/ Settle(c) \/ Terminalize(c)
  \/ Lost(c) \/ Raise(c) \/ Interrupt(c)

BridgeWork == BridgePrepare \/ BridgeBegin \/ BridgeComplete \/ BridgeReconcile

ActionNext ==
  \/ \E c \in Caller : CallerStep(c)
  \/ Observe \/ HostCrash
  \/ BridgeWork \/ BridgeRefuses \/ BridgeDies \/ \E i \in Id : WorldEffect(i)

ActionSpec == ActionInit /\ [][ActionNext]_all

-----------------------------------------------------------------------------
(* Fairness: a call goes on, and gets the lock in the end (the commands that hold
   it are bounded by deadlines); the bridge works; agents look at the world, and
   interrupted calls are invoked again when a study resumes. *)
Progress(c) ==
  \/ PrepareHandle(c) \/ PrepareFails(c) \/ PrepareAck(c) \/ Intend(c)
  \/ Act(c) \/ ActFails(c) \/ ActResult(c) \/ RecordAct(c)
  \/ Ask(c) \/ AskFails(c) \/ ProofArrives(c) \/ Refresh(c) \/ Settle(c) \/ Terminalize(c)
  \/ bridge.up = "dead" /\ Lost(c)

FairActionSpec ==
  /\ ActionSpec
  /\ \A c \in Caller : SF_all(Progress(c))
  /\ WF_all(BridgeWork)
  /\ SF_all(Observe)
  /\ SF_all(\E c \in Caller, i \in Id : InvokeRecover(c, i))

-----------------------------------------------------------------------------
(* Properties. *)

(* Every variable has the type of the attribute, file or process it stands for. *)
ActionTypeOK ==
  /\ TypeOK
  /\ \A c \in Caller :
       call[c] = Idle \/ call[c] \in [at : At, id : Id, effect : {None} \cup Receipt]
  /\ ledger \in [Id -> {"none"} \cup Disposition] /\ proof \in [Id -> {"none"} \cup Disposition]
  /\ pending \in BOOLEAN /\ bridge.up \in {"live", "dead", "down"}
  /\ bridge.busy # None => bridge.busy \in Id
  /\ \A i \in Id : wal[i] # None =>
       wal[i] \in [state : {"prepared", "intent", "terminal"}, disposition : Disposition]
  /\ world \in [Id -> {"untouched", "acting", "applied", "ceased", "adrift"}]

(* However often a slot is invoked, interrupted and recovered, its handler starts
   at most once, and only for an action its contract admits whose intent is on
   file; an action is only sent while the bridge's journal still holds it as
   prepared, so that no recovery path submits what may already have run; and a
   bridge process never runs two handlers at once, although it answers for one
   that did not settle and although callers give up on it: it is recycled first. *)
ActedOnce ==
  /\ ActionTypeOK
  /\ \A i \in Id : starts[i] > 0 => starts[i] = 1 /\ i \notin Forbidden /\ record[i] # None
  /\ bridge.inbox # None /\ bridge.inbox.cmd = "act"
       => wal[bridge.inbox.id] = Line("prepared", "not_applied")
  /\ \A i, j \in Id : world[i] = "acting" /\ world[j] = "acting" => i = j

(* What callers are told, and what the effect journal ends with, is true of the
   world from then on, whatever died or timed out: confirmed actions took effect,
   rejected and unapplied ones did not and never will; and all callers of a slot
   are told the same, the verdict on file. *)
VerdictsTrue ==
  \A i \in Id :
    LET told == answers[i] \cup IF record[i] = None \/ record[i].phase \notin Terminal THEN {}
                                ELSE {record[i].snapshot.certainty}
    IN /\ \A a, b \in told : a = b
       /\ "confirmed" \in told => world[i] = "applied"
       /\ {"rejected", "no_effect"} \cap told # {} => world[i] \in {"untouched", "ceased"}

(* No crash, timeout, dead bridge or failed restart leaves an effect unresolved
   for good, which would close its scope to every later action: time and again,
   every intent that was written has reached its terminal record. *)
EffectsSettle == []<>(\A i \in Id : ~Unresolved(i))
==============================================================================
