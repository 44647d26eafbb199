---------------------------- MODULE EffectJournal ----------------------------
(***************************************************************************)
(* The write-ahead journal of external effects (EffectIntentJournalRuntime *)
(* over its SQLite or memory backend), the transition algebra its          *)
(* operations apply to a record, and the reconciliation service.           *)
(*                                                                         *)
(* An operation of the journal is one write transaction: it reads the      *)
(* record, applies a transition and writes the record together with a      *)
(* causal event, or raises and writes nothing.  load is not a transaction: *)
(* it reads the record and then, separately, the head event.  Reconcile    *)
(* loads, asks the provider, and writes; anything may happen in between.   *)
(*                                                                         *)
(* A receipt is the request it is bound to, its certainty and a mark for   *)
(* the rest of it (digests are equal when receipts are); a result snapshot *)
(* and a completion are values.  A transition is the set of the records it *)
(* may return: the empty set when it raises.                               *)
(***************************************************************************)
EXTENDS Naturals, Sequences, FiniteSets

CONSTANTS Id,          \* intent identities
          Scope,       \* Id -> the run and lifetime of the intent
          Request,     \* request digests
          Mark,        \* what else tells receipts apart
          Snapshot,    \* result snapshots
          Completion,  \* consumption evidence
          Client       \* callers of EffectReconciliationService.reconcile

ASSUME EffectAssumption == DOMAIN Scope = Id /\ <<>> \notin Completion

VARIABLES record,   \* Id -> the record's row, or none
          events,   \* Id -> the records of its causal event chain
          client    \* Client -> where its reconcile is

vars == <<record, events, client>>

None == <<>>

(* EffectIntentPhase; the last three are terminal. *)
Phase    == {"prepared", "result_recorded", "reconciled",
             "consumed", "not_applied", "indeterminate"}
Terminal == {"consumed", "not_applied", "indeterminate"}

Certainty  == {"no_effect", "confirmed", "rejected", "indeterminate"}
Resolved   == {"no_effect", "confirmed", "rejected"}
Consumable == {"confirmed", "rejected"}

Receipt == [request : Request, certainty : Certainty, mark : Mark]

(* The intent of an identity: the request it was prepared for, and whether it is
   one of those that have a scope to themselves (service starts do not). *)
Record == [request     : Request,
           scoped      : BOOLEAN,
           phase       : Phase,
           effect      : Receipt \cup {None},
           snapshot    : Snapshot \cup {None},
           consumption : Completion \cup {None}]

Idle == [at |-> "idle"]

Init ==
  /\ record = [i \in Id |-> None]
  /\ events = [i \in Id |-> <<>>]
  /\ client = [c \in Client |-> Idle]

-----------------------------------------------------------------------------
(* The transition algebra. *)

Certain(r, certainties) == r.effect # None /\ r.effect.certainty \in certainties

(* _require_request and _require_bound_effect. *)
BoundTo(r, request, effect) ==
  r.request = request /\ (effect # None => effect.request = request)

(* effect_transition to result_recorded or reconciled.  A record that is there
   already, or reconciled, only answers to the same result. *)
EffectTransition(r, target, request, effect, snapshot) ==
  LET settled == r.phase \in {target, "reconciled"}
      same    == r.effect = effect /\ r.snapshot = snapshot
      open    == r.phase = "prepared" \/ (target = "reconciled" /\ r.phase = "result_recorded")
  IN  IF ~BoundTo(r, request, effect) THEN {}
      ELSE IF settled THEN (IF same THEN {r} ELSE {})
      ELSE IF open
           THEN {[r EXCEPT !.phase = target, !.effect = effect, !.snapshot = snapshot]}
           ELSE {}

(* Mutant: any recorded result may be consumed. *)
ConsumableAnyway(r) == TRUE

(* require_consumable_effect. *)
RequireConsumable(r) == Certain(r, Consumable)

(* consumed_transition. *)
ConsumedTransition(r, request, completion) ==
  IF r.request # request THEN {}
  ELSE IF r.phase = "consumed" THEN (IF r.consumption = completion THEN {r} ELSE {})
  ELSE IF r.phase \in {"result_recorded", "reconciled"} /\ RequireConsumable(r)
       THEN {[r EXCEPT !.phase = "consumed", !.consumption = completion]}
       ELSE {}

(* indeterminate_transition. *)
IndeterminateTransition(r, request, effect) ==
  IF effect.certainty # "indeterminate" \/ ~BoundTo(r, request, effect) THEN {}
  ELSE IF r.phase = "indeterminate" THEN (IF r.effect = effect THEN {r} ELSE {})
  ELSE IF r.phase \in Terminal THEN {}
       ELSE {[r EXCEPT !.phase = "indeterminate", !.effect = effect]}

(* Mutant: a resolved record takes any proof. *)
CompatibleAnyway(r, proof) == TRUE

(* require_not_applied_compatible: a resolved record only takes the proof it has. *)
NotAppliedCompatible(r, proof) == Certain(r, Resolved) => r.effect = proof

(* not_applied_transition. *)
NotAppliedTransition(r, request, effect) ==
  IF effect.certainty # "no_effect" \/ ~BoundTo(r, request, effect) THEN {}
  ELSE IF r.phase = "not_applied" THEN (IF r.effect = effect THEN {r} ELSE {})
  ELSE IF r.phase \notin Terminal /\ NotAppliedCompatible(r, effect)
       THEN {[r EXCEPT !.phase = "not_applied", !.effect = effect]}
       ELSE {}

-----------------------------------------------------------------------------
(* Operations of the journal, each one write transaction. *)

(* read_event_head: the newest event of a chain. *)
EventHead(chain) == chain[Len(chain)]

(* Mutant: only the first event of a transaction reaches the chain. *)
AppendFirst(i, rows) ==
  /\ record' = [record EXCEPT ![i] = EventHead(rows)]
  /\ events' = [events EXCEPT ![i] = Append(@, Head(rows))]

(* A transaction that writes rows: the last is the record, each has its event. *)
Commit(i, rows) ==
  /\ record' = [record EXCEPT ![i] = EventHead(rows)]
  /\ events' = [events EXCEPT ![i] = @ \o rows]

Write(i, rows) == Commit(i, rows) /\ UNCHANGED client

NewRecord(request, scoped) ==
  [request |-> request, scoped |-> scoped, phase |-> "prepared", effect |-> None,
   snapshot |-> None, consumption |-> None]

(* prepare.  Preparing what is there returns it, or raises when the request is
   another one: nothing is written. *)
Prepare(i, request) ==
  /\ record[i] = None
  /\ Write(i, <<NewRecord(request, FALSE)>>)

Unresolved(i) == record[i] # None /\ record[i].phase \notin Terminal

(* Mutant: an effect whose result is recorded no longer bars its scope. *)
ClearOfPrepared(i) ==
  \A j \in Id \ {i} : Scope[j] = Scope[i] /\ Unresolved(j) => record[j].phase # "prepared"

(* No other intent of the scope is unresolved (unresolved_for_scope). *)
ScopeClear(i) == \A j \in Id \ {i} : Scope[j] = Scope[i] => ~Unresolved(j)

(* prepare_scoped. *)
PrepareScoped(i, request) ==
  /\ ScopeClear(i)
  /\ record[i] = None
  /\ Write(i, <<NewRecord(request, TRUE)>>)

(* _transition: the record is written when the transition returned a new one. *)
Apply(i, desired) ==
  /\ record[i] # None
  /\ \E r \in desired : r # record[i] /\ Write(i, <<r>>)

RecordResult(i, request, effect, snapshot) ==
  /\ record[i] # None
  /\ Apply(i, EffectTransition(record[i], "result_recorded", request, effect, snapshot))

RecordReconciled(i, request, effect, snapshot) ==
  /\ record[i] # None
  /\ Apply(i, EffectTransition(record[i], "reconciled", request, effect, snapshot))

RecordConsumed(i, request, completion) ==
  /\ record[i] # None
  /\ Apply(i, ConsumedTransition(record[i], request, completion))

RecordNotApplied(i, request, effect) ==
  /\ record[i] # None
  /\ Apply(i, NotAppliedTransition(record[i], request, effect))

RecordIndeterminate(i, request, effect) ==
  /\ record[i] # None
  /\ Apply(i, IndeterminateTransition(record[i], request, effect))

(* The terminal transition that the certainty of the receipt calls for; evidence
   of consumption is required for a resolved effect and refused for the others. *)
TerminalTransition(r, request, effect, completion) ==
  CASE effect.certainty \in Consumable /\ completion # None ->
         ConsumedTransition(r, request, completion)
    [] effect.certainty = "no_effect" /\ completion = None ->
         NotAppliedTransition(r, request, effect)
    [] effect.certainty = "indeterminate" /\ completion = None ->
         IndeterminateTransition(r, request, effect)
    [] OTHER -> {}

(* record_terminal_result: the result and the terminal state in one transaction.
   On a terminal record it only compares. *)
RecordTerminalResult(i, request, effect, snapshot, completion) ==
  /\ Unresolved(i)
  /\ \E result \in EffectTransition(record[i], "result_recorded", request, effect, snapshot) :
       \E final \in TerminalTransition(result, request, effect, completion) :
         Write(i, IF result = record[i] THEN <<final>> ELSE <<result, final>>)

-----------------------------------------------------------------------------
(* EffectReconciliationService.reconcile *)

(* load reads the row ... *)
LoadRow(c, i) ==
  /\ client[c].at = "idle"
  /\ record[i] # None
  /\ client' = [client EXCEPT ![c] = [at |-> "row", id |-> i, row |-> record[i]]]
  /\ UNCHANGED <<record, events>>

(* ... then the head event; it raises when the two disagree.  A record that is
   terminal or reconciled is answered from the journal. *)
LoadHead(c) ==
  /\ client[c].at = "row"
  /\ LET row == client[c].row
         to  == IF EventHead(events[client[c].id]) # row THEN "diverged"
                ELSE IF row.phase \in {"prepared", "result_recorded"} THEN "asking"
                ELSE "idle"
     IN  client' = [client EXCEPT ![c] = IF to = "idle" THEN Idle ELSE [@ EXCEPT !.at = to]]
  /\ UNCHANGED <<record, events>>

(* What reconcile does with a proof: the disposition chooses the operation. *)
Proved(r, disposition, effect) ==
  CASE disposition = "unknown" -> IndeterminateTransition(r, r.request, effect)
    [] disposition = "not_applied" \/ (disposition = "rejected" /\ effect.certainty = "no_effect") ->
         NotAppliedTransition(r, r.request, effect)
    [] OTHER -> EffectTransition(r, "reconciled", r.request, effect, None)

(* The provider answers and the answer is written, to whatever record is there by
   now; the call returns, or raises when the record does not take the answer. *)
Reconcile(c, disposition, effect) ==
  /\ client[c].at = "asking"
  /\ effect.request = client[c].row.request
  /\ LET i    == client[c].id
         next == Proved(record[i], disposition, effect) \ {record[i]}
     IN  IF next = {} THEN UNCHANGED <<record, events>>
         ELSE \E r \in next : Commit(i, <<r>>)
  /\ client' = [client EXCEPT ![c] = Idle]

(* reconcile raises: the provider failed, its proof is not acceptable, or load
   found a divergence; or the process dies. *)
Abandon(c) ==
  /\ client[c].at # "idle"
  /\ client' = [client EXCEPT ![c] = Idle]
  /\ UNCHANGED <<record, events>>

Disposition == {"applied", "rejected", "not_applied", "unknown"}

Next ==
  \/ \E i \in Id, q \in Request : Prepare(i, q) \/ PrepareScoped(i, q)
  \/ \E i \in Id, q \in Request, e \in Receipt \cup {None}, s \in Snapshot \cup {None} :
       RecordResult(i, q, e, s)
  \/ \E i \in Id, q \in Request, e \in Receipt, s \in Snapshot \cup {None} :
       \/ RecordReconciled(i, q, e, s)
       \/ \E w \in Completion \cup {None} : RecordTerminalResult(i, q, e, s, w)
  \/ \E i \in Id, q \in Request, e \in Receipt :
       RecordNotApplied(i, q, e) \/ RecordIndeterminate(i, q, e)
  \/ \E i \in Id, q \in Request, w \in Completion : RecordConsumed(i, q, w)
  \/ \E c \in Client, i \in Id : LoadRow(c, i)
  \/ \E c \in Client : LoadHead(c) \/ Abandon(c)
  \/ \E c \in Client, d \in Disposition, e \in Receipt : Reconcile(c, d, e)

Spec == Init /\ [][Next]_vars

-----------------------------------------------------------------------------
(* Every variable has its type. *)
TypeOK ==
  /\ record \in [Id -> Record \cup {None}]
  /\ \A i \in Id : \A k \in DOMAIN events[i] : events[i][k] \in Record
  /\ \A c \in Client :
       \/ client[c] = Idle
       \/ /\ client[c].at \in {"row", "asking", "diverged"}
          /\ client[c].id \in Id
          /\ client[c].row \in Record

(* load reads row and head event one after the other, so it may report a
   divergence of a healthy journal; but only when the record moved on in between,
   and a caller that loads again gets its answer. *)
DivergenceMeansMoved ==
  \A c \in Client : client[c].at = "diverged" => record[client[c].id] # client[c].row

(* The row of an intent is the subject of the head of its event chain, whatever
   operations, of one transition or of two, wrote it (what
   verify_projection_rebuild checks), and a load that sees them differ has
   met a record that moved. *)
ProjectionIsHead ==
  /\ TypeOK /\ DivergenceMeansMoved
  /\ \A i \in Id : record[i] = IF events[i] = <<>> THEN None ELSE EventHead(events[i])

(* prepare_scoped lets at most one effect of a run and lifetime be unresolved. *)
OneUnresolvedPerScope ==
  \A i, j \in Id :
    i # j /\ Scope[i] = Scope[j] /\ Unresolved(i) /\ Unresolved(j) =>
      ~(record[i].scoped /\ record[j].scoped)

(* A terminal state is backed by the evidence it requires, even when the receipt
   was recorded by one caller and the state by another. *)
TerminalEvidence ==
  \A i \in Id : record[i] # None =>
    /\ record[i].phase = "consumed"      => Certain(record[i], Consumable) /\ record[i].consumption # None
    /\ record[i].phase = "not_applied"   => Certain(record[i], {"no_effect"})
    /\ record[i].phase = "indeterminate" => Certain(record[i], {"indeterminate"})

(* No operation, retried or late, changes a terminal record or adds to its
   chain.  A receipt that says the effect was applied or rejected is not
   replaced by a not-applied proof, however late it arrives, nor by anything
   but the one reconciliation of a recorded result, or a late unknown answer,
   which makes the record indeterminate. *)
TerminalFinal ==
  [][\A i \in Id : record[i] # None =>
       /\ record[i].phase \in Terminal => record'[i] = record[i] /\ events'[i] = events[i]
       /\ Certain(record[i], Consumable) =>
            /\ record'[i].phase # "not_applied"
            /\ \/ record'[i].effect = record[i].effect
               \/ record[i].phase = "result_recorded" /\ record'[i].phase = "reconciled"
               \/ record'[i].phase = "indeterminate"]_vars
=============================================================================
