------------------------ MODULE WorkspaceRealization ------------------------
(***************************************************************************)
(* One workspace of LocalWorkspaceManager: allocate_workspace and          *)
(* remove_workspace, each a call of UniversalResourceAuthority.reconcile   *)
(* that plans from the durable claims, tickets and bindings and executes   *)
(* the plan one durable step at a time through WorkspacePhysicalProvider.  *)
(* A file lock lets one call run at a time; the process may crash between  *)
(* any two steps, the host may reboot, the scope that owns the workspace   *)
(* may end at any moment, and the directory may be deleted from outside.   *)
(*                                                                         *)
(* A claim's identity is a digest of the resource and of the metadata, not *)
(* of the generation, so each metadata value has at most one claim row,    *)
(* hence at most one ticket, ever.  The garbage-collection proof that a    *)
(* removal carries is taken to be the same on every retry.                 *)
(***************************************************************************)
EXTENDS Naturals, Sequences, FiniteSets, SequencesExt

CONSTANTS Meta,       \* metadata documents: owner and note of the workspace
          MaxFaults,  \* bound: crashes, reboots, deletions, scope ends, races
          MaxGen      \* bound: generations spent on a directory without metadata

VARIABLES gen,     \* generation of the workspace's key, 0 without a row
          claim,   \* metadata -> the row of its active claim
          ticket,  \* metadata -> the state of its realization ticket
          bound,   \* the metadata whose ticket has a binding row
          obs,     \* metadata -> the last observation recorded of its ticket
          tgen,    \* generation of the terminal key
          tclaim,  \* metadata -> the row of its terminal claim
          boot,    \* generation of the scopes: every reboot moves it on
          fenced,  \* has the authority noticed the last reboot?
          scope,   \* is the owning scope's lease live?
          path,    \* the workspace directory: "absent", "bare" or its metadata
          quar,    \* metadata -> its ticket's quarantined directory
          op,      \* the call that holds the file lock
          faults,
          deleted  \* history: was the directory ever deleted from outside?

store == <<gen, claim, ticket, bound, obs, tgen, tclaim, boot, fenced>>
harm  == <<faults, deleted>>
vars  == <<store, scope, path, quar, op, harm>>

NoClaim == [state |-> "none", gen |-> 0, scope |-> 0]
Claim   == [state : {"none", "active", "released"}, gen : Nat, scope : Nat]

Idle == [call |-> "none", meta |-> {}, cut |-> 0, pc |-> "idle", plan |-> <<>>,
         seen |-> <<>>, lost |-> FALSE, why |-> "none"]

Init ==
  /\ gen = 0 /\ tgen = 0 /\ boot = 1 /\ fenced = TRUE
  /\ claim = [m \in Meta |-> NoClaim] /\ tclaim = [m \in Meta |-> NoClaim]
  /\ ticket = [m \in Meta |-> "none"] /\ bound = {}
  /\ obs = [m \in Meta |-> "none"]
  /\ scope = TRUE
  /\ path = "absent" /\ quar = [m \in Meta |-> "none"]
  /\ op = Idle
  /\ faults = 0 /\ deleted = FALSE

-----------------------------------------------------------------------------
(* What the authority's rows say.                                          *)

Active       == {m \in Meta : claim[m].state = "active"}
Current      == {m \in Active : claim[m].gen = gen}
Unretired    == {m \in Meta : ticket[m] \in {"prepared", "bound", "retiring"}}
CurrentTickets == {m \in Unretired : claim[m].gen = gen}
Terminal     == {m \in Meta : tclaim[m].state = "active" /\ tclaim[m].gen = tgen}

(* _require_live_claim_owner_locked: the scope's generation and lease. *)
OwnerLive(m) == claim[m].scope = boot /\ scope

(* Mutant: a ticket does not protect its claim. *)
UnownedAt(b) == {m \in Active : ~ (claim[m].scope = b /\ scope)}

(* The claims an orphan sweep releases, at scope generation b: their owner is
   dead and no unretired ticket of their generation protects them. *)
OrphansAt(b) == {m \in Active \ Unretired : ~ (claim[m].scope = b /\ scope)}
TOrphansAt(b) == {m \in Meta : tclaim[m].state = "active" /\ tclaim[m].scope # b}

Released(rows, M) == [m \in Meta |-> IF m \in M THEN [rows[m] EXCEPT !.state = "released"]
                                     ELSE rows[m]]

(* A reboot is noticed by the first reading of the clock. *)
FenceReboot == IF fenced THEN UNCHANGED <<gen, tgen, boot, fenced>>
               ELSE /\ gen' = IF gen = 0 THEN 0 ELSE gen + 1
                    /\ tgen' = IF tgen = 0 THEN 0 ELSE tgen + 1
                    /\ boot' = boot + 1
                    /\ fenced' = TRUE

-----------------------------------------------------------------------------
(* The provider.                                                           *)

(* observe, given the ticket: it reads the metadata of what it finds. *)
ObserveTicket(m) ==
  CASE path # "absent" /\ quar[m] # "none" -> "both"
    [] path # "absent" /\ path # m         -> "foreign"
    [] path = m -> IF ticket[m] = "retiring" THEN "unready" ELSE "live"
    [] quar[m] # "none" -> "quarantine"
    [] OTHER -> "absent"

(* observe, given an identity observed before: it only looks whether the
   identity's directory is there. *)
ObserveIdentity(m) ==
  IF obs[m] = "quarantine"
  THEN IF quar[m] = "none" THEN "absent" ELSE "quarantine"
  ELSE IF path = "absent" THEN "absent" ELSE "live"

(* _provider_reference: the last identity observed, else the one bound in the
   current generation, else the ticket. *)
Observed(m) ==
  IF \/ obs[m] \in {"live", "quarantine"}
     \/ obs[m] \in {"none", "absent"} /\ m \in bound /\ claim[m].gen = gen
  THEN ObserveIdentity(m) ELSE ObserveTicket(m)

Broken == {"both", "foreign"}

(* What record_observation keeps of an observation. *)
Identity(o) == IF o = "unready" THEN "live" ELSE o

-----------------------------------------------------------------------------
(* ResourceReconciliationPlanner.plan for the one node of the topology, from
   the observation o of the current ticket, "none" without one.             *)

Act(kind, m) == [kind |-> kind, meta |-> m]

Converged(o) == Current # {} /\ Current \subseteq bound /\ o = "live"

(* _recoverable_without_fence. *)
Recoverable(o) ==
  /\ Current # {}
  /\ \A t \in CurrentTickets : \/ ticket[t] = "prepared"
                               \/ ticket[t] = "bound" /\ Converged(o)

Build == <<Act("prepare", "any"), Act("realize", "any"), Act("bind", "any")>>

Each(F(_), s) == FlattenSeq([i \in DOMAIN s |-> F(s[i])])

(* RETIRE and CONFIRM_ABSENT, the youngest generation first. *)
RetireAll  == Each(LAMBDA m : <<Act("retire", m), Act("confirm", m)>>,
                   SetToSortSeq(Unretired, LAMBDA a, b : claim[a].gen > claim[b].gen))
ReleaseAll == Each(LAMBDA m : <<Act("release", m)>>, SetToSeq(Active))

(* The fence first, then the physical effects, then the claims. *)
Retirement == <<Act("advance", "any")>> \o RetireAll \o ReleaseAll

Plan(wanted, o) ==
  LET residue == Active \cup Unretired # {}
      retire  == residue /\ (wanted => ~ Converged(o) /\ ~ Recoverable(o))
      claimed == IF Current = {} THEN <<Act("acquire", "any")>> ELSE <<>>
  IN (IF retire THEN Retirement ELSE <<>>)
       \o (CASE ~ wanted \/ Converged(o) -> <<>>
             [] wanted /\ ~ Converged(o) /\ retire -> <<Act("acquire", "any")>> \o Build
             [] wanted /\ ~ Converged(o) /\ ~ retire ->
                  claimed \o IF CurrentTickets = {} THEN Build
                             ELSE LET t == CHOOSE t \in CurrentTickets : TRUE
                                  IN IF o = "live" THEN <<Act("bind", t)>>
                                     ELSE <<Act("realize", t), Act("bind", t)>>)

-----------------------------------------------------------------------------
(* The calls.                                                              *)

Goto(l)  == op' = [op EXCEPT !.pc = l]
Raise(w) == op' = [op EXCEPT !.pc = "done", !.why = w, !.plan = <<>>, !.seen = <<>>]

(* The rest of the plan, or the next round. *)
NextAction == op' = [op EXCEPT !.plan = Tail(@), !.lost = FALSE,
                               !.pc = IF Len(op.plan) = 1 THEN "plan" ELSE "act"]
Replan     == op' = [op EXCEPT !.plan = <<>>, !.lost = FALSE, !.pc = "plan"]

Begin(call, m, l, w) ==
  op' = [Idle EXCEPT !.call = call, !.meta = {m}, !.cut = boot, !.pc = l, !.why = w]

(* Mutant: the terminal claim is not looked at. *)
AllocateRetired(m) ==
  /\ op = Idle /\ scope /\ fenced
  /\ Begin("allocate", m, IF Current \ {m} # {} THEN "done" ELSE "recover", "none")
  /\ UNCHANGED <<store, scope, path, quar, harm>>

(* allocate_workspace up to its reconcile.  The cut of the scope needs a live
   lease, so it has read the clock. *)
AllocateWorkspace(m) ==
  /\ op = Idle /\ (path = "bare" => gen < MaxGen)
  /\ scope /\ fenced
  /\ CASE Terminal # {} -> Begin("allocate", m, "done", "retired identity")
       [] Terminal = {} /\ Current \ {m} # {} -> Begin("allocate", m, "done", "other metadata")
       [] OTHER -> Begin("allocate", m, "recover", "none")
  /\ UNCHANGED <<store, scope, path, quar, harm>>

(* Mutant: a removal is not resumed from the terminal claim alone. *)
RemoveCurrent ==
  /\ op = Idle /\ (path = "bare" => gen < MaxGen)
  /\ \E m \in Current : Begin("remove", m, IF Terminal = {} THEN "publish" ELSE "recover", "none")
  /\ UNCHANGED <<store, scope, path, quar, harm>>

(* remove_workspace up to its first reconcile.  The cut of the platform scope
   reads no clock. *)
RemoveWorkspace ==
  /\ op = Idle /\ (path = "bare" => gen < MaxGen)
  /\ \E m \in IF Current # {} THEN Current ELSE Terminal :
       Begin("remove", m, IF Terminal = {} THEN "publish"
                          ELSE IF m \in Terminal THEN "recover" ELSE "done",
             IF Terminal # {} /\ m \notin Terminal THEN "drift" ELSE "none")
  /\ UNCHANGED <<store, scope, path, quar, harm>>

Doing(call, l) == op.call = call /\ op.pc = l
TheMeta == CHOOSE m \in Meta : op.meta = {m}

(* The reconcile that publishes the terminal claim: its orphan sweep. *)
PublishRecover ==
  /\ Doing("remove", "publish")
  /\ FenceReboot
  /\ tclaim' = Released(tclaim, TOrphansAt(boot'))
  /\ Goto("publish admit")
  /\ UNCHANGED <<claim, ticket, bound, obs, scope, path, quar, harm>>

(* A key without a generation gets its first, and the round starts again. *)
PublishGeneration ==
  /\ Doing("remove", "publish admit") /\ tgen = 0
  /\ tgen' = 1
  /\ UNCHANGED <<gen, claim, ticket, bound, obs, tclaim, boot, fenced, scope, path, quar, op, harm>>

(* admit_bundle of the terminal claim; a retried conflict stays a conflict. *)
PublishAdmit ==
  /\ Doing("remove", "publish admit") /\ tgen > 0
  /\ IF op.cut # boot THEN Raise("scope") /\ UNCHANGED tclaim
     ELSE IF tclaim[TheMeta].state # "none" THEN Raise("claim identity used") /\ UNCHANGED tclaim
     ELSE /\ tclaim' = [tclaim EXCEPT ![TheMeta] =
                          [state |-> "active", gen |-> tgen, scope |-> op.cut]]
          /\ Goto("recover")
  /\ UNCHANGED <<gen, claim, ticket, bound, obs, tgen, boot, fenced, scope, path, quar, harm>>

(* reconcile starts with the orphans of its topology. *)
Recover ==
  /\ op.pc = "recover"
  /\ FenceReboot
  /\ claim' = Released(claim, OrphansAt(boot'))
  /\ Goto("plan")
  /\ UNCHANGED <<ticket, bound, obs, tclaim, scope, path, quar, harm>>

(* A round: observe the current ticket, record it, plan.  A converged plan
   ends the reconcile, a repeated fingerprint is refused, and a key without
   a generation gets its first before anything is claimed. *)
PlanRound ==
  /\ op.pc = "plan"
  /\ \E o \in IF CurrentTickets = {} THEN {"none"} ELSE {Observed(m) : m \in CurrentTickets} :
       LET wanted == op.call = "allocate"
           plan   == Plan(wanted, o)
           mark   == <<gen, claim, ticket, bound, o>>
       IN /\ obs' = [m \in Meta |-> IF m \in CurrentTickets /\ o \notin Broken
                                    THEN Identity(o) ELSE obs[m]]
          /\ CASE o \in Broken -> Raise(IF o = "both" THEN "drift" ELSE "carrier")
               [] o \notin Broken /\ plan = <<>> -> op' = [op EXCEPT !.pc = "final", !.seen = <<>>]
               [] o \notin Broken /\ plan # <<>> /\ mark \in ToSet(op.seen) -> Raise("fixed point")
               [] OTHER -> op' = [op EXCEPT !.seen = Append(@, mark),
                                            !.plan = IF gen = 0 THEN <<>> ELSE plan,
                                            !.pc = IF gen = 0 THEN "plan" ELSE "act"]
          /\ gen' = IF gen = 0 THEN 1 ELSE gen
  /\ UNCHANGED <<claim, ticket, bound, tgen, tclaim, boot, fenced, scope, path, quar, harm>>

Acting(kind) == op.pc = "act" /\ op.plan # <<>> /\ Head(op.plan).kind = kind

(* The ticket an action names, or the current one. *)
Subject == IF Head(op.plan).meta # "any" THEN {Head(op.plan).meta} ELSE CurrentTickets

(* advance_generation. *)
AdvanceGeneration ==
  /\ Acting("advance")
  /\ gen' = gen + 1
  /\ NextAction
  /\ UNCHANGED <<claim, ticket, bound, obs, tgen, tclaim, boot, fenced, scope, path, quar, harm>>

(* The environment's budget. *)
Fault == faults < MaxFaults /\ faults' = faults + 1 /\ UNCHANGED deleted

(* Mutant: a conflict is retried though nothing has changed. *)
AcquireRetrying ==
  /\ Acting("acquire")
  /\ IF op.cut = boot /\ scope /\ claim[TheMeta].state = "none"
     THEN /\ claim' = [claim EXCEPT ![TheMeta] =
                         [state |-> "active", gen |-> gen, scope |-> op.cut]]
          /\ NextAction
     ELSE op' = [op EXCEPT !.plan = <<>>, !.pc = "plan", !.seen = Front(@)] /\ UNCHANGED claim
  /\ UNCHANGED <<gen, ticket, bound, obs, tgen, tclaim, boot, fenced, scope, path, quar, harm>>

(* admit_first or admit_bundle of the candidate.  A conflict starts another
   round when the authority's snapshot has changed meanwhile, by unrelated
   work, and is raised otherwise. *)
AcquireClaim ==
  /\ Acting("acquire")
  /\ IF ~ (op.cut = boot /\ scope) \/ (Current # {} /\ Current # op.meta)
     THEN /\ UNCHANGED claim
          /\ \/ Raise("scope") /\ UNCHANGED harm
             \/ Fault /\ op' = [op EXCEPT !.plan = <<>>, !.pc = "plan", !.seen = Front(@)]
     ELSE /\ UNCHANGED harm
          /\ IF Current # {} THEN NextAction /\ UNCHANGED claim
             ELSE IF claim[TheMeta].state # "none" THEN Raise("claim identity used") /\ UNCHANGED claim
             ELSE /\ claim' = [Released(claim, OrphansAt(boot)) EXCEPT ![TheMeta] =
                                 [state |-> "active", gen |-> gen, scope |-> op.cut]]
                  /\ NextAction
  /\ UNCHANGED <<gen, ticket, bound, obs, tgen, tclaim, boot, fenced, scope, path, quar>>

(* prepare_realization: the ticket's identity is that of the claim and of the
   spec, so a ticket retired before is found again and stays retired. *)
Prepare ==
  /\ Acting("prepare")
  /\ IF Current = {} THEN Raise("lost") /\ UNCHANGED ticket
     ELSE IF Unretired \ CurrentTickets # {} THEN Raise("drift") /\ UNCHANGED ticket
     ELSE /\ ticket' = [m \in Meta |-> IF m \in Current /\ ticket[m] = "none"
                                       THEN "prepared" ELSE ticket[m]]
          /\ NextAction
  /\ UNCHANGED <<gen, claim, bound, obs, tgen, tclaim, boot, fenced, scope, path, quar, harm>>

Owned == Current # {} /\ \A m \in Current : OwnerLive(m)

(* begin_retire. *)
Retiring(m) == [ticket EXCEPT ![m] = IF @ = "retired" THEN @ ELSE "retiring"]

(* The ownership test before REALIZE and BIND: a ticket whose owner is gone
   begins its retirement at once. *)
Check(l) ==
  /\ IF Subject = {} THEN Raise("lost") /\ UNCHANGED ticket
     ELSE IF Owned THEN Goto(l) /\ UNCHANGED ticket
     ELSE \E m \in Subject : /\ ticket' = Retiring(m)
                             /\ op' = [op EXCEPT !.plan[1].meta = m, !.lost = TRUE, !.pc = "rename"]
  /\ UNCHANGED <<gen, claim, bound, obs, tgen, tclaim, boot, fenced, scope, path, quar, harm>>

CheckRealize == Acting("realize") /\ Check("carrier")
CheckBind    == Acting("bind") /\ Check("binding")
CheckAfter   == op.pc = "realized" /\ IF Owned THEN NextAction /\ UNCHANGED <<store, scope, path, quar, harm>>
                                      ELSE Check("none")

(* realize: a directory that carries the metadata is taken as it is. *)
MakeCarrier ==
  /\ op.pc = "carrier"
  /\ \E m \in Subject :
       CASE quar[m] # "none"                 -> Raise("drift") /\ UNCHANGED path
         [] quar[m] = "none" /\ path = m     -> Goto("realized") /\ UNCHANGED path
         [] quar[m] = "none" /\ path = "bare" -> Goto("metadata") /\ UNCHANGED path
         [] quar[m] = "none" /\ path = "absent" -> Goto("metadata") /\ path' = "bare"
         [] OTHER                            -> Raise("drift") /\ UNCHANGED path
  /\ UNCHANGED <<store, scope, quar, harm>>

WriteMetadata ==
  /\ op.pc = "metadata"
  /\ IF path = "absent" THEN Raise("not ready") /\ UNCHANGED path
     ELSE (\E m \in Subject : path' = m) /\ Goto("realized")
  /\ UNCHANGED <<store, scope, quar, harm>>

(* bind re-proves the owner under the writer, and requires what the provider
   now observes of the ticket to be ready. *)
Bind ==
  /\ op.pc = "binding"
  /\ \E m \in Subject :
       IF ~ Owned THEN Raise("scope") /\ UNCHANGED <<ticket, bound, obs>>
       ELSE IF ObserveTicket(m) # "live"
         THEN /\ Raise(CASE ObserveTicket(m) = "both" -> "drift"
                         [] ObserveTicket(m) = "foreign" -> "carrier"
                         [] OTHER -> "not ready")
              /\ UNCHANGED <<ticket, bound, obs>>
       ELSE /\ ticket' = [ticket EXCEPT ![m] = "bound"]
            /\ bound' = bound \cup {m}
            /\ obs' = [obs EXCEPT ![m] = "live"]
            /\ NextAction
  /\ UNCHANGED <<gen, claim, tgen, tclaim, boot, fenced, scope, path, quar, harm>>

(* RETIRE begins with begin_retire. *)
BeginRetire ==
  /\ Acting("retire")
  /\ ticket' = Retiring(Head(op.plan).meta)
  /\ Goto("rename")
  /\ UNCHANGED <<gen, claim, bound, obs, tgen, tclaim, boot, fenced, scope, path, quar, harm>>

(* retire: the directory moves to the ticket's quarantine, or one that moved
   before is taken up again. *)
Rename ==
  /\ op.pc = "rename"
  /\ \E m \in Subject :
       CASE path # "absent" /\ quar[m] # "none" -> Raise("drift") /\ UNCHANGED <<path, quar>>
         [] path # "absent" /\ quar[m] = "none" /\ path # m ->
              Raise("carrier") /\ UNCHANGED <<path, quar>>
         [] path = m /\ quar[m] = "none" -> /\ path' = "absent"
                                            /\ quar' = [quar EXCEPT ![m] = "full"]
                                            /\ Goto("purge")
         [] path = "absent" -> /\ Goto(IF quar[m] = "none" THEN "gone" ELSE "purge")
                               /\ UNCHANGED <<path, quar>>
  /\ UNCHANGED <<store, scope, harm>>

(* _purge_quarantine: the content, the metadata last, then the directory. *)
Purge ==
  /\ op.pc = "purge"
  /\ \E m \in Subject :
       /\ quar' = [quar EXCEPT ![m] = IF @ = "full" THEN "bare" ELSE "none"]
       /\ Goto(IF quar[m] = "full" THEN "purge" ELSE "gone")
  /\ UNCHANGED <<store, scope, path, harm>>

(* complete_retire. *)
Complete(m) == /\ ticket' = [ticket EXCEPT ![m] = "retired"]
               /\ bound' = bound \ {m}

(* After retire: the plan goes on, or a ticket without an owner is completed. *)
Gone ==
  /\ op.pc = "gone"
  /\ \E m \in Subject :
       /\ obs' = [obs EXCEPT ![m] = "absent"]
       /\ IF op.lost THEN Complete(m) /\ Goto("sweep")
          ELSE NextAction /\ UNCHANGED <<ticket, bound>>
  /\ UNCHANGED <<gen, claim, tgen, tclaim, boot, fenced, scope, path, quar, harm>>

SweepAfterLoss ==
  /\ op.pc = "sweep"
  /\ claim' = Released(claim, OrphansAt(boot))
  /\ tclaim' = Released(tclaim, TOrphansAt(boot))
  /\ Replan
  /\ UNCHANGED <<gen, ticket, bound, obs, tgen, boot, fenced, scope, path, quar, harm>>

(* CONFIRM_ABSENT: what is still there starts another round. *)
ConfirmAbsent ==
  /\ Acting("confirm")
  /\ \E m \in Subject : LET o == Observed(m) IN
       /\ obs' = IF o \in Broken THEN obs ELSE [obs EXCEPT ![m] = Identity(o)]
       /\ CASE o \in Broken -> Raise("carrier") /\ UNCHANGED <<ticket, bound>>
            [] o = "absent" -> Complete(m) /\ NextAction
            [] OTHER        -> Replan /\ UNCHANGED <<ticket, bound>>
  /\ UNCHANGED <<gen, claim, tgen, tclaim, boot, fenced, scope, path, quar, harm>>

(* release_claim. *)
ReleaseClaim ==
  /\ Acting("release")
  /\ LET m == Head(op.plan).meta IN
       IF m \in Unretired THEN Raise("drift") /\ UNCHANGED claim
       ELSE claim' = Released(claim, {m}) /\ NextAction
  /\ UNCHANGED <<gen, ticket, bound, obs, tgen, tclaim, boot, fenced, scope, path, quar, harm>>

(* What the manager verifies after its reconcile. *)
Final ==
  /\ op.pc = "final"
  /\ Raise(IF op.call = "remove"
           THEN IF CurrentTickets = {} /\ Current = {} THEN "ok" ELSE "drift"
           ELSE IF Current # op.meta THEN "lost"
           ELSE IF ~ op.meta \subseteq CurrentTickets \/ ticket[TheMeta] # "bound" THEN "drift"
           ELSE CASE ObserveTicket(TheMeta) = "live" -> "ok"
                  [] ObserveTicket(TheMeta) = "both" -> "drift"
                  [] ObserveTicket(TheMeta) = "foreign" -> "carrier"
                  [] OTHER -> "not ready")
  /\ UNCHANGED <<store, scope, path, quar, harm>>

(* The lock is released. *)
Return ==
  /\ op.pc = "done"
  /\ op' = Idle
  /\ UNCHANGED <<store, scope, path, quar, harm>>

-----------------------------------------------------------------------------
(* The environment.                                                        *)

Crash ==
  /\ op # Idle /\ Fault
  /\ op' = Idle
  /\ UNCHANGED <<store, scope, path, quar>>

(* No process and no lease survives. *)
Reboot ==
  /\ Fault
  /\ op' = Idle /\ scope' = FALSE /\ fenced' = FALSE
  /\ UNCHANGED <<gen, claim, ticket, bound, obs, tgen, tclaim, boot, path, quar>>

(* Any other user of the authority reads the clock. *)
NoticeReboot ==
  /\ ~ fenced /\ FenceReboot
  /\ UNCHANGED <<claim, ticket, bound, obs, tclaim, scope, path, quar, op, harm>>

(* reconcile_orphan_claims by any other user of the authority. *)
OrphanSweep ==
  /\ FenceReboot
  /\ claim' = Released(claim, OrphansAt(boot'))
  /\ tclaim' = Released(tclaim, TOrphansAt(boot'))
  /\ UNCHANGED <<ticket, bound, obs, scope, path, quar, op, harm>>

(* The scope's lease runs out or is released, and is acquired again. *)
ScopeEnds ==
  /\ scope /\ Fault
  /\ scope' = FALSE
  /\ UNCHANGED <<store, path, quar, op>>

ScopeOpens ==
  /\ ~ scope /\ fenced
  /\ scope' = TRUE
  /\ UNCHANGED <<store, path, quar, op, harm>>

(* The directory is deleted from outside. *)
Delete ==
  /\ path # "absent" /\ faults < MaxFaults /\ faults' = faults + 1
  /\ path' = "absent" /\ deleted' = TRUE
  /\ UNCHANGED <<store, scope, quar, op>>

Step ==
  \/ PublishRecover \/ PublishGeneration \/ PublishAdmit
  \/ Recover \/ PlanRound \/ AdvanceGeneration \/ AcquireClaim \/ Prepare
  \/ CheckRealize \/ MakeCarrier \/ WriteMetadata \/ CheckAfter
  \/ CheckBind \/ Bind
  \/ BeginRetire \/ Rename \/ Purge \/ Gone \/ SweepAfterLoss
  \/ ConfirmAbsent \/ ReleaseClaim \/ Final \/ Return

Next ==
  \/ \E m \in Meta : AllocateWorkspace(m)
  \/ RemoveWorkspace
  \/ Step
  \/ Crash \/ Reboot \/ NoticeReboot \/ OrphanSweep \/ ScopeEnds \/ ScopeOpens \/ Delete

Spec == Init /\ [][Next]_vars

(* A call that runs goes on, and a removal that was published is retried and
   gets the lock in the end, whoever else calls. *)
FairSpec == Spec /\ WF_vars(Step) /\ SF_vars(Terminal # {} /\ RemoveWorkspace)

-----------------------------------------------------------------------------
(* Every variable has the type of the table, attribute or directory it
   stands for. *)
TypeOK ==
  /\ gen \in Nat /\ tgen \in Nat /\ boot \in Nat \ {0}
  /\ claim \in [Meta -> Claim] /\ tclaim \in [Meta -> Claim]
  /\ ticket \in [Meta -> {"none", "prepared", "bound", "retiring", "retired"}]
  /\ bound \subseteq Meta
  /\ obs \in [Meta -> {"none", "absent", "live", "quarantine"}]
  /\ fenced \in BOOLEAN /\ scope \in BOOLEAN
  /\ path \in {"absent", "bare"} \cup Meta
  /\ quar \in [Meta -> {"none", "full", "bare"}]
  /\ faults \in 0..MaxFaults /\ deleted \in BOOLEAN

(* A bound ticket's directory is there and complete: only a deletion from
   outside takes it away before its retirement has begun. *)
BoundPresent == \A m \in Meta : ticket[m] = "bound" => path = m \/ deleted

(* Nothing physical is left without an owner, and nothing is bound that is not
   there: a directory, live or in quarantine, belongs to an unretired ticket
   whose claim is not released, and at most one ticket is unretired, whatever
   crashed in between. *)
CarrierOwned ==
  /\ TypeOK /\ BoundPresent
  /\ Unretired \subseteq Active
  /\ Cardinality(Unretired) <= 1
  /\ \A m \in Meta : path = m \/ quar[m] # "none" => m \in Unretired
  /\ path = "bare" => Unretired # {}

(* The errors a call may end with: no step ever meets a state that the code
   refuses as drift or as a fixed point.  A metadata value is refused for
   its used claim identity only when its claim was released before, which
   without a fault never happens, and the provider only chokes on a
   directory that a crash left without its metadata. *)
FailsKnown ==
  op.pc = "done" =>
    /\ op.why \notin {"drift", "fixed point"}
    /\ op.why = "claim identity used" =>
         "released" \in {claim[TheMeta].state, tclaim[TheMeta].state}
    /\ op.why = "carrier" => path = "bare" \/ deleted
    /\ faults = 0 => op.why \in {"ok", "retired identity", "other metadata"}

(* What is on disk and on file never diverges, and so no call is ever refused for
   drift between the two. *)
NoDrift == CarrierOwned /\ FailsKnown

(* "workspace identity is retired and cannot be reused": while the terminal
   claim stands, nothing is claimed again and no directory appears. *)
RetiredNotReused ==
  [][Terminal # {} => /\ Current' \subseteq Current
                      /\ path = "absent" => path' = "absent"]_vars

(* Every call ends: reconcile never goes round for ever. *)
CallsReturn == op # Idle ~> op = Idle

(* Nothing is left of the workspace. *)
NothingLeft == /\ path = "absent" /\ \A m \in Meta : quar[m] = "none"
               /\ Active = {} /\ Unretired = {}

(* "Retirement is retryable": once published it converges, however often its
   calls crash, unless a reboot fences the terminal claim first or a crash
   has left a directory without metadata, which no call can take away. *)
RemovalConverges ==
  Terminal # {} ~> NothingLeft \/ ~ fenced \/ Terminal = {} \/ path = "bare"
=============================================================================
