-------------------------- MODULE PythonEnvironment --------------------------
(***************************************************************************)
(* PythonEnvironmentLifecycle for one environment: create, register,       *)
(* remove and borrow over the leases, fence and gate of ResourceLeases.    *)
(* Every change is announced in a transaction journal, and each operation  *)
(* first finishes or rolls back what an earlier one left behind.           *)
(*                                                                         *)
(* The operations run one at a time under a file lock that a crash         *)
(* releases; op is the one that holds it.  Each write to a journal, the    *)
(* registry, the directory or the authority is a step of its own, so that  *)
(* the process may die between any two and borrowers may come in between.  *)
(* What recovery does next follows from what is stored.                    *)
(***************************************************************************)
EXTENDS ResourceLeases

CONSTANTS Env,         \* the environment's resource key
          Retiree,     \* the holder of its retirement gate
          MaxCrashes,  \* bound: processes that die
          MaxDamage    \* bound: deletions by somebody else

ASSUME EnvironmentAssumption ==
  /\ Env \in Shared /\ Retiree \in Holder /\ Own[Retiree] = {}
  /\ \A l \in LeaseId : On[l] = Env
  /\ Never > 0
  /\ MaxCrashes \in Nat /\ MaxDamage \in Nat

VARIABLES txn,      \* the last record of the transaction journal, or none
          reg,      \* the last record of the registry's journal, or none
          root,     \* the managed directory: absent, partial or whole
          op,       \* the operation under way, or none
          user,     \* borrow (a lease id) -> how far it is, or none
          crashes,
          damage    \* deletions so far; history

environmentVars == <<txn, reg, root, op, user, crashes, damage>>
vars == <<leaseVars, environmentVars>>

Owned == {"managed", "external"}

Transaction == [op : {"create", "remove"}, phase : {"prepared", "materialized", "unregistered",
                                                    "committed", "closed"},
                gen : 1..MaxGen, owned : Owned]
Entry == [status : {"registered", "rollback", "retired"}, gen : 1..MaxGen, owned : Owned]
Operation == [want : {"open", "create", "register", "remove", "get"},
              at : {"recover", "act", "build", "finish"},
              by : {None} \cup {<<l>> : l \in LeaseId}]

Init ==
  /\ LeaseInit
  /\ txn = None /\ reg = None /\ root = "absent" /\ op = None
  /\ user = [l \in LeaseId |-> None]
  /\ crashes = 0 /\ damage = 0

-----------------------------------------------------------------------------
Pending    == txn # None /\ txn[1].phase # "closed"
Registered == reg # None /\ reg[1].status = "registered"
At(places) == op # None /\ op[1].at \in places

(* registry.put accepts an entry of generation g. *)
Publishable(g, o) ==
  reg # None =>
    CASE reg[1].status = "registered" -> reg[1].gen = g /\ reg[1].owned = o
      [] reg[1].status = "retired"    -> g > reg[1].gen
      [] reg[1].status = "rollback"   -> g >= reg[1].gen

(* transactions.put accepts a first record of generation g. *)
Preparable(g) == txn # None => txn[1].gen <= g

(* Mutant: closing writes nothing. *)
SetPhaseButClosed(phase) ==
  txn' = IF phase = "closed" THEN txn ELSE <<[txn[1] EXCEPT !.phase = phase]>>

SetPhase(phase) == txn' = <<[txn[1] EXCEPT !.phase = phase]>>
SetStatus(s)    == reg' = <<[reg[1] EXCEPT !.status = s]>>
ClearRoot       == root' = IF root = "whole" THEN "partial" ELSE "absent"

Begin(want, by) ==
  /\ op = None
  /\ op' = <<[want |-> want, at |-> "recover", by |-> by]>>
  /\ UNCHANGED <<leaseVars, txn, reg, root, user, crashes, damage>>

(* _recover_transaction has work it can do: the journal's root is the managed
   one, or this is the remove that wrote it. *)
Recovering == /\ At({"recover", "finish"}) /\ Pending
              /\ op[1].at = "recover" => txn[1].owned = "managed"

-----------------------------------------------------------------------------
(* _recover_create, in the generation of the transaction. *)
Creating == Recovering /\ txn[1].op = "create" /\ gen[Env] = txn[1].gen

(* A create that did not get its directory is taken back. *)
RollingBack == /\ Creating
               /\ \/ txn[1].phase = "prepared"
                  \/ txn[1].phase = "materialized" /\ root # "whole"

RollBackEntry ==
  /\ RollingBack /\ txn[1].phase = "materialized" /\ Registered
  /\ SetStatus("rollback")
  /\ UNCHANGED <<leaseVars, txn, root, op, user, crashes, damage>>

RollBackRoot ==
  /\ RollingBack /\ root # "absent"
  /\ txn[1].phase = "materialized" => ~ Registered
  /\ ClearRoot
  /\ UNCHANGED <<leaseVars, txn, reg, op, user, crashes, damage>>

(* The others are finished. *)
Completing == /\ Creating /\ root = "whole"
              /\ txn[1].phase \in {"materialized", "committed"}

PublishEntry ==
  /\ Completing /\ ~ Registered /\ Publishable(txn[1].gen, txn[1].owned)
  /\ reg' = <<[status |-> "registered", gen |-> txn[1].gen, owned |-> txn[1].owned]>>
  /\ UNCHANGED <<leaseVars, txn, root, op, user, crashes, damage>>

CommitCreate ==
  /\ Completing /\ Registered /\ txn[1].phase = "materialized"
  /\ SetPhase("committed")
  /\ UNCHANGED <<leaseVars, reg, root, op, user, crashes, damage>>

CloseCreate ==
  /\ \/ RollingBack /\ root = "absent" /\ (txn[1].phase = "materialized" => ~ Registered)
     \/ Completing /\ Registered /\ txn[1].phase = "committed"
  /\ SetPhase("closed")
  /\ UNCHANGED <<leaseVars, reg, root, op, user, crashes, damage>>

-----------------------------------------------------------------------------
(* _recover_remove. *)
Removing == Recovering /\ txn[1].op = "remove"

OwnGates == {g \in gates : g.on = Env /\ g.gen = gen[Env] /\ g.holder = Retiree}

FenceEnvironment ==
  /\ Removing /\ gen[Env] = txn[1].gen
  /\ Fence(Env, Retiree, 0)
  /\ UNCHANGED environmentVars

(* Behind its own gate, or done except for closing. *)
Fenced == /\ Removing
          /\ gen[Env] = txn[1].gen + 1
          /\ OwnGates # {} \/ txn[1].phase = "committed"

Retired == reg # None /\ reg[1].status = "retired" /\ reg[1].gen = txn[1].gen

RetireEntry ==
  /\ Fenced /\ Registered /\ reg[1].gen = txn[1].gen
  /\ SetStatus("retired")
  /\ UNCHANGED <<leaseVars, txn, root, op, user, crashes, damage>>

Unregister ==
  /\ Fenced /\ Retired /\ txn[1].phase = "prepared"
  /\ SetPhase("unregistered")
  /\ UNCHANGED <<leaseVars, reg, root, op, user, crashes, damage>>

(* The directory this removal still has to delete. *)
RootLeft == txn[1].owned = "managed" /\ root # "absent"

DeleteRoot ==
  /\ Fenced /\ Retired /\ txn[1].phase # "prepared" /\ RootLeft
  /\ ClearRoot
  /\ UNCHANGED <<leaseVars, txn, reg, op, user, crashes, damage>>

CommitRemove ==
  /\ Fenced /\ Retired /\ txn[1].phase = "unregistered" /\ ~ RootLeft
  /\ SetPhase("committed")
  /\ UNCHANGED <<leaseVars, reg, root, op, user, crashes, damage>>

OpenGate ==
  /\ Fenced /\ Retired /\ txn[1].phase = "committed" /\ ~ RootLeft
  /\ \E g \in OwnGates : ReleaseGate(g)
  /\ UNCHANGED environmentVars

CloseRemove ==
  /\ Fenced /\ Retired /\ txn[1].phase = "committed" /\ ~ RootLeft /\ OwnGates = {}
  /\ SetPhase("closed")
  /\ UNCHANGED <<leaseVars, reg, root, op, user, crashes, damage>>

-----------------------------------------------------------------------------
(* The transaction cannot be recovered, now or ever, because of ... *)
ByGeneration == /\ Pending
                /\ IF txn[1].op = "create" THEN gen[Env] # txn[1].gen
                   ELSE /\ gen[Env] # txn[1].gen
                        /\ ~ (/\ gen[Env] = txn[1].gen + 1
                              /\ OwnGates # {} \/ txn[1].phase = "committed")
ByDamage     == /\ Pending /\ txn[1].op = "create" /\ txn[1].phase = "committed"
                /\ root # "whole"
ByRoot       == Pending /\ txn[1].owned = "external"
ByConsumer   == /\ Pending /\ txn[1].op = "remove" /\ gen[Env] = txn[1].gen
                /\ Consumers(Env, Retiree, 0) # {}

(* Recovery raises, and with it the operation that wanted it. *)
Raise ==
  /\ At({"recover", "finish"})
  /\ \/ ByGeneration \/ ByDamage \/ ByConsumer
     \/ ByRoot /\ op[1].at = "recover"
  /\ op' = None
  /\ UNCHANGED <<leaseVars, txn, reg, root, user, crashes, damage>>

(* Nothing is pending (any more): the operation proper, or its return. *)
Recovered ==
  /\ At({"recover", "finish"}) /\ ~ Pending
  /\ op' = IF op[1].at = "finish" \/ op[1].want = "open" THEN None
           ELSE <<[op[1] EXCEPT !.at = "act"]>>
  /\ UNCHANGED <<leaseVars, txn, reg, root, user, crashes, damage>>

Acting(want) == At({"act"}) /\ op[1].want = want

(* create, register_existing: a resource without a generation gets one. *)
EnsureEnvironment ==
  /\ Acting("create") \/ Acting("register")
  /\ EnsureGeneration(Env)
  /\ UNCHANGED environmentVars

(* create: an entry or a directory that is there ends it (with the entry, if
   it is this very environment). *)
Create ==
  /\ Acting("create") /\ gen[Env] > 0
  /\ IF ~ Registered /\ root = "absent" /\ Preparable(gen[Env])
     THEN /\ txn' = <<[op |-> "create", phase |-> "prepared", gen |-> gen[Env],
                       owned |-> "managed"]>>
          /\ op' = <<[op[1] EXCEPT !.at = "build"]>>
     ELSE op' = None /\ UNCHANGED txn
  /\ UNCHANGED <<leaseVars, reg, root, user, crashes, damage>>

(* backend.create fills the directory. *)
Build ==
  /\ At({"build"}) /\ root # "whole"
  /\ root' = IF root = "absent" THEN "partial" ELSE "whole"
  /\ UNCHANGED <<leaseVars, txn, reg, op, user, crashes, damage>>

Materialize ==
  /\ At({"build"}) /\ root = "whole"
  /\ SetPhase("materialized")
  /\ op' = <<[op[1] EXCEPT !.at = "finish"]>>
  /\ UNCHANGED <<leaseVars, reg, root, user, crashes, damage>>

(* It raises: create recovers its own transaction before it does, too. *)
BuildFails ==
  /\ At({"build"})
  /\ op' = <<[op[1] EXCEPT !.at = "finish"]>>
  /\ UNCHANGED <<leaseVars, txn, reg, root, user, crashes, damage>>

(* register_existing: an entry for a directory of somebody else. *)
RegisterExisting ==
  /\ Acting("register") /\ gen[Env] > 0
  /\ reg' = IF Publishable(gen[Env], "external")
            THEN <<[status |-> "registered", gen |-> gen[Env], owned |-> "external"]>>
            ELSE reg
  /\ op' = None
  /\ UNCHANGED <<leaseVars, txn, root, user, crashes, damage>>

Remove ==
  /\ Acting("remove")
  /\ IF Registered /\ reg[1].gen = gen[Env] /\ gen[Env] < MaxGen
     THEN /\ txn' = <<[op |-> "remove", phase |-> "prepared", gen |-> reg[1].gen,
                       owned |-> reg[1].owned]>>
          /\ op' = <<[op[1] EXCEPT !.at = "finish"]>>
     ELSE op' = None /\ UNCHANGED txn
  /\ UNCHANGED <<leaseVars, reg, root, user, crashes, damage>>

(* get, for a borrower: the entry, if it is of the current generation. *)
Get ==
  /\ Acting("get")
  /\ user' = IF Registered /\ reg[1].gen = gen[Env]
             THEN [user EXCEPT ![op[1].by[1]] = <<[stage |-> "got", gen |-> reg[1].gen]>>]
             ELSE user
  /\ op' = None
  /\ UNCHANGED <<leaseVars, txn, reg, root, crashes, damage>>

-----------------------------------------------------------------------------
(* borrow, after get: a lease of whatever generation is current ... *)
BorrowLease(l) ==
  /\ user[l] # None /\ user[l][1].stage = "got"
  /\ AcquireConsumer(l, None, 0)
  /\ user' = [user EXCEPT ![l] = <<[@[1] EXCEPT !.stage = "leased"]>>]
  /\ UNCHANGED <<txn, reg, root, op, crashes, damage>>

(* ... refused, or the database fails. *)
BorrowRefused(l) ==
  /\ user[l] # None /\ user[l][1].stage = "got"
  /\ user' = [user EXCEPT ![l] = None]
  /\ UNCHANGED <<leaseVars, txn, reg, root, op, crashes, damage>>

(* Mutant: the lease's generation is not compared with the entry's. *)
UsableEver(l) == TRUE

Usable(l) == row[l][1].gen = user[l][1].gen

(* ... compared with the entry, and released if it is of another. *)
BorrowCheck(l) ==
  /\ user[l] # None /\ user[l][1].stage = "leased"
  /\ \/ /\ Usable(l)
        /\ user' = [user EXCEPT ![l] = <<[@[1] EXCEPT !.stage = "using"]>>]
        /\ UNCHANGED leaseVars
     \/ /\ ~ Usable(l)
        /\ ReleaseLease(l)
        /\ user' = [user EXCEPT ![l] = None]
  /\ UNCHANGED <<txn, reg, root, op, crashes, damage>>

BorrowEnds(l) ==
  /\ user[l] # None /\ user[l][1].stage = "using"
  /\ ReleaseLease(l)
  /\ user' = [user EXCEPT ![l] = None]
  /\ UNCHANGED <<txn, reg, root, op, crashes, damage>>

(* The process of the operation dies, and the lock with it. *)
Crash ==
  /\ op # None /\ crashes < MaxCrashes
  /\ op' = None /\ crashes' = crashes + 1
  /\ UNCHANGED <<leaseVars, txn, reg, root, user, damage>>

(* The process of a borrower dies; its lease has no expiry. *)
BorrowerCrash(l) ==
  /\ user[l] # None /\ crashes < MaxCrashes
  /\ user' = [user EXCEPT ![l] = None] /\ crashes' = crashes + 1
  /\ UNCHANGED <<leaseVars, txn, reg, root, op, damage>>

(* The host goes down with every process. *)
HostReboot ==
  /\ Reboot
  /\ op' = None /\ user' = [l \in LeaseId |-> None]
  /\ UNCHANGED <<txn, reg, root, crashes, damage>>

(* Somebody deletes files of the environment, or a power loss took them. *)
Damage ==
  /\ op = None /\ root # "absent" /\ damage < MaxDamage
  /\ ClearRoot /\ damage' = damage + 1
  /\ UNCHANGED <<leaseVars, txn, reg, op, user, crashes>>

RecoveryStep ==
  \/ RollBackEntry \/ RollBackRoot \/ PublishEntry \/ CommitCreate \/ CloseCreate
  \/ FenceEnvironment \/ RetireEntry \/ Unregister \/ DeleteRoot \/ CommitRemove
  \/ OpenGate \/ CloseRemove

OperationStep ==
  \/ RecoveryStep \/ Raise \/ Recovered
  \/ EnsureEnvironment \/ Create \/ Build \/ Materialize \/ BuildFails
  \/ RegisterExisting \/ Remove \/ Get

BorrowStep(l) == BorrowLease(l) \/ BorrowRefused(l) \/ BorrowCheck(l) \/ BorrowEnds(l)

BeginAny ==
  \/ \E want \in {"open", "create", "register", "remove"} : Begin(want, None)
  \/ \E l \in LeaseId : user[l] = None /\ row[l] = None /\ Begin("get", <<l>>)

Next ==
  \/ BeginAny
  \/ OperationStep
  \/ \E l \in LeaseId : BorrowStep(l) \/ BorrowerCrash(l)
  \/ Crash \/ HostReboot \/ Damage

Spec == Init /\ [][Next]_vars

(* An operation goes on until it returns, borrowers come to an end, and there
   is always another operation. *)
Fairness ==
  /\ WF_vars(OperationStep) /\ WF_vars(BeginAny)
  /\ \A l \in LeaseId : WF_vars(BorrowStep(l))

FairSpec == Spec /\ Fairness

-----------------------------------------------------------------------------
(* Every variable has the type of the file or attribute it stands for. *)
TypeOK ==
  /\ LeaseTypeOK
  /\ txn # None => txn[1] \in Transaction
  /\ reg # None => reg[1] \in Entry
  /\ root \in {"absent", "partial", "whole"}
  /\ op # None => op[1] \in Operation
  /\ \A l \in LeaseId : user[l] # None =>
       user[l][1] \in [stage : {"got", "leased", "using"}, gen : 1..MaxGen]

(* Whoever is inside borrow has the environment of the entry it was given:
   registered, of the current generation and with its directory, though
   removals and creations go on in other processes. *)
InUseIntact ==
  /\ TypeOK
  /\ \A l \in LeaseId : user[l] # None /\ user[l][1].stage = "using" =>
       /\ Registered /\ reg[1].gen = user[l][1].gen /\ gen[Env] = reg[1].gen
       /\ reg[1].owned = "managed" => root = "whole" \/ damage > 0

(* When no transaction is pending the directory is there exactly when the
   registry says so: nothing half built and nothing half deleted remains,
   whatever step a process died at. *)
Settled ==
  ~ Pending /\ damage = 0 =>
    (root = "whole") = (Registered /\ reg[1].owned = "managed") /\ root # "partial"

(* The environment answers to both its users: it is intact for whoever is inside
   borrow, and settled for whoever comes when no transaction is pending. *)
EnvironmentSound == InUseIntact /\ Settled

(* A lease whose borrower is gone. *)
Leaked == \E l \in LeasesOf(Env) : Live(l) /\ user[l] = None

(* Every pending transaction is finished or rolled back by the operations that
   come after it, except where the code gives up for good: the host rebooted
   in between, files were deleted behind its back, the environment is
   external, or a borrower died with its lease. *)
PendingResolves == Pending ~> (~ Pending \/ ByGeneration \/ ByDamage \/ ByRoot \/ Leaked)
=============================================================================
