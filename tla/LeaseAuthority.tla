--------------------------- MODULE LeaseAuthority ---------------------------
(***************************************************************************)
(* What the machine authority promises to its callers, without its clock:  *)
(* one lease per machine, an epoch that only grows, and a lease that may   *)
(* stop being live at any moment (expiry, reboot or release) and then      *)
(* stays dead.  MachineAuthority implements it; MachineExecutor uses it.   *)
(***************************************************************************)
EXTENDS Naturals

CONSTANTS Owner,    \* owner identities that may ask for the machine
          Stamp     \* what renewing a lease changes in it (its expiry)

ASSUME OwnerAssumption == Owner # {} /\ Stamp # {}

VARIABLES lease,      \* the current lease record; epoch 0: none was written yet
          leaseLive   \* is_live of that record, now

leaseVars == <<lease, leaseLive>>

(* A MachineLease object, as the authority records it and callers keep it. *)
LeaseRecord == [owner : Owner, epoch : Nat, stamp : Stamp]

NoLease == [owner |-> CHOOSE o \in Owner : TRUE, epoch |-> 0,
            stamp |-> CHOOSE s \in Stamp : TRUE]

LeaseTypeOK == lease \in LeaseRecord /\ leaseLive \in BOOLEAN

LeaseInit == lease = NoLease /\ leaseLive = FALSE

(* assert_held: the caller's copy is the current record and it is live. *)
Held(c) == leaseLive /\ lease = c

(* acquire: a live lease is handed to its own owner unchanged and refused
   to the others; a dead one is replaced under the next epoch. *)
AcquireLease(o) ==
  \/ /\ leaseLive /\ lease.owner = o
     /\ UNCHANGED leaseVars
  \/ /\ ~ leaseLive
     /\ \E s \in Stamp : lease' = [owner |-> o, epoch |-> lease.epoch + 1, stamp |-> s]
     /\ leaseLive' = TRUE

(* renew: only the exact live copy, same epoch, a new expiry. *)
RenewLease(c) ==
  /\ Held(c)
  /\ \E s \in Stamp : lease' = [lease EXCEPT !.stamp = s]
  /\ UNCHANGED leaseLive

(* Expiry, reboot or release: the lease stops being live.  Release also
   rewrites the record, which no copy in a caller's hands equals any more. *)
LapseLease ==
  /\ leaseLive
  /\ leaseLive' = FALSE
  /\ UNCHANGED lease

LeaseNext ==
  \/ \E o \in Owner : AcquireLease(o)
  \/ RenewLease(lease)
  \/ LapseLease

LeaseSpec == LeaseInit /\ [][LeaseNext]_leaseVars
=============================================================================
