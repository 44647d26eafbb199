--------------------------- MODULE MachineAuthority ---------------------------
(***************************************************************************)
(* The machine authority: one lease record per machine in a directory      *)
(* (DirectoryMachineAuthority, and the in-process one it specialises),     *)
(* with the clock that decides whether it is live.                         *)
(*                                                                         *)
(* The clock reading has a host, a boot, the time elapsed in that boot and *)
(* a wall time.  Wall time is read only when an anchor is written, so it   *)
(* is an arbitrary value there and no variable.  Every operation runs      *)
(* under the directory's guard lock: one action each.  Callers may present *)
(* any lease they were ever given.                                         *)
(***************************************************************************)
EXTENDS Integers

CONSTANTS Owner,      \* owner identities
          Host,       \* host identities whose processes use the directory
          Wall,       \* values wall time may show, in any order
          TTL,        \* lease durations asked for
          MaxElapsed, \* bound: time in one boot
          MaxBoot,    \* bound: boots
          MaxEpoch    \* bound: leases taken

ASSUME AuthorityAssumption ==
  /\ Owner # {} /\ Host # {} /\ Wall \subseteq Nat /\ Wall # {}
  /\ TTL \subseteq Nat \ {0}
  /\ MaxElapsed \in Nat /\ MaxBoot \in Nat /\ MaxEpoch \in Nat

VARIABLES boot,    \* the boot identity, numbered
          elapsed, \* time elapsed in that boot
          anchor,  \* clock-anchor.json: none or one record
          record,  \* the machine's lease document: none or one record
          copies   \* every lease handed to a caller

clockVars == <<boot, elapsed>>
vars == <<boot, elapsed, anchor, record, copies>>

None == <<>>

Init ==
  /\ boot = 0 /\ elapsed = 0
  /\ anchor = None /\ record = None /\ copies = {}

-----------------------------------------------------------------------------
(* _authority_now: the anchors the reading of a process on host h may leave
   behind.  A new one starts from wall time, in a new directory or boot; a
   reading from another host is refused. *)
AnchorAfter(h) ==
  IF anchor = None \/ (anchor[1].host = h /\ anchor[1].boot # boot)
  THEN {<<[host |-> h, boot |-> boot, elapsed |-> elapsed, logical |-> w]>> : w \in Wall}
  ELSE {a \in {anchor} : a[1].host = h}

(* The logical time an anchor gives. *)
Now(a) == a[1].logical + (elapsed - a[1].elapsed)

(* Mutant: the boot a lease was taken in is not compared. *)
IsLiveAnyBoot(r, a) == r # None /\ ~ r[1].released /\ r[1].host = a[1].host /\ r[1].expires > Now(a)

(* MachineLease.is_live. *)
IsLive(r, a) ==
  /\ r # None /\ ~ r[1].released
  /\ r[1].host = a[1].host /\ r[1].boot = boot
  /\ r[1].expires > Now(a)

(* What the writer of a lease puts in it, read against anchor a. *)
LeaseOf(o, epoch, acquired, a, ttl) ==
  [owner |-> o, epoch |-> epoch, acquired |-> acquired, expires |-> Now(a) + ttl,
   host |-> a[1].host, boot |-> boot, released |-> FALSE]

(* Mutant: a released lease counts as no lease. *)
NextEpochAfterRelease(r) == IF r = None \/ r[1].released THEN 1 ELSE r[1].epoch + 1

NextEpoch(r) == IF r = None THEN 1 ELSE r[1].epoch + 1

(* acquire: a live lease goes to its own owner as it is, to nobody else; a
   missing or dead one is replaced under the next epoch. *)
Acquire(h, o) ==
  \E a \in AnchorAfter(h), ttl \in TTL :
    /\ anchor' = a
    /\ \/ /\ IsLive(record, a) /\ record[1].owner = o
          /\ UNCHANGED record
       \/ /\ ~ IsLive(record, a)
          /\ NextEpoch(record) <= MaxEpoch
          /\ record' = <<LeaseOf(o, NextEpoch(record), Now(a), a, ttl)>>
    /\ copies' = copies \cup {record'[1]}
    /\ UNCHANGED clockVars

(* The caller's lease is the record and it is live. *)
HeldBy(c, a) == record = <<c>> /\ IsLive(record, a)

(* Mutant: renewing only looks at the owner. *)
RenewableOwner(c, a) == record # None /\ record[1].owner = c.owner /\ ~ record[1].released

(* What renew requires of the caller's lease. *)
Renewable(c, a) == HeldBy(c, a)

(* renew: same epoch and acquisition, a new expiry. *)
Renew(h, c) ==
  \E a \in AnchorAfter(h), ttl \in TTL :
    /\ Renewable(c, a)
    /\ anchor' = a
    /\ record' = <<LeaseOf(c.owner, c.epoch, c.acquired, a, ttl)>>
    /\ copies' = copies \cup {record'[1]}
    /\ UNCHANGED clockVars

(* release: the record stays, marked released. *)
Release(h, c) ==
  \E a \in AnchorAfter(h) :
    /\ HeldBy(c, a)
    /\ anchor' = a
    /\ record' = <<[c EXCEPT !.released = TRUE]>>
    /\ UNCHANGED <<copies, clockVars>>

(* assert_held, or an operation refused: only the anchor may be written. *)
ReadClock(h) ==
  /\ \E a \in AnchorAfter(h) : anchor' = a
  /\ UNCHANGED <<record, copies, clockVars>>

(* Time passes in one boot. *)
Tick ==
  /\ elapsed < MaxElapsed
  /\ elapsed' = elapsed + 1
  /\ UNCHANGED <<boot, anchor, record, copies>>

(* The host reboots: a new boot identity, elapsed time starts again. *)
Reboot ==
  /\ boot < MaxBoot
  /\ boot' = boot + 1 /\ elapsed' = 0
  /\ UNCHANGED <<anchor, record, copies>>

Next ==
  \/ \E h \in Host :
       \/ \E o \in Owner : Acquire(h, o)
       \/ \E c \in copies : Renew(h, c) \/ Release(h, c)
       \/ ReadClock(h)
  \/ Tick \/ Reboot

Spec == Init /\ [][Next]_vars

-----------------------------------------------------------------------------
Lease == [owner : Owner, epoch : Nat, acquired : Nat, expires : Nat,
          host : Host, boot : Nat, released : BOOLEAN]

(* Every variable has the type of the document it stands for. *)
TypeOK ==
  /\ boot \in Nat /\ elapsed \in Nat
  /\ anchor # None => anchor[1] \in [host : Host, boot : Nat, elapsed : Nat, logical : Nat]
  /\ record # None => record[1] \in Lease
  /\ copies \subseteq Lease

(* Is the lease of epoch n in force, for processes on the directory's host?
   (While the anchor is of an earlier boot no lease of this boot exists.) *)
InForce(n) == /\ record # None /\ record[1].epoch = n
              /\ anchor # None /\ IsLive(record, anchor)

(* A lease that was lost (expired, released, overtaken, or of an earlier
   boot) is never in force again, whatever wall time shows at the next anchor
   and however late its holder tries to renew it. *)
NoResurrection == [][\A c \in copies : ~ InForce(c.epoch) => ~ InForce(c.epoch)']_vars

(* An epoch is a fencing token: it is never handed to two owners, nor to one
   owner twice by separate acquisitions. *)
EpochIdentifiesHolder ==
  /\ TypeOK
  /\ \A c, d \in copies : c.epoch = d.epoch => c.owner = d.owner /\ c.acquired = d.acquired /\ c.boot = d.boot

(* The expiries a lease can be given: what wall time showed at the anchor, the
   time elapsed since, and the duration asked for. *)
Expiries == {w + e + ttl : w \in Wall, e \in 0..MaxElapsed, ttl \in TTL}

(* What the authority promises to its users. *)
Lessor == INSTANCE LeaseAuthority WITH
  Stamp <- Expiries,
  lease <- IF record = None
           THEN [owner |-> CHOOSE o \in Owner : TRUE, epoch |-> 0,
                 stamp |-> CHOOSE s \in Expiries : TRUE]
           ELSE [owner |-> record[1].owner, epoch |-> record[1].epoch, stamp |-> record[1].expires],
  leaseLive <- anchor # None /\ IsLive(record, anchor)

(* The clocked authority implements the clockless one the executors rely on. *)
ImplementsLeaseAuthority == Lessor!LeaseSpec
===============================================================================
