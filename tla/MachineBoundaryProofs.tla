----------------------- MODULE MachineBoundaryProofs -----------------------
(***************************************************************************)
(* What a machine shares with others, proved for any values of the         *)
(* constants: its lease and its envelopes.                                 *)
(*                                                                         *)
(* For any owners, hosts, durations, wall times and number of boots: an    *)
(* epoch names one acquisition, a lease that was lost is never in force    *)
(* again, and the authority implements the lease its users rely on.        *)
(*                                                                         *)
(* For any commits, envelopes and number of attempts: no envelope passes   *)
(* the inbox twice, none passes it that the outbox does not hold, and what *)
(* the outbox knows of an envelope only grows.                             *)
(***************************************************************************)
EXTENDS MachineAuthority, MachineDelivery, TLAPS

-----------------------------------------------------------------------------
(* The lease authority. *)

AnchorRecord == [host : Host, boot : Nat, elapsed : Nat, logical : Nat]

SameHolder(c, d) == c.owner = d.owner /\ c.acquired = d.acquired /\ c.boot = d.boot

(* An anchor gives a logical time now: it is of this boot and not of the
   future. *)
Current(a) == /\ a[1] \in AnchorRecord /\ a = <<a[1]>>
              /\ a[1].boot = boot /\ a[1].elapsed <= elapsed

(* The record has the greatest epoch, and it was written under an anchor that
   is still there or was replaced in a later boot. *)
AuthorityInv ==
  /\ boot \in Nat /\ elapsed \in Nat
  /\ anchor \in {None} \cup {<<a>> : a \in AnchorRecord}
  /\ anchor # None => /\ anchor[1].boot <= boot
                      /\ anchor[1].boot = boot => anchor[1].elapsed <= elapsed
  /\ record \in {None} \cup {<<r>> : r \in Lease}
  /\ record # None => anchor # None /\ record[1].boot <= anchor[1].boot
  /\ copies \subseteq Lease
  /\ record = None => copies = {}
  /\ \A c \in copies : /\ c.epoch <= record[1].epoch
                       /\ c.epoch = record[1].epoch => SameHolder(c, record[1])
  /\ \A c, d \in copies : c.epoch = d.epoch => SameHolder(c, d)

-----------------------------------------------------------------------------
LEMMA Boxed == \A r : <<r>> # None /\ <<r>>[1] = r
  BY Zenon DEF None

(* _authority_now: the anchor it leaves is of this boot.  It is the one that
   was there, or no lease on record is of this boot. *)
LEMMA AnchorIsCurrent ==
  ASSUME AuthorityInv, NEW h \in Host, NEW a \in AnchorAfter(h)
  PROVE  /\ a # None /\ Current(a)
         /\ a = anchor \/ ~ IsLive(record, a)
         /\ record # None => record[1].boot <= boot
<1> DEFINE fresh == {<<[host |-> h, boot |-> boot, elapsed |-> elapsed, logical |-> w]>> : w \in Wall}
<1>1. ASSUME a \in fresh PROVE a # None /\ Current(a)
  <2>1. PICK w \in Wall : a = <<[host |-> h, boot |-> boot, elapsed |-> elapsed, logical |-> w]>>
    BY <1>1, Zenon
  <2>2. a[1] = [host |-> h, boot |-> boot, elapsed |-> elapsed, logical |-> w] /\ a # None
    BY <2>1, Boxed, Zenon
  <2>3. w \in Nat
    BY AuthorityAssumption, Zenon
  <2> QED
    BY <2>1, <2>2, <2>3 DEF Current, AnchorRecord, AuthorityInv
<1>2. record # None => /\ record[1].boot \in Nat /\ anchor[1].boot \in Nat
                       /\ record[1].boot <= anchor[1].boot /\ anchor[1].boot <= boot
  BY Boxed DEF AuthorityInv, Lease, AnchorRecord
<1>3. record # None => record[1].boot <= boot
  BY <1>2 DEF AuthorityInv
<1>4. CASE anchor = None
  <2>1. a \in fresh /\ record = None
    BY <1>4, Zenon DEF AnchorAfter, AuthorityInv
  <2> QED
    BY <1>1, <2>1, Zenon DEF IsLive
<1>5. CASE anchor # None /\ anchor[1].host = h /\ anchor[1].boot # boot
  <2>1. a \in fresh
    BY <1>5, Zenon DEF AnchorAfter
  <2>2. record # None => record[1].boot # boot
    BY <1>2, <1>5 DEF AuthorityInv
  <2> QED
    BY <1>1, <1>3, <2>1, <2>2, Zenon DEF IsLive
<1>6. CASE anchor # None /\ anchor[1].host = h /\ anchor[1].boot = boot
  <2>1. a = anchor
    BY <1>6, Zenon DEF AnchorAfter
  <2>2. PICK b \in AnchorRecord : anchor = <<b>>
    BY <1>6, Zenon DEF AuthorityInv
  <2>3. Current(anchor)
    BY <1>6, <2>2, Boxed, Zenon DEF Current, AuthorityInv
  <2> QED
    BY <1>3, <1>6, <2>1, <2>3, Zenon
<1>7. anchor = None \/ anchor[1].host = h
  BY Zenon DEF AnchorAfter
<1> QED
  BY <1>4, <1>5, <1>6, <1>7, Zenon

(* Under such an anchor a new lease has the fields it should. *)
LEMMA LeaseWritten ==
  ASSUME AuthorityInv, NEW a, Current(a), NEW o \in Owner, NEW epoch \in Nat, NEW t \in Nat, NEW ttl \in TTL
  PROVE  /\ Now(a) \in Nat
         /\ LeaseOf(o, epoch, t, a, ttl) \in Lease
         /\ LeaseOf(o, epoch, t, a, ttl).owner = o /\ LeaseOf(o, epoch, t, a, ttl).epoch = epoch
         /\ LeaseOf(o, epoch, t, a, ttl).acquired = t /\ LeaseOf(o, epoch, t, a, ttl).boot = boot
<1>1. a[1].logical \in Nat /\ a[1].elapsed \in Nat /\ a[1].elapsed <= elapsed /\ a[1].host \in Host /\ elapsed \in Nat
  BY Zenon DEF Current, AnchorRecord, AuthorityInv
<1>2. Now(a) \in Nat
  BY <1>1 DEF Now
<1>3. Now(a) + ttl \in Nat /\ boot \in Nat
  BY <1>2, AuthorityAssumption DEF AuthorityInv
<1> QED
  BY <1>1, <1>2, <1>3, Zenon DEF LeaseOf, Lease

(* What an operation does: it leaves a current anchor, and writes a record that
   holds the epoch of the old one for the same holder, or a greater one. *)
LEMMA RecordWritten ==
  ASSUME AuthorityInv, NEW a, a # None, Current(a), anchor' = a, UNCHANGED clockVars,
         NEW r \in Lease, record' = <<r>>, r.boot <= boot,
         \/ record = None
         \/ r.epoch > record[1].epoch
         \/ r.epoch = record[1].epoch /\ SameHolder(record[1], r),
         copies' = copies \/ copies' = copies \cup {r},
         record = None => copies' = {r}
  PROVE  AuthorityInv'
<1>1. /\ record'[1] = r /\ record' # None /\ UNCHANGED <<boot, elapsed>>
      /\ anchor' \in {None} \cup {<<b>> : b \in AnchorRecord}
  BY Boxed, Zenon DEF Current, clockVars
<1>2. anchor'[1].boot = boot' /\ anchor'[1].elapsed <= elapsed'
  BY <1>1, Zenon DEF Current
<1>3. copies' \subseteq Lease
  BY Zenon DEF AuthorityInv
<1>4. \A c \in copies' : c.epoch <= r.epoch /\ (c.epoch = r.epoch => SameHolder(c, r))
  <2>1. CASE record = None
    BY <2>1 DEF SameHolder, Lease
  <2>2. CASE record # None
    <3>1. record[1] \in Lease
      BY <2>2, Boxed DEF AuthorityInv
    <3>2. \A c \in copies : c.epoch <= record[1].epoch /\ c.epoch \in Nat /\ record[1].epoch \in Nat /\ r.epoch \in Nat
      BY <3>1, Zenon DEF AuthorityInv, Lease
    <3>3. \A c \in copies : c.epoch = record[1].epoch => SameHolder(c, record[1])
      BY Zenon DEF AuthorityInv
    <3>4. \A c \in copies : c.epoch <= r.epoch /\ (c.epoch = r.epoch => SameHolder(c, r))
      BY <2>2, <3>2, <3>3 DEF SameHolder
    <3> QED
      BY <3>4 DEF SameHolder, Lease
  <2> QED
    BY <2>1, <2>2, Zenon
<1>5. \A c, d \in copies' : c.epoch = d.epoch => SameHolder(c, d)
  BY <1>4 DEF SameHolder, AuthorityInv
<1> QED
  BY <1>1, <1>2, <1>3, <1>4, <1>5 DEF AuthorityInv, SameHolder

LEMMA InitInv == Init => AuthorityInv
  BY DEF Init, AuthorityInv

LEMMA AcquireInv == ASSUME AuthorityInv, NEW h \in Host, NEW o \in Owner, Acquire(h, o) PROVE AuthorityInv'
<1>1. PICK a \in AnchorAfter(h), ttl \in TTL :
        /\ anchor' = a
        /\ \/ IsLive(record, a) /\ UNCHANGED record
           \/ record' = <<LeaseOf(o, NextEpoch(record), Now(a), a, ttl)>>
        /\ copies' = copies \cup {record'[1]}
        /\ UNCHANGED clockVars
  BY Zenon DEF Acquire
<1>2. /\ a # None /\ Current(a)
      /\ record # None => record[1].boot <= boot
  BY AnchorIsCurrent, Zenon
<1>3. CASE record # None /\ UNCHANGED record
  <2>1. PICK r \in Lease : record = <<r>>
    BY <1>3, Zenon DEF AuthorityInv
  <2>2. record[1] = r /\ record' = <<r>> /\ r.boot <= boot /\ copies' = copies \cup {r}
    BY <1>1, <1>2, <1>3, <2>1, Boxed, Zenon
  <2>3. r.epoch = record[1].epoch /\ SameHolder(record[1], r)
    BY <2>2, Zenon DEF SameHolder
  <2> QED
    BY <1>1, <1>2, <1>3, <2>2, <2>3, RecordWritten, Zenon
<1>4. CASE record' = <<LeaseOf(o, NextEpoch(record), Now(a), a, ttl)>>
  <2>1. NextEpoch(record) \in Nat /\ (record # None => NextEpoch(record) > record[1].epoch)
    BY Boxed DEF NextEpoch, AuthorityInv, Lease
  <2> DEFINE r == LeaseOf(o, NextEpoch(record), Now(a), a, ttl)
  <2>2. Now(a) \in Nat
    BY <1>2, LeaseWritten, <2>1, Zenon
  <2>3. r \in Lease /\ r.epoch = NextEpoch(record) /\ r.boot = boot
    BY <1>2, <2>1, <2>2, LeaseWritten
  <2> HIDE DEF r
  <2>4. record' = <<r>> /\ copies' = copies \cup {r}
    BY <1>1, <1>4, Boxed, Zenon DEF r
  <2>5. r.boot <= boot /\ (record = None => copies' = {r})
    BY <2>3, <2>4 DEF AuthorityInv
  <2>6. record = None \/ r.epoch > record[1].epoch
    BY <2>1, <2>3, Zenon
  <2> QED
    BY <1>1, <1>2, <2>3, <2>4, <2>5, <2>6, RecordWritten, Zenon
<1> QED
  BY <1>1, <1>3, <1>4, Zenon DEF IsLive

(* The caller's lease is on record. *)
LEMMA HeldIsRecord ==
  ASSUME AuthorityInv, NEW c \in copies, NEW a, HeldBy(c, a)
  PROVE  record # None /\ record[1] = c /\ c \in Lease /\ c.boot = boot /\ ~ c.released
  BY Boxed, Zenon DEF HeldBy, IsLive, AuthorityInv

LEMMA RenewInv == ASSUME AuthorityInv, NEW h \in Host, NEW c \in copies, Renew(h, c) PROVE AuthorityInv'
<1>1. PICK a \in AnchorAfter(h), ttl \in TTL :
        /\ HeldBy(c, a) /\ anchor' = a
        /\ record' = <<LeaseOf(c.owner, c.epoch, c.acquired, a, ttl)>>
        /\ copies' = copies \cup {record'[1]}
        /\ UNCHANGED clockVars
  BY Zenon DEF Renew, Renewable
<1>2. a # None /\ Current(a)
  BY AnchorIsCurrent, Zenon
<1>3. record # None /\ record[1] = c /\ c \in Lease /\ c.boot = boot
  BY <1>1, HeldIsRecord, Zenon
<1>4. c.owner \in Owner /\ c.epoch \in Nat /\ c.acquired \in Nat
  BY <1>3, Zenon DEF Lease
<1> DEFINE r == LeaseOf(c.owner, c.epoch, c.acquired, a, ttl)
<1>5. r \in Lease /\ r.epoch = c.epoch /\ r.boot = boot /\ r.owner = c.owner /\ r.acquired = c.acquired
  BY <1>2, <1>4, LeaseWritten
<1> HIDE DEF r
<1>6. record' = <<r>> /\ copies' = copies \cup {r}
  BY <1>1, Boxed, Zenon DEF r
<1>7. r.boot <= boot /\ r.epoch = record[1].epoch /\ SameHolder(record[1], r)
  BY <1>3, <1>5 DEF SameHolder, AuthorityInv
<1> QED
  BY <1>1, <1>2, <1>3, <1>5, <1>6, <1>7, RecordWritten, Zenon

LEMMA ReleaseInv == ASSUME AuthorityInv, NEW h \in Host, NEW c \in copies, Release(h, c) PROVE AuthorityInv'
<1>1. PICK a \in AnchorAfter(h) :
        /\ HeldBy(c, a) /\ anchor' = a
        /\ record' = <<[c EXCEPT !.released = TRUE]>>
        /\ UNCHANGED <<copies, clockVars>>
  BY Zenon DEF Release
<1>2. a # None /\ Current(a)
  BY AnchorIsCurrent, Zenon
<1>3. record # None /\ record[1] = c /\ c \in Lease /\ c.boot = boot
  BY <1>1, HeldIsRecord, Zenon
<1> DEFINE r == [c EXCEPT !.released = TRUE]
<1>4. r \in Lease /\ r.epoch = c.epoch /\ r.boot = boot /\ SameHolder(c, r)
  BY <1>3, Zenon DEF Lease, SameHolder
<1> HIDE DEF r
<1>5. record' = <<r>> /\ UNCHANGED clockVars /\ copies' = copies
  BY <1>1, Zenon DEF r
<1>6. r.boot <= boot
  BY <1>4 DEF AuthorityInv
<1> QED
  BY <1>1, <1>2, <1>3, <1>4, <1>5, <1>6, RecordWritten, Zenon

LEMMA ReadInv == ASSUME AuthorityInv, NEW h \in Host, ReadClock(h) PROVE AuthorityInv'
<1>1. PICK a \in AnchorAfter(h) : anchor' = a
  BY Zenon DEF ReadClock
<1>2. UNCHANGED <<record, copies, boot, elapsed>>
  BY Zenon DEF ReadClock, clockVars
<1>3. a # None /\ Current(a) /\ (record # None => record[1].boot <= boot)
  BY AnchorIsCurrent, Zenon
<1> QED
  BY <1>1, <1>2, <1>3 DEF AuthorityInv, Current, SameHolder

LEMMA ClockInv == ASSUME AuthorityInv, Tick \/ Reboot PROVE AuthorityInv'
<1>1. UNCHANGED <<anchor, record, copies>>
  BY Zenon DEF Tick, Reboot
<1>2. boot' \in Nat /\ elapsed' \in Nat /\ ((boot' = boot /\ elapsed' = elapsed + 1) \/ boot' = boot + 1)
  BY DEF Tick, Reboot, AuthorityInv
<1>3. anchor # None => /\ anchor[1].boot <= boot'
                       /\ anchor[1].boot = boot' => anchor[1].elapsed <= elapsed'
  <2>1. anchor # None => anchor[1].boot \in Nat /\ anchor[1].elapsed \in Nat
    BY Boxed, Zenon DEF AuthorityInv, AnchorRecord
  <2> QED
    BY <1>2, <2>1 DEF AuthorityInv
<1> QED
  BY <1>1, <1>2, <1>3, Zenon DEF AuthorityInv, SameHolder

LEMMA NextInv == ASSUME AuthorityInv, [Next]_vars PROVE AuthorityInv'
<1>1. UNCHANGED vars => AuthorityInv'
  BY DEF vars, AuthorityInv, SameHolder
<1> QED
  BY <1>1, AcquireInv, RenewInv, ReleaseInv, ReadInv, ClockInv, Zenon DEF Next

-----------------------------------------------------------------------------
(* The lease of an epoch that some caller holds comes into force by no step. *)
NoneRevived == \A c \in copies : ~ InForce(c.epoch) => ~ InForce(c.epoch)'

(* A reading of the clock revives nothing. *)
LEMMA ReadRevives ==
  ASSUME AuthorityInv, NEW h \in Host, NEW a \in AnchorAfter(h), anchor' = a,
         UNCHANGED <<record, boot, elapsed>>
  PROVE  NoneRevived
<1>1. a = anchor \/ ~ IsLive(record, a)
  BY AnchorIsCurrent, Zenon
<1> QED
  BY <1>1, Zenon DEF NoneRevived, InForce, IsLive, Now

LEMMA AcquireRevives == ASSUME AuthorityInv, NEW h \in Host, NEW o \in Owner, Acquire(h, o) PROVE NoneRevived
<1>1. PICK a \in AnchorAfter(h), ttl \in TTL :
        /\ anchor' = a /\ UNCHANGED <<boot, elapsed>>
        /\ \/ UNCHANGED record
           \/ record' = <<LeaseOf(o, NextEpoch(record), Now(a), a, ttl)>>
  BY Zenon DEF Acquire, clockVars
<1>2. CASE UNCHANGED record
  BY <1>1, <1>2, ReadRevives, Zenon
<1>3. CASE record' = <<LeaseOf(o, NextEpoch(record), Now(a), a, ttl)>>
  <2>1. record'[1].epoch = NextEpoch(record)
    BY <1>3, Boxed, Zenon DEF LeaseOf
  <2>2. \A c \in copies : c.epoch # NextEpoch(record)
    <3>1. record = None => copies = {}
      BY Zenon DEF AuthorityInv
    <3>2. ASSUME record # None PROVE \A c \in copies : c.epoch \in Nat /\ record[1].epoch \in Nat /\ c.epoch <= record[1].epoch
      BY <3>2, Boxed DEF AuthorityInv, Lease
    <3> QED
      BY <3>1, <3>2 DEF NextEpoch
  <2> QED
    BY <2>1, <2>2, Zenon DEF NoneRevived, InForce
<1> QED
  BY <1>1, <1>2, <1>3, Zenon

LEMMA RenewRevives == ASSUME AuthorityInv, NEW h \in Host, NEW c \in copies, Renew(h, c) PROVE NoneRevived
<1>1. PICK a \in AnchorAfter(h), ttl \in TTL :
        HeldBy(c, a) /\ record' = <<LeaseOf(c.owner, c.epoch, c.acquired, a, ttl)>>
  BY Zenon DEF Renew, Renewable
<1>2. record'[1].epoch = c.epoch
  BY <1>1, Boxed, Zenon DEF LeaseOf
<1>3. record # None /\ record[1] = c
  BY <1>1, HeldIsRecord, Zenon
<1>4. IsLive(record, a) /\ a # None
  BY <1>1, AnchorIsCurrent, Zenon DEF HeldBy
<1>5. a = anchor
  BY <1>4, AnchorIsCurrent, Zenon
<1>6. InForce(c.epoch)
  BY <1>3, <1>4, <1>5, Zenon DEF InForce
<1> QED
  BY <1>2, <1>6, Zenon DEF NoneRevived, InForce

LEMMA ReleaseRevives == ASSUME AuthorityInv, NEW h \in Host, NEW c \in copies, Release(h, c) PROVE NoneRevived
<1>1. PICK a \in AnchorAfter(h) : HeldBy(c, a) /\ record' = <<[c EXCEPT !.released = TRUE]>>
  BY Zenon DEF Release
<1>2. c \in Lease
  BY Zenon DEF AuthorityInv
<1>3. record'[1].released
  BY <1>1, <1>2, Boxed, Zenon DEF Lease
<1> QED
  BY <1>3, Zenon DEF NoneRevived, InForce, IsLive

LEMMA ClockRevives == ASSUME AuthorityInv, Tick \/ Reboot PROVE NoneRevived
<1>1. UNCHANGED <<anchor, record>>
  BY Zenon DEF Tick, Reboot
<1>2. record # None => anchor # None /\ record \in {<<r>> : r \in Lease} /\ anchor \in {<<b>> : b \in AnchorRecord}
  BY Zenon DEF AuthorityInv
<1>3. record # None => /\ record[1].boot \in Nat /\ record[1].expires \in Nat /\ anchor[1].boot \in Nat
                       /\ anchor[1].logical \in Nat /\ anchor[1].elapsed \in Nat /\ record[1].boot <= boot
  BY <1>2, Boxed DEF AuthorityInv, Lease, AnchorRecord
<1>4. CASE Tick
  <2>1. boot' = boot /\ elapsed' = elapsed + 1 /\ elapsed \in Nat
    BY <1>4, Zenon DEF Tick, AuthorityInv
  <2>2. ASSUME IsLive(record, anchor)' PROVE IsLive(record, anchor)
    BY <1>1, <1>3, <2>1, <2>2 DEF IsLive, Now
  <2> QED
    BY <1>1, <2>2, Zenon DEF NoneRevived, InForce
<1>5. CASE Reboot
  <2>1. boot' = boot + 1 /\ boot \in Nat
    BY <1>5, Zenon DEF Reboot, AuthorityInv
  <2>2. ~ IsLive(record, anchor)'
    BY <1>1, <1>3, <2>1 DEF IsLive
  <2> QED
    BY <2>2, Zenon DEF NoneRevived, InForce
<1> QED
  BY <1>4, <1>5, Zenon

LEMMA NextRevives == ASSUME AuthorityInv, [Next]_vars PROVE NoneRevived
<1>1. ASSUME NEW h \in Host, ReadClock(h) PROVE NoneRevived
  BY <1>1, ReadRevives, Zenon DEF ReadClock, clockVars
<1>2. ASSUME UNCHANGED vars PROVE NoneRevived
  BY <1>2, Zenon DEF vars, NoneRevived, InForce, IsLive, Now
<1> QED
  BY <1>1, <1>2, AcquireRevives, RenewRevives, ReleaseRevives, ClockRevives, Zenon DEF Next

-----------------------------------------------------------------------------
(* The inductive invariant. *)
THEOREM AuthorityInvariant == Spec => []AuthorityInv
  BY InitInv, NextInv, PTL DEF Spec

(* An epoch is handed out by one acquisition only, whatever the wall clock
   shows and however often the host reboots (acquire, renew, release). *)
THEOREM EpochsIdentify == Spec => []EpochIdentifiesHolder
<1>1. ASSUME AuthorityInv PROVE EpochIdentifiesHolder
  <2>1. TypeOK
    BY <1>1, Boxed, Zenon DEF AuthorityInv, TypeOK, AnchorRecord
  <2> QED
    BY <1>1, <2>1, Zenon DEF AuthorityInv, EpochIdentifiesHolder, SameHolder
<1> QED
  BY <1>1, AuthorityInvariant, PTL

(* A lease that expired, was released or overtaken, or is of an earlier boot
   is never in force again (is_live, renew). *)
THEOREM LostStaysLost == Spec => NoResurrection
<1>1. AuthorityInv /\ [Next]_vars => [NoneRevived]_vars
  BY NextRevives, Zenon
<1>2. Spec => [][NoneRevived]_vars
  BY <1>1, AuthorityInvariant, PTL DEF Spec
<1> QED
  BY <1>2, Zenon DEF NoResurrection, NoneRevived

-----------------------------------------------------------------------------
(* The refinement mapping: the lease its users see, and whether it is live. *)
SeenLease ==
  IF record = None
  THEN [owner |-> CHOOSE o \in Owner : TRUE, epoch |-> 0, stamp |-> CHOOSE s \in Expiries : TRUE]
  ELSE [owner |-> record[1].owner, epoch |-> record[1].epoch, stamp |-> record[1].expires]

SeenLive == anchor # None /\ IsLive(record, anchor)

(* Readings stay within the bounds that the expiries are made from. *)
ClockBound ==
  /\ elapsed \in 0..MaxElapsed
  /\ anchor # None => anchor[1].logical \in Wall

(* A new anchor starts from wall time. *)
LEMMA AnchorBound ==
  ASSUME ClockBound, NEW h \in Host, NEW a \in AnchorAfter(h)
  PROVE  a[1].logical \in Wall \/ a = None
<1> DEFINE fresh == {<<[host |-> h, boot |-> boot, elapsed |-> elapsed, logical |-> w]>> : w \in Wall}
<1>1. a \in fresh \/ a = anchor
  BY Zenon DEF AnchorAfter
<1>2. CASE a \in fresh
  <2>1. PICK w \in Wall : a = <<[host |-> h, boot |-> boot, elapsed |-> elapsed, logical |-> w]>>
    BY <1>2, Zenon
  <2> QED
    BY <2>1, Boxed, Zenon
<1>3. CASE a = anchor
  BY <1>3, Zenon DEF ClockBound
<1> QED
  BY <1>1, <1>2, <1>3, Zenon

LEMMA ClockBoundStep == ASSUME ClockBound, [Next]_vars PROVE ClockBound'
<1>1. ASSUME NEW h \in Host, NEW a \in AnchorAfter(h), anchor' = a, UNCHANGED clockVars PROVE ClockBound'
  BY <1>1, AnchorBound, Zenon DEF ClockBound, clockVars
<1>2. ASSUME NEW h \in Host, NEW o \in Owner, Acquire(h, o) PROVE ClockBound'
  BY <1>1, <1>2, Zenon DEF Acquire
<1>3. ASSUME NEW h \in Host, NEW c \in copies, Renew(h, c) \/ Release(h, c) PROVE ClockBound'
  BY <1>1, <1>3, Zenon DEF Renew, Release
<1>4. ASSUME NEW h \in Host, ReadClock(h) PROVE ClockBound'
  BY <1>1, <1>4, Zenon DEF ReadClock
<1>5. ASSUME Tick \/ Reboot PROVE ClockBound'
  BY <1>5, AuthorityAssumption DEF Tick, Reboot, ClockBound
<1>6. ASSUME UNCHANGED vars PROVE ClockBound'
  BY <1>6, Zenon DEF vars, ClockBound
<1> QED
  BY <1>2, <1>3, <1>4, <1>5, <1>6, Zenon DEF Next

(* A lease written now is live, with one of the expiries. *)
LEMMA WrittenIsLive ==
  ASSUME AuthorityInv, ClockBound, NEW h \in Host, NEW a \in AnchorAfter(h),
         anchor' = a, UNCHANGED clockVars,
         NEW o \in Owner, NEW epoch \in Nat, NEW t \in Nat, NEW ttl \in TTL,
         record' = <<LeaseOf(o, epoch, t, a, ttl)>>
  PROVE  /\ SeenLive'
         /\ \E s \in Expiries : SeenLease' = [owner |-> o, epoch |-> epoch, stamp |-> s]
<1>1. a # None /\ Current(a)
  BY AnchorIsCurrent, Zenon
<1>2. Now(a) \in Nat /\ ttl \in Nat /\ ttl > 0
  BY <1>1, LeaseWritten, AuthorityAssumption
<1>3. /\ record' # None /\ record'[1] = LeaseOf(o, epoch, t, a, ttl)
      /\ UNCHANGED <<boot, elapsed>> /\ Now(a)' = Now(a)
  BY Boxed, Zenon DEF clockVars, Now
<1>4. /\ record'[1].owner = o /\ record'[1].epoch = epoch /\ record'[1].expires = Now(a) + ttl
      /\ record'[1].host = a[1].host /\ record'[1].boot = boot /\ ~ record'[1].released
  BY <1>3, Zenon DEF LeaseOf
<1>5. SeenLive'
  BY <1>1, <1>2, <1>3, <1>4 DEF SeenLive, IsLive, Now
<1>6. Now(a) + ttl \in Expiries
  <2>1. a[1].logical \in Wall /\ a[1].logical \in Nat
    BY <1>1, AnchorBound, AuthorityAssumption, Zenon
  <2>2. elapsed - a[1].elapsed \in 0..MaxElapsed
    BY <1>1, AuthorityAssumption DEF Current, AnchorRecord, ClockBound
  <2>3. PICK e \in 0..MaxElapsed : e = elapsed - a[1].elapsed
    BY <2>2, Zenon
  <2> QED
    BY <2>1, <2>3 DEF Expiries, Now
<1>7. SeenLease' = [owner |-> o, epoch |-> epoch, stamp |-> Now(a) + ttl]
  BY <1>3, <1>4, Zenon DEF SeenLease
<1> QED
  BY <1>5, <1>6, <1>7, Zenon

(* A lease that is live against the anchor read now is the one its users see
   as live, and the reverse: a new anchor is never of the lease's boot. *)
LEMMA ReadAgrees ==
  ASSUME AuthorityInv, NEW h \in Host, NEW a \in AnchorAfter(h)
  PROVE  SeenLive <=> IsLive(record, a)
<1>1. a # None /\ (a = anchor \/ ~ IsLive(record, a))
  BY AnchorIsCurrent, Zenon
<1>2. CASE a = anchor
  BY <1>1, <1>2, Zenon DEF SeenLive
<1>3. CASE a # anchor
  <2>1. anchor = None \/ anchor[1].boot # boot
    BY <1>3, Zenon DEF AnchorAfter
  <2>2. record # None => record[1].boot # boot
    <3>1. record # None => /\ record[1].boot \in Nat /\ anchor[1].boot \in Nat /\ anchor # None
                           /\ record[1].boot <= anchor[1].boot /\ anchor[1].boot <= boot
      BY Boxed DEF AuthorityInv, Lease, AnchorRecord
    <3> QED
      BY <2>1, <3>1 DEF AuthorityInv
  <2> QED
    BY <1>1, <1>3, <2>2, Zenon DEF SeenLive, IsLive
<1> QED
  BY <1>2, <1>3, Zenon

(* What a step is to the users of the lease. *)
Granted(o) ==
  /\ ~ SeenLive /\ SeenLive'
  /\ \E s \in Expiries : SeenLease' = [owner |-> o, epoch |-> SeenLease.epoch + 1, stamp |-> s]

Prolonged ==
  /\ SeenLive /\ SeenLive'
  /\ \E s \in Expiries : SeenLease' = [SeenLease EXCEPT !.stamp = s]

Lapsed == SeenLive /\ ~ SeenLive' /\ SeenLease' = SeenLease

Unseen == (SeenLive' <=> SeenLive) /\ SeenLease' = SeenLease

(* An operation that leaves the record as it is shows its users nothing. *)
LEMMA ReadUnseen ==
  ASSUME AuthorityInv, NEW h \in Host, NEW a \in AnchorAfter(h), anchor' = a, UNCHANGED <<record, clockVars>>
  PROVE  Unseen
<1>1. (SeenLive <=> IsLive(record, a)) /\ a # None
  BY ReadAgrees, AnchorIsCurrent, Zenon
<1>2. SeenLive' <=> IsLive(record, a)
  BY <1>1, Zenon DEF SeenLive, IsLive, Now, clockVars
<1> QED
  BY <1>1, <1>2, Zenon DEF Unseen, SeenLease

LEMMA AcquireSeen ==
  ASSUME AuthorityInv, ClockBound, NEW h \in Host, NEW o \in Owner, Acquire(h, o)
  PROVE  Unseen \/ Granted(o)
<1>1. PICK a \in AnchorAfter(h), ttl \in TTL :
        /\ anchor' = a /\ UNCHANGED clockVars
        /\ \/ UNCHANGED record
           \/ ~ IsLive(record, a) /\ record' = <<LeaseOf(o, NextEpoch(record), Now(a), a, ttl)>>
  BY Zenon DEF Acquire
<1>2. CASE UNCHANGED record
  BY <1>1, <1>2, ReadUnseen, Zenon
<1>3. CASE ~ IsLive(record, a) /\ record' = <<LeaseOf(o, NextEpoch(record), Now(a), a, ttl)>>
  <2>1. NextEpoch(record) \in Nat /\ NextEpoch(record) = SeenLease.epoch + 1
    BY Boxed DEF NextEpoch, SeenLease, AuthorityInv, Lease
  <2>2. Now(a) \in Nat
    BY AnchorIsCurrent, LeaseWritten, <2>1, Zenon
  <2>3. ~ SeenLive
    BY <1>3, ReadAgrees, Zenon
  <2> QED
    BY <1>1, <1>3, <2>1, <2>2, <2>3, WrittenIsLive DEF Granted
<1> QED
  BY <1>1, <1>2, <1>3, Zenon

LEMMA RenewSeen ==
  ASSUME AuthorityInv, ClockBound, NEW h \in Host, NEW c \in copies, Renew(h, c)
  PROVE  Prolonged
<1>1. PICK a \in AnchorAfter(h), ttl \in TTL :
        /\ HeldBy(c, a) /\ anchor' = a /\ UNCHANGED clockVars
        /\ record' = <<LeaseOf(c.owner, c.epoch, c.acquired, a, ttl)>>
  BY Zenon DEF Renew, Renewable
<1>2. record # None /\ record[1] = c /\ c \in Lease
  BY <1>1, HeldIsRecord, Zenon
<1>3. SeenLease = [owner |-> c.owner, epoch |-> c.epoch, stamp |-> c.expires]
  BY <1>2, Zenon DEF SeenLease
<1>4. SeenLive
  BY <1>1, ReadAgrees, Zenon DEF HeldBy
<1>5. c.owner \in Owner /\ c.epoch \in Nat /\ c.acquired \in Nat
  BY <1>2, Zenon DEF Lease
<1>6. SeenLive' /\ \E s \in Expiries : SeenLease' = [owner |-> c.owner, epoch |-> c.epoch, stamp |-> s]
  BY <1>1, <1>5, WrittenIsLive, Zenon
<1> QED
  BY <1>3, <1>4, <1>6 DEF Prolonged

LEMMA ReleaseSeen ==
  ASSUME AuthorityInv, NEW h \in Host, NEW c \in copies, Release(h, c)
  PROVE  Lapsed
<1>1. PICK a \in AnchorAfter(h) : HeldBy(c, a) /\ record' = <<[c EXCEPT !.released = TRUE]>>
  BY Zenon DEF Release
<1>2. record # None /\ record[1] = c /\ c \in Lease
  BY <1>1, HeldIsRecord, Zenon
<1>3. /\ record' # None /\ record'[1].released /\ record'[1].owner = c.owner
      /\ record'[1].epoch = c.epoch /\ record'[1].expires = c.expires
  BY <1>1, <1>2, Boxed, Zenon DEF Lease
<1>4. SeenLive
  BY <1>1, ReadAgrees, Zenon DEF HeldBy
<1> QED
  BY <1>2, <1>3, <1>4, Zenon DEF Lapsed, SeenLive, SeenLease, IsLive

LEMMA ClockSeen == ASSUME AuthorityInv, Tick \/ Reboot PROVE Lapsed \/ Unseen
<1>1. UNCHANGED <<anchor, record>>
  BY Zenon DEF Tick, Reboot
<1>2. SeenLive' => SeenLive
  <2>1. record # None => /\ record[1].boot \in Nat /\ record[1].expires \in Nat /\ anchor[1].boot \in Nat
                         /\ anchor[1].logical \in Nat /\ anchor[1].elapsed \in Nat
                         /\ record[1].boot <= anchor[1].boot /\ anchor[1].boot <= boot
    BY Boxed DEF AuthorityInv, Lease, AnchorRecord
  <2>2. CASE Tick
    BY <1>1, <2>1, <2>2 DEF Tick, AuthorityInv, SeenLive, IsLive, Now
  <2>3. CASE Reboot
    <3>1. boot' = boot + 1 /\ boot \in Nat
      BY <2>3, Zenon DEF Reboot, AuthorityInv
    <3> QED
      BY <1>1, <2>1, <3>1 DEF SeenLive, IsLive
  <2> QED
    BY <2>2, <2>3, Zenon
<1> QED
  BY <1>1, <1>2, Zenon DEF Lapsed, Unseen, SeenLease

(* Each of these is a step of the lease authority, or a stutter of it. *)
LEMMA SeenRefines ==
  ASSUME (\E o \in Owner : Granted(o)) \/ Prolonged \/ Lapsed \/ Unseen
  PROVE  [Lessor!LeaseNext]_<<SeenLease, SeenLive>>
<1>1. ASSUME NEW o \in Owner, Granted(o) PROVE Lessor!AcquireLease(o)
  BY <1>1, Zenon DEF Granted, Lessor!AcquireLease, SeenLease, SeenLive
<1>2. ASSUME Prolonged PROVE Lessor!RenewLease(SeenLease)
  BY <1>2, Zenon DEF Prolonged, Lessor!RenewLease, Lessor!Held, SeenLease, SeenLive
<1>3. ASSUME Lapsed PROVE Lessor!LapseLease
  BY <1>3, Zenon DEF Lapsed, Lessor!LapseLease, SeenLease, SeenLive
<1>4. ASSUME Unseen PROVE UNCHANGED <<SeenLease, SeenLive>>
  BY <1>4, Zenon DEF Unseen, SeenLive
<1> QED
  BY <1>1, <1>2, <1>3, <1>4, Zenon DEF Lessor!LeaseNext, SeenLease, SeenLive

LEMMA NextSeen ==
  ASSUME AuthorityInv, ClockBound, [Next]_vars
  PROVE  [Lessor!LeaseNext]_<<SeenLease, SeenLive>>
<1>1. ASSUME NEW h \in Host, ReadClock(h) PROVE Unseen
  BY <1>1, ReadUnseen, Zenon DEF ReadClock
<1>2. ASSUME UNCHANGED vars PROVE Unseen
  BY <1>2, Zenon DEF vars, Unseen, SeenLease, SeenLive, IsLive, Now
<1>3. (\E o \in Owner : Granted(o)) \/ Prolonged \/ Lapsed \/ Unseen
  BY <1>1, <1>2, AcquireSeen, RenewSeen, ReleaseSeen, ClockSeen, Zenon DEF Next
<1> QED
  BY <1>3, SeenRefines, Zenon

(* With its anchors, boots and expiries the authority is, to its users, one
   lease that lapses at some moment and is granted again under the next epoch
   (acquire, renew, release, is_live). *)
THEOREM AuthorityImplementsLessor == Spec => ImplementsLeaseAuthority
<1>1. Init => ClockBound
  BY AuthorityAssumption DEF Init, ClockBound
<1>2. Spec => []ClockBound
  BY <1>1, ClockBoundStep, PTL DEF Spec
<1>3. Init => Lessor!LeaseInit
  BY Zenon DEF Init, Lessor!LeaseInit, Lessor!NoLease
<1>4. AuthorityInv /\ ClockBound /\ [Next]_vars => [Lessor!LeaseNext]_Lessor!leaseVars
  BY NextSeen, Zenon DEF SeenLease, SeenLive, Lessor!leaseVars
<1>5. Spec => Lessor!LeaseSpec
  BY <1>2, <1>3, <1>4, AuthorityInvariant, PTL DEF Spec, Lessor!LeaseSpec
<1> QED
  BY <1>5, Zenon DEF ImplementsLeaseAuthority

-----------------------------------------------------------------------------
(* The outbox and the inbox. *)

FileName == {"envelope", "receipt"} \X Envelope

(* A receipt file is visited after the envelope file it belongs to: that is
   there already, or further ahead in what is still to be visited. *)
EnvelopeFirst ==
  \A i \in 1..Len(writing) :
    writing[i][1] = "receipt" =>
      \/ writing[i][2] \in envelopes
      \/ \E j \in 1..(i - 1) : writing[j] = <<"envelope", writing[i][2]>>

(* What is sent was enqueued, what is in the inbox was sent, and accept counts
   an envelope when it puts it there. *)
DeliveryInv ==
  /\ envelopes \subseteq Envelope /\ sent \subseteq envelopes /\ inbox \subseteq sent
  /\ receipts \in [Envelope -> {NoReceipt} \cup Receipt]
  /\ \A x \in Envelope : receipts[x] # NoReceipt => x \in envelopes
  /\ writing \in Seq(FileName)
  /\ EnvelopeFirst
  /\ admitted \in [Envelope -> Nat]
  /\ \A x \in Envelope : admitted[x] = IF x \in inbox THEN 1 ELSE 0

-----------------------------------------------------------------------------
LEMMA FirstIsReceipt == FirstReceipt \in Receipt
  BY DeliveryAssumption DEF FirstReceipt, Receipt, Status

LEMMA ReceiptThere == \A r \in Receipt : r # NoReceipt /\ r.attempt \in Nat
<1>1. \A r \in Receipt : r # NoReceipt
  BY DEF Receipt, NoReceipt
<1>2. \A r \in Receipt : r.attempt \in Nat
  BY DeliveryAssumption DEF Receipt
<1> QED
  BY <1>1, <1>2, Zenon

(* enqueue visits the envelope file of a command just before its receipt. *)
LEMMA FilesOrdered ==
  ASSUME NEW c \in Commit
  PROVE  /\ Files(c) \in Seq(FileName)
         /\ \A i \in 1..Len(Files(c)) :
              Files(c)[i][1] = "receipt" =>
                \E j \in 1..(i - 1) : Files(c)[j] = <<"envelope", Files(c)[i][2]>>
<1> DEFINE s == Emitted[c]
           n == 2 * Len(s)
           file(i) == <<IF i % 2 = 1 THEN "envelope" ELSE "receipt", s[(i + 1) \div 2]>>
<1>1. s \in Seq(Envelope) /\ Len(s) \in Nat
  BY DeliveryAssumption
<1>2. \A i \in 1..n : (i + 1) \div 2 \in 1..Len(s)
  BY <1>1
<1>3. \A i \in 1..n : s[(i + 1) \div 2] \in Envelope
  BY <1>1, <1>2
<1>4. Files(c) = [i \in 1..n |-> file(i)]
  BY Zenon DEF Files
<1>5. \A i \in 1..n : file(i) \in FileName
  BY <1>3, Zenon DEF FileName
<1>6. Files(c) \in Seq(FileName) /\ Len(Files(c)) = n
  BY <1>1, <1>4, <1>5
<1>7. ASSUME NEW i \in 1..n, Files(c)[i][1] = "receipt"
      PROVE  \E j \in 1..(i - 1) : Files(c)[j] = <<"envelope", Files(c)[i][2]>>
  <2>1. Files(c)[i] = file(i)
    BY <1>4
  <2>2. i % 2 = 0 /\ i >= 2
    BY <1>1, <1>7, <2>1
  <2>3. i - 1 \in 1..n /\ (i - 1) % 2 = 1 /\ (i - 1 + 1) \div 2 = (i + 1) \div 2 /\ i - 1 \in 1..(i - 1)
    BY <1>1, <2>2
  <2>4. Files(c)[i - 1] = file(i - 1)
    BY <1>4, <2>3, Zenon
  <2>5. Files(c)[i - 1] = <<"envelope", Files(c)[i][2]>>
    BY <2>1, <2>3, <2>4
  <2> QED
    BY <2>3, <2>5, Zenon
<1> QED
  BY <1>6, <1>7, Zenon

LEMMA DeliveryInitInv == DeliveryInit => DeliveryInv
<1>1. <<>> \in Seq(FileName) /\ Len(<<>>) = 0
  OBVIOUS
<1> QED
  BY <1>1 DEF DeliveryInit, DeliveryInv, EnvelopeFirst

LEMMA EnqueueInv == ASSUME DeliveryInv, NEW c \in Commit, Enqueue(c) PROVE DeliveryInv'
<1>1. UNCHANGED <<envelopes, receipts, sent, inbox, admitted>> /\ writing' = Files(c)
  BY Zenon DEF Enqueue
<1> QED
  BY <1>1, FilesOrdered, Zenon DEF DeliveryInv, EnvelopeFirst

LEMMA WriteInv == ASSUME DeliveryInv, WriteFile PROVE DeliveryInv'
<1> DEFINE kind == Head(writing)[1]
           x    == Head(writing)[2]
<1>1. /\ UNCHANGED <<sent, inbox, admitted>> /\ writing' = Tail(writing) /\ writing # <<>>
      /\ envelopes' = IF kind = "envelope" THEN envelopes \cup {x} ELSE envelopes
      /\ receipts' = IF kind = "receipt" THEN [receipts EXCEPT ![x] = ReceiptKept(x)] ELSE receipts
  BY Zenon DEF WriteFile, LockFree
<1>2. Head(writing) \in FileName /\ Head(writing) = writing[1] /\ Len(writing) >= 1 /\ Len(writing) \in Nat
  BY <1>1 DEF DeliveryInv
<1>3. kind \in {"envelope", "receipt"} /\ x \in Envelope /\ Head(writing) = <<kind, x>>
  BY <1>2 DEF FileName
<1>4. kind = "receipt" => x \in envelopes
  <2>1. 1 \in 1..Len(writing)
    BY <1>2
  <2>2. writing[1][1] = "receipt" => writing[1][2] \in envelopes \/ \E j \in 1..(1 - 1) : writing[j] = <<"envelope", writing[1][2]>>
    BY <2>1, Zenon DEF DeliveryInv, EnvelopeFirst
  <2>3. 1..(1 - 1) = {}
    OBVIOUS
  <2> QED
    BY <1>2, <2>2, <2>3, Zenon
<1>5. ReceiptKept(x) \in Receipt
  BY <1>3, FirstIsReceipt, Zenon DEF ReceiptKept, DeliveryInv
<1>6. /\ Tail(writing) \in Seq(FileName) /\ Len(Tail(writing)) = Len(writing) - 1
      /\ \A i \in 1..Len(Tail(writing)) : Tail(writing)[i] = writing[i + 1]
  <2>1. writing \in Seq(FileName) /\ writing # <<>>
    BY <1>1, Zenon DEF DeliveryInv
  <2> QED
    BY <2>1
<1> HIDE DEF kind, x
<1>7. envelopes' \subseteq Envelope /\ envelopes \subseteq envelopes' /\ (kind = "envelope" => x \in envelopes')
  BY <1>1, <1>3, Zenon DEF DeliveryInv
<1>8. /\ receipts' \in [Envelope -> {NoReceipt} \cup Receipt]
      /\ \A y \in Envelope : receipts'[y] # NoReceipt => y \in envelopes'
  BY <1>1, <1>3, <1>4, <1>5, <1>7, Zenon DEF DeliveryInv
<1>9. EnvelopeFirst'
  <2> SUFFICES ASSUME NEW i \in 1..Len(writing'), writing'[i][1] = "receipt", writing'[i][2] \notin envelopes'
               PROVE  \E j \in 1..(i - 1) : writing'[j] = <<"envelope", writing'[i][2]>>
    BY Zenon DEF EnvelopeFirst
  <2>1. i \in Nat /\ i + 1 \in 1..Len(writing) /\ writing'[i] = writing[i + 1]
    BY <1>1, <1>2, <1>6
  <2>2. PICK j \in 1..(i + 1 - 1) : writing[j] = <<"envelope", writing[i + 1][2]>>
    <3>1. writing[i + 1][1] = "receipt" /\ writing[i + 1][2] \notin envelopes
      BY <1>7, <2>1, Zenon
    <3>2. \A k \in 1..Len(writing) :
            writing[k][1] = "receipt" =>
              \/ writing[k][2] \in envelopes
              \/ \E j \in 1..(k - 1) : writing[j] = <<"envelope", writing[k][2]>>
      BY Zenon DEF DeliveryInv, EnvelopeFirst
    <3> QED
      BY <2>1, <3>1, <3>2
  <2>3. j # 1
    <3> SUFFICES ASSUME j = 1 PROVE FALSE
      BY Zenon
    <3>1. <<kind, x>> = <<"envelope", writing[i + 1][2]>>
      BY <1>2, <1>3, <2>2, Zenon
    <3> QED
      BY <1>7, <2>1, <3>1, Zenon
  <2>4. j - 1 \in 1..(i - 1) /\ j - 1 \in 1..Len(Tail(writing)) /\ writing'[j - 1] = writing[j]
    BY <1>1, <1>2, <1>6, <2>1, <2>3
  <2> QED
    BY <2>1, <2>2, <2>4, Zenon
<1> QED
  BY <1>1, <1>6, <1>7, <1>8, <1>9, Zenon DEF DeliveryInv

LEMMA OthersInv ==
  ASSUME DeliveryInv,
         Crash \/ \E x \in Envelope : Dispatch(x) \/ Accept(x) \/ \E new \in Receipt : Mark(x, new)
  PROVE  DeliveryInv'
<1>1. CASE Crash
  <2>1. UNCHANGED <<envelopes, receipts, sent, inbox, admitted>> /\ writing' = <<>>
    BY <1>1, Zenon DEF Crash
  <2> QED
    BY <2>1 DEF DeliveryInv, EnvelopeFirst
<1>2. ASSUME NEW x \in Envelope, Dispatch(x) PROVE DeliveryInv'
  BY <1>2, Zenon DEF Dispatch, Pending, DeliveryInv, EnvelopeFirst
<1>3. ASSUME NEW x \in Envelope, Accept(x) PROVE DeliveryInv'
  <2>1. /\ UNCHANGED <<envelopes, receipts, writing, sent>> /\ inbox' = inbox \cup {x} /\ x \in sent
        /\ admitted' = IF x \notin inbox THEN [admitted EXCEPT ![x] = @ + 1] ELSE admitted
    BY <1>3, Zenon DEF Accept, Admits
  <2>2. /\ admitted' \in [Envelope -> Nat]
        /\ \A y \in Envelope : admitted'[y] = IF y \in inbox' THEN 1 ELSE 0
    BY <2>1 DEF DeliveryInv
  <2> QED
    BY <2>1, <2>2, Zenon DEF DeliveryInv, EnvelopeFirst
<1>4. ASSUME NEW x \in Envelope, NEW new \in Receipt, Mark(x, new) PROVE DeliveryInv'
  BY <1>4, Zenon DEF Mark, DeliveryInv, EnvelopeFirst
<1> QED
  BY <1>1, <1>2, <1>3, <1>4, Zenon

-----------------------------------------------------------------------------
(* The inductive invariant. *)
THEOREM DeliveryInvariant == DeliverySpec => []DeliveryInv
<1>1. DeliveryInv /\ [DeliveryNext]_deliveryVars => DeliveryInv'
  <2>1. DeliveryInv /\ UNCHANGED deliveryVars => DeliveryInv'
    BY Zenon DEF deliveryVars, DeliveryInv, EnvelopeFirst
  <2> QED
    BY <2>1, EnqueueInv, WriteInv, OthersInv, Zenon DEF DeliveryNext
<1> QED
  BY <1>1, DeliveryInitInv, PTL DEF DeliverySpec

(* However many copies of an envelope are in transit, the inbox lets one
   through, and only of an envelope whose file the outbox holds. *)
THEOREM AdmittedAtMostOnce == DeliverySpec => []AdmittedOnce
<1>1. DeliveryInv => AdmittedOnce
  <2> SUFFICES ASSUME DeliveryInv PROVE AdmittedOnce
    BY Zenon
  <2>1. \A i \in DOMAIN writing : writing[i] \in {"envelope", "receipt"} \X Envelope
    BY DEF DeliveryInv, FileName
  <2>2. DeliveryTypeOK
    BY <2>1, Zenon DEF DeliveryTypeOK, DeliveryInv
  <2> QED
    BY <2>2 DEF AdmittedOnce, DeliveryInv
<1> QED
  BY <1>1, DeliveryInvariant, PTL

(* What a step may do to the outbox's knowledge of the envelopes it holds. *)
Grows ==
  \A x \in envelopes :
    LET cur == LoadReceipt(x)
        new == LoadReceipt(x)'
    IN \/ new = cur
       \/ /\ cur.status # "delivered" /\ new.attempt >= cur.attempt
          /\ new.attempt = cur.attempt => cur.status = "unknown"

LEMMA MarkGrows ==
  ASSUME DeliveryInv, NEW x \in Envelope, NEW new \in Receipt, Mark(x, new)
  PROVE  Grows
<1>1. receipts' = [receipts EXCEPT ![x] = new] /\ Transition(LoadReceipt(x), new)
  BY Zenon DEF Mark
<1>2. LoadReceipt(x) \in Receipt
  BY FirstIsReceipt, Zenon DEF LoadReceipt, DeliveryInv
<1>3. LoadReceipt(x)' = new
  BY <1>1, ReceiptThere, Zenon DEF LoadReceipt, DeliveryInv
<1>4. \A y \in envelopes : y # x => LoadReceipt(y)' = LoadReceipt(y)
  BY <1>1, Zenon DEF LoadReceipt, DeliveryInv
<1>5. /\ LoadReceipt(x).status # "delivered" /\ new.attempt >= LoadReceipt(x).attempt
      /\ new.attempt = LoadReceipt(x).attempt => LoadReceipt(x).status = "unknown"
  BY <1>1, <1>2, ReceiptThere DEF Transition
<1> QED
  BY <1>3, <1>4, <1>5, Zenon DEF Grows

LEMMA WriteGrows == ASSUME DeliveryInv, WriteFile PROVE Grows
<1> DEFINE x == Head(writing)[2]
<1>1. x \in Envelope /\ (receipts' = receipts \/ receipts' = [receipts EXCEPT ![x] = ReceiptKept(x)])
  BY DEF WriteFile, LockFree, DeliveryInv, FileName
<1> HIDE DEF x
<1>2. \A y \in Envelope : LoadReceipt(y)' = LoadReceipt(y)
  BY <1>1, FirstIsReceipt, ReceiptThere, Zenon DEF LoadReceipt, ReceiptKept, DeliveryInv
<1> QED
  BY <1>2, Zenon DEF Grows, DeliveryInv

(* No attempt number goes back, a delivered envelope stays delivered whatever
   enqueue does after a restart, and within one attempt only an unknown outcome
   is settled (enqueue, mark). *)
THEOREM KnowledgeOnlyGrows == DeliverySpec => KnowledgeGrows
<1>1. DeliveryInv /\ [DeliveryNext]_deliveryVars => [Grows]_deliveryVars
  <2>1. ASSUME UNCHANGED receipts PROVE Grows
    BY <2>1, Zenon DEF Grows, LoadReceipt
  <2>2. ASSUME NEW c, NEW x, Enqueue(c) \/ Crash \/ Dispatch(x) \/ Accept(x) PROVE UNCHANGED receipts
    BY <2>2, Zenon DEF Enqueue, Crash, Dispatch, Accept
  <2> QED
    BY <2>1, <2>2, WriteGrows, MarkGrows, Zenon DEF DeliveryNext
<1>2. DeliverySpec => [][Grows]_deliveryVars
  BY <1>1, DeliveryInvariant, PTL DEF DeliverySpec
<1> QED
  BY <1>2, Zenon DEF KnowledgeGrows, Grows
=============================================================================
