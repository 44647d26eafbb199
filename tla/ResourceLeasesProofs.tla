------------------------ MODULE ResourceLeasesProofs ------------------------
(***************************************************************************)
(* Proofs about the leases of the resource authority, for any resources,   *)
(* leases, holders, expiry times and ages of readings.                     *)
(*                                                                         *)
(* SoleLease and FencedQuiet are not inductive alone: that a moved         *)
(* generation cuts every lease off needs BehindGeneration, that no row and *)
(* no gate is ahead of its resource.                                       *)
(*                                                                         *)
(* Then about the Python environments that take these leases, for any      *)
(* number of borrowers, crashes, reboots and operations.                   *)
(***************************************************************************)
EXTENDS PythonEnvironment, TLAPS

LeaseInv == SoleLease /\ BehindGeneration /\ FencedQuiet

-----------------------------------------------------------------------------
(* A row that is there is a one-element tuple of a row record. *)
LEMMA RowType ==
  ASSUME LeaseTypeOK, NEW l \in LeaseId, row[l] # None
  PROVE  row[l] = <<row[l][1]>> /\ row[l][1] \in Row
  BY DEF LeaseTypeOK, None

(* Its fields. *)
LEMMA RowFields ==
  ASSUME NEW x \in Row
  PROVE  /\ x.gen \in 1..MaxGen /\ x.left \in (0 - MaxAge)..Never
         /\ x.released \in BOOLEAN /\ x.lapsed \in BOOLEAN
         /\ x.via \in {None} \cup {<<l>> : l \in LeaseId} /\ x.scopeGen \in 0..MaxGen
  BY Zenon DEF Row

(* What a grant, an extension, a renewal, a release and the clock write. *)
LEMMA GrantedType ==
  ASSUME LeaseTypeOK, NEW l \in LeaseId, NEW v \in {None} \cup {<<k>> : k \in LeaseId},
         NEW left \in (0 - MaxAge)..Never, gen[On[l]] > 0
  PROVE  Granted(l, v, left) \in Row
<1>1. gen[On[l]] \in 0..MaxGen /\ gen[Scope[l]] \in 0..MaxGen
  BY LeaseAssumption, Zenon DEF LeaseTypeOK
<1>2. gen[On[l]] \in 1..MaxGen
  BY <1>1, LeaseAssumption
<1> QED
  BY <1>1, <1>2, Zenon DEF Granted, Row

LEMMA TtlLeft ==
  ASSUME LeaseTypeOK, NEW ttl \in TTL, NEW age \in Ages
  PROVE  ttl - age \in (0 - MaxAge)..Never /\ age \in Nat /\ age <= MaxAge
  BY LeaseAssumption DEF LeaseTypeOK, Ages

-----------------------------------------------------------------------------
(* The second part of SoleLease. *)
Pairwise ==
  \A k, l \in LeaseId :
    k # l /\ On[k] = On[l] /\ On[k] \in Exclusive /\ Live(k) /\ Live(l)
      => row[k][1].lapsed \/ row[l][1].lapsed

LEMMA SoleIsPairwise == SoleLease <=> LeaseTypeOK /\ Pairwise
  BY Zenon DEF SoleLease, Pairwise

(* The parts of the invariant after a step. *)
LEMMA InvariantParts ==
  ASSUME LeaseTypeOK', Pairwise', BehindGeneration', FencedQuiet'
  PROVE  LeaseInv'
  BY Zenon DEF LeaseInv, SoleLease, Pairwise

(* A step after which a lease is only live if it was before, or has been
   renewed out of its time, keeps the leases apart. *)
LEMMA PairwiseKept ==
  ASSUME Pairwise,
         \A k \in LeaseId : Live(k)' =>
           row[k][1].lapsed' \/ (Live(k) /\ (row[k][1].lapsed => row[k][1].lapsed'))
  PROVE  Pairwise'
  BY Zenon DEF Pairwise

(* A step on the rows that leaves generations and gates alone, and writes rows
   of their old generation or of an admitted current one. *)
LEMMA GenerationsKept ==
  ASSUME LeaseTypeOK, BehindGeneration, FencedQuiet, UNCHANGED <<gen, gates>>,
         \A l \in LeaseId : row'[l] # None =>
           \/ row[l] # None /\ row'[l][1].gen = row[l][1].gen
           \/ row'[l][1].gen = gen[On[l]] /\ Admitted(On[l])
  PROVE  BehindGeneration' /\ FencedQuiet'
<1>1. \A r \in Resource : gen[r] \in Nat
  BY LeaseAssumption DEF LeaseTypeOK
<1>2. \A l \in LeaseId : On[l] \in Resource
  BY LeaseAssumption, Zenon
<1>3. BehindGeneration'
  BY <1>1, <1>2 DEF BehindGeneration
<1>4. FencedQuiet'
  <2> SUFFICES ASSUME NEW g \in gates, g.gen = gen[g.on], NEW l \in LeaseId, On[l] = g.on, row'[l] # None
               PROVE  row'[l][1].gen < gen[g.on]
    BY DEF FencedQuiet, LeasesOf
  <2>1. ~ Admitted(On[l])
    BY Zenon DEF Admitted
  <2>2. row[l] # None /\ row'[l][1].gen = row[l][1].gen
    BY <2>1, Zenon
  <2> QED
    BY <2>2, Zenon DEF FencedQuiet, LeasesOf
<1> QED
  BY <1>3, <1>4, Zenon

(* A step that only moves generations on: rows and gates of a moved one are
   behind it, and one without a generation has neither. *)
LEMMA GenerationsMoved ==
  ASSUME LeaseTypeOK, Pairwise, BehindGeneration, FencedQuiet, UNCHANGED <<row, gates>>,
         gen' \in [Resource -> 0..MaxGen],
         \A r \in Resource : gen'[r] = gen[r] \/ gen'[r] = gen[r] + 1
  PROVE  Pairwise' /\ BehindGeneration' /\ FencedQuiet'
<1>1. \A r \in Resource : gen[r] \in Nat /\ gen'[r] \in Nat /\ gen[r] <= gen'[r]
  BY LeaseAssumption DEF LeaseTypeOK
<1>2. \A l \in LeaseId : On[l] \in Resource
  BY LeaseAssumption, Zenon
<1>3. \A g \in gates : g.on \in Resource /\ g.gen \in Nat
  BY LeaseAssumption DEF LeaseTypeOK, Gate
<1>4. \A l \in LeaseId : row[l] # None => row[l][1].gen \in Nat
  BY RowType, RowFields, LeaseAssumption
<1>5. BehindGeneration'
  BY <1>1, <1>2, <1>3, <1>4 DEF BehindGeneration
<1>6. FencedQuiet'
  <2> SUFFICES ASSUME NEW g \in gates, g.gen = gen'[g.on], NEW l \in LeaseId, On[l] = g.on, row[l] # None
               PROVE  row[l][1].gen < gen'[g.on]
    BY Zenon DEF FencedQuiet, LeasesOf
  <2>1. g.gen <= gen[g.on]
    BY Zenon DEF BehindGeneration
  <2>2. gen[g.on] = gen'[g.on]
    BY <2>1, <1>1, <1>3
  <2> QED
    BY <2>2, Zenon DEF FencedQuiet, LeasesOf
<1>7. \A k \in LeaseId : Live(k)' => Live(k)
  <2> SUFFICES ASSUME NEW k \in LeaseId, Live(k)' PROVE Live(k)
    BY Zenon
  <2>1. row[k] # None /\ row[k][1].gen = gen'[On[k]] /\ row[k][1].gen <= gen[On[k]]
    BY Zenon DEF Live, LiveAt, BehindGeneration
  <2>2. gen[On[k]] = gen'[On[k]]
    BY <2>1, <1>1, <1>2, <1>4
  <2> QED
    BY <2>1, <2>2, Zenon DEF Live, LiveAt
<1>8. Pairwise'
  BY <1>7, PairwiseKept, Zenon
<1> QED
  BY <1>5, <1>6, <1>8, Zenon

(* One row is written. *)
LEMMA RowWritten ==
  ASSUME LeaseTypeOK, NEW l \in LeaseId, NEW x \in Row, row' = [row EXCEPT ![l] = <<x>>],
         UNCHANGED <<gen, gates, up>>
  PROVE  /\ LeaseTypeOK'
         /\ row'[l] = <<x>> /\ row'[l][1] = x
         /\ \A k \in LeaseId \ {l} : row'[k] = row[k]
  BY Zenon DEF LeaseTypeOK

-----------------------------------------------------------------------------
(* One step per kind of action. *)

LEMMA EnsureKeeps ==
  ASSUME LeaseInv, NEW r \in Resource, EnsureGeneration(r) \/ AdvanceGeneration(r)
  PROVE  LeaseInv'
<1>1. LeaseTypeOK /\ Pairwise /\ BehindGeneration /\ FencedQuiet
  BY SoleIsPairwise, Zenon DEF LeaseInv
<1>2. gen' \in [Resource -> 0..MaxGen] /\ (\A q \in Resource : gen'[q] = gen[q] \/ gen'[q] = gen[q] + 1)
  <2>1. CASE EnsureGeneration(r)
    <3>1. MaxGen \in Nat /\ gen[r] \in 0..MaxGen /\ gen[r] = 0
      BY <1>1, <2>1, LeaseAssumption, Zenon DEF LeaseTypeOK, EnsureGeneration
    <3>2. MaxGen >= 1
      BY <1>1, LeaseAssumption DEF LeaseTypeOK
    <3> QED
      BY <1>1, <2>1, <3>1, <3>2 DEF LeaseTypeOK, EnsureGeneration
  <2>2. CASE AdvanceGeneration(r)
    BY <1>1, <2>2, LeaseAssumption DEF LeaseTypeOK, AdvanceGeneration
  <2> QED
    BY <2>1, <2>2, Zenon
<1>3. UNCHANGED <<row, gates, up>>
  BY Zenon DEF EnsureGeneration, AdvanceGeneration
<1>4. LeaseTypeOK'
  BY <1>1, <1>2, <1>3, Zenon DEF LeaseTypeOK
<1> QED
  BY <1>1, <1>2, <1>3, <1>4, GenerationsMoved, InvariantParts, Zenon

LEMMA AcquireExclusiveKeeps ==
  ASSUME LeaseInv, NEW l \in LeaseId, NEW age \in Ages, NEW v \in Vias(Scope[l]),
         NEW ttl \in TTL, AcquireExclusive(l, v, ttl, age)
  PROVE  LeaseInv'
<1>1. LeaseTypeOK /\ Pairwise /\ BehindGeneration /\ FencedQuiet
  BY SoleIsPairwise, Zenon DEF LeaseInv
<1>2. ttl - age \in (0 - MaxAge)..Never /\ age \in Nat
  BY <1>1, TtlLeft, Zenon
<1>3. v \in {None} \cup {<<k>> : k \in LeaseId}
  BY Zenon DEF Vias, LeasesOf
<1>4. gen[On[l]] > 0 /\ Admitted(On[l]) /\ UNCHANGED <<gen, gates, up>>
  BY Zenon DEF AcquireExclusive, Admissible
<1>5. \A k \in LeaseId \ {l} : On[k] = On[l] => ~ Live(k)
  <2> SUFFICES ASSUME NEW k \in LeaseId \ {l}, On[k] = On[l], Live(k) PROVE FALSE
    BY Zenon
  <2>1. row[k][1].left \in Int
    BY <1>1, RowType, RowFields, LeaseAssumption DEF Live, LiveAt
  <2>2. LiveAt(k, age)
    BY <2>1, <1>2 DEF Live, LiveAt
  <2>3. k \in Competing(l, age)
    BY <2>2, Zenon DEF Competing, LeasesOf
  <2> QED
    BY <2>3, Zenon DEF AcquireExclusive
<1>6. PICK x \in Row : row' = [row EXCEPT ![l] = <<x>>] /\ x.gen = gen[On[l]]
  <2>1. CASE Competing(l, age) = {}
    <3>1. Granted(l, v, ttl - age) \in Row /\ Granted(l, v, ttl - age).gen = gen[On[l]]
      BY <1>1, <1>2, <1>3, <1>4, GrantedType, Zenon DEF Granted
    <3> QED
      BY <2>1, <3>1, Zenon DEF AcquireExclusive
  <2>2. CASE Competing(l, age) = {l}
    <3>1. LiveAt(l, age)
      BY <2>2, Zenon DEF Competing
    <3>2. row[l][1] \in Row /\ row[l][1].gen = gen[On[l]]
      BY <1>1, <3>1, RowType, Zenon DEF LiveAt
    <3> DEFINE x == [row[l][1] EXCEPT !.left = ttl - age, !.lapsed = FALSE]
    <3>3. x \in Row /\ x.gen = gen[On[l]]
      BY <3>2, <1>2, Zenon DEF Row
    <3>4. row' = [row EXCEPT ![l] = <<x>>]
      BY <2>2, Zenon DEF AcquireExclusive
    <3> QED
      BY <3>3, <3>4, Zenon
  <2> QED
    BY <2>1, <2>2, Zenon DEF AcquireExclusive
<1>7. LeaseTypeOK' /\ row'[l][1] = x /\ \A k \in LeaseId \ {l} : row'[k] = row[k]
  BY <1>1, <1>4, <1>6, RowWritten, Zenon
<1>8. Pairwise'
  <2>1. \A k \in LeaseId \ {l} : Live(k)' => Live(k) /\ row'[k] = row[k]
    BY <1>7, <1>4, Zenon DEF Live, LiveAt
  <2> QED
    BY <2>1, <1>1, <1>5, Zenon DEF Pairwise
<1>9. \A k \in LeaseId : row'[k] # None =>
        \/ row[k] # None /\ row'[k][1].gen = row[k][1].gen
        \/ row'[k][1].gen = gen[On[k]] /\ Admitted(On[k])
  BY <1>7, <1>6, <1>4, Zenon
<1>10. BehindGeneration' /\ FencedQuiet'
  BY <1>1, <1>4, <1>9, GenerationsKept, Zenon
<1> QED
  BY <1>7, <1>8, <1>10, InvariantParts, Zenon

LEMMA AcquireLeaseKeeps ==
  ASSUME LeaseInv, NEW l \in LeaseId, NEW v \in Vias(Scope[l]), NEW age,
         NEW left \in (0 - MaxAge)..Never, AcquireLease(l, v, left, age)
  PROVE  LeaseInv'
<1>1. LeaseTypeOK /\ Pairwise /\ BehindGeneration /\ FencedQuiet
  BY SoleIsPairwise, Zenon DEF LeaseInv
<1>2. v \in {None} \cup {<<k>> : k \in LeaseId}
  BY Zenon DEF Vias, LeasesOf
<1>3. gen[On[l]] > 0 /\ Admitted(On[l]) /\ UNCHANGED <<gen, gates, up>> /\ On[l] \notin Exclusive
  BY Zenon DEF AcquireLease, Admissible
<1>4. Granted(l, v, left) \in Row /\ Granted(l, v, left).gen = gen[On[l]]
  BY <1>1, <1>2, <1>3, GrantedType, Zenon DEF Granted
<1>5. LeaseTypeOK' /\ row'[l][1] = Granted(l, v, left) /\ \A k \in LeaseId \ {l} : row'[k] = row[k]
  BY <1>1, <1>3, <1>4, RowWritten, Zenon DEF AcquireLease
<1>6. Pairwise'
  <2>1. \A k \in LeaseId \ {l} : Live(k)' => Live(k) /\ row'[k] = row[k]
    BY <1>5, <1>3, Zenon DEF Live, LiveAt
  <2> QED
    BY <2>1, <1>1, <1>3, Zenon DEF Pairwise
<1>7. \A k \in LeaseId : row'[k] # None =>
        \/ row[k] # None /\ row'[k][1].gen = row[k][1].gen
        \/ row'[k][1].gen = gen[On[k]] /\ Admitted(On[k])
  BY <1>3, <1>4, <1>5, Zenon
<1>8. BehindGeneration' /\ FencedQuiet'
  BY <1>1, <1>3, <1>7, GenerationsKept, Zenon
<1> QED
  BY <1>5, <1>6, <1>8, InvariantParts, Zenon

LEMMA RenewKeeps ==
  ASSUME LeaseInv, NEW L \in SUBSET LeaseId, NEW ttl \in TTL, NEW age \in Ages, Renew(L, ttl, age)
  PROVE  LeaseInv'
<1>1. LeaseTypeOK /\ Pairwise /\ BehindGeneration /\ FencedQuiet
  BY SoleIsPairwise, Zenon DEF LeaseInv
<1>2. ttl - age \in (0 - MaxAge)..Never /\ age \in Nat
  BY <1>1, TtlLeft, Zenon
<1>3. UNCHANGED <<gen, gates, up>> /\ \A l \in L : LiveAt(l, age)
  BY Zenon DEF Renew, Renewable
<1>4. \A l \in L : row[l][1] \in Row
  BY <1>1, <1>3, RowType, Zenon DEF LiveAt
<1> DEFINE x(l) == [row[l][1] EXCEPT !.left = ttl - age, !.lapsed = @ \/ row[l][1].left <= 0]
<1>5. \A l \in LeaseId : row'[l] = IF l \in L THEN <<x(l)>> ELSE row[l]
  BY Zenon DEF Renew
<1>6. \A l \in L : /\ x(l) \in Row /\ x(l).gen = row[l][1].gen
                   /\ x(l).lapsed = (row[l][1].lapsed \/ row[l][1].left <= 0)
  BY <1>2, <1>4, Zenon DEF Row
<1> HIDE DEF x
<1>a. \A l \in L : row'[l][1] = x(l)
  <2> TAKE l \in L
  <2>1. row'[l] = <<x(l)>>
    BY <1>5, Zenon
  <2> QED
    BY <2>1
<1>7. LeaseTypeOK'
  <2>1. DOMAIN row' = LeaseId /\ row' = [l \in LeaseId |-> row'[l]]
    BY Zenon DEF Renew
  <2>2. \A l \in LeaseId : row'[l] \in {None} \cup {<<y>> : y \in Row}
    BY <1>1, <1>5, <1>6, Zenon DEF LeaseTypeOK
  <2> QED
    BY <1>1, <1>3, <2>1, <2>2, Zenon DEF LeaseTypeOK
<1>8. \A l \in LeaseId : Live(l)' =>
        row[l][1].lapsed' \/ (Live(l) /\ (row[l][1].lapsed => row[l][1].lapsed'))
  <2> SUFFICES ASSUME NEW l \in LeaseId, Live(l)'
               PROVE  row'[l][1].lapsed \/ (Live(l) /\ (row[l][1].lapsed => row'[l][1].lapsed))
    BY Zenon
  <2>1. CASE l \notin L
    BY <2>1, <1>3, <1>5, Zenon DEF Live, LiveAt
  <2>2. CASE l \in L /\ row[l][1].left <= 0
    BY <2>2, <1>6, <1>a, Zenon
  <2>3. CASE l \in L /\ ~ (row[l][1].left <= 0)
    <3>1. row[l][1].left \in Int
      BY <2>3, <1>4, RowFields, LeaseAssumption
    <3>2. Live(l)
      BY <2>3, <3>1, <1>3 DEF Live, LiveAt
    <3> QED
      BY <3>2, <2>3, <1>6, <1>a, Zenon
  <2> QED
    BY <2>1, <2>2, <2>3, Zenon
<1>9. Pairwise'
  BY <1>1, <1>8, PairwiseKept, Zenon
<1>10. \A l \in LeaseId : row'[l] # None =>
         \/ row[l] # None /\ row'[l][1].gen = row[l][1].gen
         \/ row'[l][1].gen = gen[On[l]] /\ Admitted(On[l])
  <2>1. \A l \in L : row[l] # None
    BY <1>3, Zenon DEF LiveAt
  <2> QED
    BY <2>1, <1>5, <1>6, <1>a, Zenon
<1>11. BehindGeneration' /\ FencedQuiet'
  BY <1>1, <1>3, <1>10, GenerationsKept, Zenon
<1> QED
  BY <1>7, <1>9, <1>11, InvariantParts, Zenon

LEMMA ReleaseKeeps ==
  ASSUME LeaseInv, NEW l \in LeaseId, ReleaseLease(l)
  PROVE  LeaseInv'
<1>1. LeaseTypeOK /\ Pairwise /\ BehindGeneration /\ FencedQuiet
  BY SoleIsPairwise, Zenon DEF LeaseInv
<1>2. row[l] # None /\ UNCHANGED <<gen, gates, up>>
  BY Zenon DEF ReleaseLease
<1>3. row[l] = <<row[l][1]>> /\ row[l][1] \in Row
  BY <1>1, <1>2, RowType, Zenon
<1> DEFINE x == [row[l][1] EXCEPT !.released = TRUE]
<1>4. x \in Row /\ x.gen = row[l][1].gen /\ x.released
  BY <1>3, Zenon DEF Row
<1>5. row' = [row EXCEPT ![l] = <<x>>]
  BY <1>3, Zenon DEF ReleaseLease
<1>6. LeaseTypeOK' /\ row'[l][1] = x /\ \A k \in LeaseId \ {l} : row'[k] = row[k]
  BY <1>1, <1>2, <1>4, <1>5, RowWritten, Zenon
<1>7. \A k \in LeaseId : Live(k)' => Live(k) /\ row'[k] = row[k]
  BY <1>2, <1>4, <1>6, Zenon DEF Live, LiveAt
<1>8. Pairwise'
  BY <1>1, <1>7, PairwiseKept, Zenon
<1>9. \A k \in LeaseId : row'[k] # None => row[k] # None /\ row'[k][1].gen = row[k][1].gen
  BY <1>2, <1>4, <1>6, Zenon
<1>10. BehindGeneration' /\ FencedQuiet'
  BY <1>1, <1>2, <1>9, GenerationsKept, Zenon
<1> QED
  BY <1>6, <1>8, <1>10, InvariantParts, Zenon

LEMMA TickKeeps ==
  ASSUME LeaseInv, Tick
  PROVE  LeaseInv'
<1>1. LeaseTypeOK /\ Pairwise /\ BehindGeneration /\ FencedQuiet
  BY SoleIsPairwise, Zenon DEF LeaseInv
<1>2. UNCHANGED <<gen, gates>> /\ up' \in 0..MaxAge
  BY <1>1, LeaseAssumption DEF Tick, LeaseTypeOK
<1> DEFINE aged(l) == row[l] # None /\ row[l][1].left \in (1 - MaxAge)..(Never - 1)
           x(l) == [row[l][1] EXCEPT !.left = @ - 1]
<1>3. \A l \in LeaseId : row'[l] = IF aged(l) THEN <<x(l)>> ELSE row[l]
  BY Zenon DEF Tick
<1>4. \A l \in LeaseId : aged(l) => /\ x(l) \in Row
                                    /\ x(l).gen = row[l][1].gen /\ x(l).lapsed = row[l][1].lapsed
                                    /\ x(l).released = row[l][1].released
                                    /\ x(l).left = row[l][1].left - 1 /\ row[l][1].left \in Int
  <2> SUFFICES ASSUME NEW l \in LeaseId, aged(l)
               PROVE  /\ x(l) \in Row
                      /\ x(l).gen = row[l][1].gen /\ x(l).lapsed = row[l][1].lapsed
                      /\ x(l).released = row[l][1].released
                      /\ x(l).left = row[l][1].left - 1 /\ row[l][1].left \in Int
    BY Zenon
  <2>1. row[l][1] \in Row
    BY <1>1, RowType, Zenon
  <2>2. row[l][1].left - 1 \in (0 - MaxAge)..Never /\ row[l][1].left \in Int
    BY LeaseAssumption
  <2> QED
    BY <2>1, <2>2, Zenon DEF Row
<1> HIDE DEF aged, x
<1>a. \A l \in LeaseId : aged(l) => row[l] # None /\ row'[l][1] = x(l)
  <2> SUFFICES ASSUME NEW l \in LeaseId, aged(l) PROVE row[l] # None /\ row'[l][1] = x(l)
    BY Zenon
  <2>1. row'[l] = <<x(l)>>
    BY <1>3, Zenon
  <2> QED
    BY <2>1 DEF aged
<1>5. LeaseTypeOK'
  <2>1. row' = [l \in LeaseId |-> row'[l]]
    BY Zenon DEF Tick
  <2>2. \A l \in LeaseId : row'[l] \in {None} \cup {<<y>> : y \in Row}
    BY <1>1, <1>3, <1>4, Zenon DEF LeaseTypeOK
  <2> QED
    BY <1>1, <1>2, <2>1, <2>2, Zenon DEF LeaseTypeOK
<1>6. \A l \in LeaseId : Live(l)' => Live(l) /\ row'[l][1].lapsed = row[l][1].lapsed
  <2> SUFFICES ASSUME NEW l \in LeaseId, Live(l)'
               PROVE  Live(l) /\ row'[l][1].lapsed = row[l][1].lapsed
    BY Zenon
  <2>1. CASE aged(l)
    BY <2>1, <1>2, <1>4, <1>a DEF Live, LiveAt
  <2>2. CASE ~ aged(l)
    BY <2>2, <1>2, <1>3, Zenon DEF Live, LiveAt
  <2> QED
    BY <2>1, <2>2, Zenon
<1>7. Pairwise'
  BY <1>1, <1>6, PairwiseKept, Zenon
<1>8. \A l \in LeaseId : row'[l] # None => row[l] # None /\ row'[l][1].gen = row[l][1].gen
  BY <1>3, <1>4, <1>a, Zenon
<1>9. BehindGeneration' /\ FencedQuiet'
  BY <1>1, <1>2, <1>8, GenerationsKept, Zenon
<1> QED
  BY <1>5, <1>7, <1>9, InvariantParts, Zenon

LEMMA FenceKeeps ==
  ASSUME LeaseInv, NEW r \in Resource, NEW h \in Holder, NEW age, Fence(r, h, age)
  PROVE  LeaseInv'
<1>1. LeaseTypeOK /\ Pairwise /\ BehindGeneration /\ FencedQuiet
  BY SoleIsPairwise, Zenon DEF LeaseInv
<1> DEFINE n == [on |-> r, gen |-> gen[r] + 1, holder |-> h, scopeGen |-> gen[Platform]]
<1>2. gates' = gates \cup {n} /\ UNCHANGED <<row, up>> /\ gen' = [gen EXCEPT ![r] = @ + 1]
  BY Zenon DEF Fence
<1>3. MaxGen \in Nat /\ gen \in [Resource -> 0..MaxGen] /\ gen[r] \in 1..(MaxGen - 1)
      /\ gen[Platform] \in 0..MaxGen
  BY <1>1, LeaseAssumption, Zenon DEF LeaseTypeOK, Fence
<1>4. gen' \in [Resource -> 0..MaxGen] /\ gen'[r] = gen[r] + 1 /\ \A q \in Resource \ {r} : gen'[q] = gen[q]
  BY <1>2, <1>3
<1>5. n \in Gate
  BY <1>3 DEF Gate
<1>6. LeaseTypeOK'
  BY <1>1, <1>2, <1>4, <1>5, Zenon DEF LeaseTypeOK
<1>7. \A l \in LeaseId : row[l] # None => row[l][1].gen \in Nat /\ row[l][1].gen <= gen[On[l]]
  BY <1>1, RowType, RowFields, LeaseAssumption DEF BehindGeneration
<1>8. \A g \in gates : g.on \in Resource /\ g.gen \in Nat /\ g.gen <= gen[g.on]
  BY <1>1, LeaseAssumption DEF BehindGeneration, LeaseTypeOK, Gate
<1>9. \A l \in LeaseId : On[l] \in Resource
  BY LeaseAssumption, Zenon
<1>10. BehindGeneration'
  <2>1. \A l \in LeaseId : row[l] # None => row[l][1].gen <= gen'[On[l]]
    BY <1>3, <1>4, <1>7, <1>9
  <2>2. \A g \in gates : g.gen <= gen'[g.on]
    BY <1>3, <1>4, <1>8
  <2>3. n.gen <= gen'[n.on]
    BY <1>3, <1>4
  <2> QED
    BY <1>2, <2>1, <2>2, <2>3, Zenon DEF BehindGeneration
<1>11. FencedQuiet'
  <2> SUFFICES ASSUME NEW g \in gates', g.gen = gen'[g.on], NEW l \in LeaseId, On[l] = g.on, row[l] # None
               PROVE  row[l][1].gen < gen'[g.on]
    BY <1>2, Zenon DEF FencedQuiet, LeasesOf
  <2>1. CASE g.on = r
    BY <2>1, <1>3, <1>4, <1>7
  <2>2. CASE g.on # r
    <3>1. g \in gates
      BY <2>2, <1>2
    <3>2. gen'[g.on] = gen[g.on]
      BY <2>2, <3>1, <1>4, <1>8, Zenon
    <3> QED
      BY <3>1, <3>2, <1>1, Zenon DEF FencedQuiet, LeasesOf
  <2> QED
    BY <2>1, <2>2, Zenon
<1>12. \A k \in LeaseId : Live(k)' => Live(k)
  <2> SUFFICES ASSUME NEW k \in LeaseId, Live(k)' PROVE Live(k)
    BY Zenon
  <2>1. row[k] # None /\ row[k][1].gen = gen'[On[k]]
    BY <1>2, Zenon DEF Live, LiveAt
  <2>2. On[k] # r
    BY <2>1, <1>3, <1>4, <1>7
  <2> QED
    BY <2>1, <2>2, <1>2, <1>4, <1>9, Zenon DEF Live, LiveAt
<1>13. Pairwise'
  BY <1>1, <1>2, <1>12, PairwiseKept, Zenon
<1> QED
  BY <1>6, <1>10, <1>11, <1>13, InvariantParts, Zenon

LEMMA GateKeeps ==
  ASSUME LeaseInv, NEW g \in gates, ReleaseGate(g) \/ ReleaseOrphanGate(g)
  PROVE  LeaseInv'
<1>1. LeaseTypeOK /\ Pairwise /\ BehindGeneration /\ FencedQuiet
  BY SoleIsPairwise, Zenon DEF LeaseInv
<1>2. gates' = gates \ {g} /\ UNCHANGED <<gen, row, up>>
  BY Zenon DEF ReleaseGate, ReleaseOrphanGate
<1>3. LeaseTypeOK'
  BY <1>1, <1>2, Zenon DEF LeaseTypeOK
<1>4. BehindGeneration' /\ FencedQuiet'
  BY <1>1, <1>2, Zenon DEF BehindGeneration, FencedQuiet
<1>5. Pairwise'
  BY <1>1, <1>2, Zenon DEF Pairwise, Live, LiveAt
<1> QED
  BY <1>3, <1>4, <1>5, InvariantParts, Zenon

LEMMA RebootKeeps ==
  ASSUME LeaseInv, Reboot
  PROVE  LeaseInv'
<1>1. LeaseTypeOK /\ Pairwise /\ BehindGeneration /\ FencedQuiet
  BY SoleIsPairwise, Zenon DEF LeaseInv
<1>2. UNCHANGED <<row, gates>> /\ up' = 0
  BY Zenon DEF Reboot
<1>3. gen' \in [Resource -> 0..MaxGen] /\ \A r \in Resource : gen'[r] = gen[r] \/ gen'[r] = gen[r] + 1
  BY <1>1, LeaseAssumption DEF LeaseTypeOK, Reboot, FencedGenerations
<1>4. LeaseTypeOK'
  BY <1>1, <1>2, <1>3, LeaseAssumption DEF LeaseTypeOK
<1> QED
  BY <1>1, <1>2, <1>3, <1>4, GenerationsMoved, InvariantParts, Zenon

(* No lease outlives a reboot. *)
LEMMA RebootCutsOff ==
  ASSUME LeaseInv, Reboot, NEW l \in LeaseId
  PROVE  ~ Live(l)'
<1> SUFFICES ASSUME row[l] # None, row[l][1].gen = gen'[On[l]] PROVE FALSE
  BY Zenon DEF Reboot, Live, LiveAt
<1>1. LeaseTypeOK /\ BehindGeneration
  BY SoleIsPairwise, Zenon DEF LeaseInv
<1>2. On[l] \in Resource /\ gen[On[l]] \in Nat
  BY <1>1, LeaseAssumption DEF LeaseTypeOK
<1>3. row[l][1].gen \in Nat \ {0} /\ row[l][1].gen <= gen[On[l]]
  BY <1>1, RowType, RowFields, LeaseAssumption DEF BehindGeneration
<1> QED
  BY <1>2, <1>3 DEF Reboot, FencedGenerations

-----------------------------------------------------------------------------
LEMMA InitHolds == LeaseInit => LeaseInv
<1> SUFFICES ASSUME LeaseInit PROVE LeaseInv
  BY Zenon
<1>1. LeaseTypeOK
  BY LeaseAssumption DEF LeaseInit, LeaseTypeOK
<1>2. Pairwise /\ BehindGeneration /\ FencedQuiet
  BY Zenon DEF LeaseInit, Pairwise, Live, LiveAt, BehindGeneration, FencedQuiet
<1> QED
  BY <1>1, <1>2, SoleIsPairwise, Zenon DEF LeaseInv

LEMMA NextKeeps == LeaseInv /\ [LeaseNext]_leaseVars => LeaseInv'
<1> SUFFICES ASSUME LeaseInv, [LeaseNext]_leaseVars PROVE LeaseInv'
  BY Zenon
<1>0. LeaseTypeOK
  BY SoleIsPairwise, Zenon DEF LeaseInv
<1>1. CASE \E r \in Resource \ {Platform} : EnsureGeneration(r) \/ AdvanceGeneration(r)
  BY <1>1, EnsureKeeps, Zenon
<1>2. CASE \E l \in LeaseId, age \in Ages : \E v \in Vias(Scope[l]) :
             \/ AcquireConsumer(l, v, age)
             \/ \E ttl \in TTL : AcquireExclusive(l, v, ttl, age) \/ AcquireTtl(l, v, ttl, age)
  <2>1. PICK l \in LeaseId, age \in Ages : \E v \in Vias(Scope[l]) :
             \/ AcquireConsumer(l, v, age)
             \/ \E ttl \in TTL : AcquireExclusive(l, v, ttl, age) \/ AcquireTtl(l, v, ttl, age)
    BY <1>2, Zenon
  <2>2. PICK v \in Vias(Scope[l]) :
             \/ AcquireConsumer(l, v, age)
             \/ \E ttl \in TTL : AcquireExclusive(l, v, ttl, age) \/ AcquireTtl(l, v, ttl, age)
    BY <2>1, Zenon
  <2>3. CASE AcquireConsumer(l, v, age)
    <3>1. Never \in (0 - MaxAge)..Never
      BY LeaseAssumption
    <3> QED
      BY <2>3, <3>1, AcquireLeaseKeeps, Zenon DEF AcquireConsumer
  <2>4. ASSUME NEW ttl \in TTL, AcquireExclusive(l, v, ttl, age) PROVE LeaseInv'
    BY <2>4, AcquireExclusiveKeeps, Zenon
  <2>5. ASSUME NEW ttl \in TTL, AcquireTtl(l, v, ttl, age) PROVE LeaseInv'
    <3>1. ttl - age \in (0 - MaxAge)..Never
      BY <1>0, TtlLeft, Zenon
    <3>2. PICK later \in 0..age : AcquireLease(l, v, ttl - age, later)
      BY <2>5, Zenon DEF AcquireTtl
    <3> QED
      BY <3>1, <3>2, AcquireLeaseKeeps, Zenon
  <2> QED
    BY <2>2, <2>3, <2>4, <2>5, Zenon
<1>3. CASE \E L \in SUBSET LeaseId, ttl \in TTL, age \in Ages : Renew(L, ttl, age)
  BY <1>3, RenewKeeps, Zenon
<1>4. CASE \E l \in LeaseId : ReleaseLease(l)
  BY <1>4, ReleaseKeeps, Zenon
<1>5. CASE \E r \in Shared, h \in Holder, age \in Ages : Fence(r, h, age)
  BY <1>5, FenceKeeps, Zenon DEF Shared
<1>6. CASE \E g \in gates : ReleaseGate(g) \/ ReleaseOrphanGate(g)
  BY <1>6, GateKeeps, Zenon
<1>7. CASE Tick
  BY <1>7, TickKeeps, Zenon
<1>8. CASE Reboot
  BY <1>8, RebootKeeps, Zenon
<1>9. CASE UNCHANGED leaseVars
  BY <1>9, Zenon DEF leaseVars, LeaseInv, SoleLease, LeaseTypeOK, BehindGeneration, FencedQuiet, Live, LiveAt
<1> QED
  BY <1>1, <1>2, <1>3, <1>4, <1>5, <1>6, <1>7, <1>8, <1>9, Zenon DEF LeaseNext

LEMMA LeasesInductive == LeaseSpec => []LeaseInv
  BY InitHolds, NextKeeps, PTL DEF LeaseSpec

(* acquire_exclusive_ttl_lease never grants beside a live lease; only a renewal
   by a stale reading of a lease that had run out makes two live at once. *)
THEOREM SoleLeaseHolds == LeaseSpec => []SoleLease
<1>1. LeaseInv => SoleLease
  BY Zenon DEF LeaseInv
<1> QED
  BY <1>1, LeasesInductive, PTL

(* While the gate of a fence stands, its resource has no lease of the fenced
   generation: nobody consumes what is being retired. *)
THEOREM FencedStaysQuiet == LeaseSpec => []FencedQuiet
<1>1. LeaseInv => FencedQuiet
  BY Zenon DEF LeaseInv
<1> QED
  BY <1>1, LeasesInductive, PTL

(* fence_if_no_live_leases cuts off no live consumer, whatever the age of its
   reading, and a reboot cuts off all of them. *)
THEOREM NoneIsCutOff == LeaseSpec => NoneCutOff
<1>1. LeaseInv /\ [LeaseNext]_leaseVars =>
        [/\ \A g \in gates' \ gates : \A l \in LeasesOf(g.on) \ Own[g.holder] : ~ Live(l)
         /\ Reboot => \A l \in LeaseId : ~ Live(l)']_leaseVars
  <2> SUFFICES ASSUME LeaseInv, LeaseNext
               PROVE  /\ \A g \in gates' \ gates : \A l \in LeasesOf(g.on) \ Own[g.holder] : ~ Live(l)
                      /\ Reboot => \A l \in LeaseId : ~ Live(l)'
    BY Zenon
  <2>0. LeaseTypeOK
    BY SoleIsPairwise, Zenon DEF LeaseInv
  <2>1. \/ gates' \subseteq gates
        \/ \E r \in Shared, h \in Holder, age \in Ages : Fence(r, h, age)
    <3>1. CASE \E l \in LeaseId, age \in Ages : \E v \in Vias(Scope[l]) :
                 \/ AcquireConsumer(l, v, age)
                 \/ \E ttl \in TTL : AcquireExclusive(l, v, ttl, age) \/ AcquireTtl(l, v, ttl, age)
      <4>1. \A l, v, left, age : AcquireLease(l, v, left, age) => gates' = gates
        BY Zenon DEF AcquireLease
      <4>2. \A l, v, ttl, age : AcquireExclusive(l, v, ttl, age) => gates' = gates
        BY Zenon DEF AcquireExclusive
      <4>3. gates' = gates
        BY <3>1, <4>1, <4>2, Zenon DEF AcquireConsumer, AcquireTtl
      <4> QED
        BY <4>3, Zenon
    <3>2. CASE \E r \in Resource \ {Platform} : EnsureGeneration(r) \/ AdvanceGeneration(r)
      BY <3>2, Zenon DEF EnsureGeneration, AdvanceGeneration
    <3>3. CASE \E L \in SUBSET LeaseId, ttl \in TTL, age \in Ages : Renew(L, ttl, age)
      BY <3>3, Zenon DEF Renew
    <3>4. CASE \E l \in LeaseId : ReleaseLease(l)
      BY <3>4, Zenon DEF ReleaseLease
    <3>5. CASE \E g \in gates : ReleaseGate(g) \/ ReleaseOrphanGate(g)
      BY <3>5, Zenon DEF ReleaseGate, ReleaseOrphanGate
    <3>6. CASE Tick \/ Reboot
      BY <3>6, Zenon DEF Tick, Reboot
    <3> QED
      BY <3>1, <3>2, <3>3, <3>4, <3>5, <3>6, Zenon DEF LeaseNext
  <2>2. ASSUME NEW r \in Shared, NEW h \in Holder, NEW age \in Ages, Fence(r, h, age),
               NEW g \in gates' \ gates, NEW l \in LeasesOf(g.on) \ Own[g.holder], Live(l)
        PROVE  FALSE
    <3>1. g.on = r /\ g.holder = h
      BY <2>2 DEF Fence
    <3>2. age \in Nat
      BY <2>0, LeaseAssumption DEF LeaseTypeOK, Ages
    <3>3. row[l][1].left \in Int
      BY <2>0, <2>2, RowType, RowFields, LeaseAssumption DEF Live, LiveAt, LeasesOf
    <3>4. LiveAt(l, age)
      BY <2>2, <3>2, <3>3 DEF Live, LiveAt
    <3> QED
      BY <2>2, <3>1, <3>4, Zenon DEF Fence, Consumers
  <2>3. \A g \in gates' \ gates : \A l \in LeasesOf(g.on) \ Own[g.holder] : ~ Live(l)
    BY <2>1, <2>2, Zenon
  <2>4. Reboot => \A l \in LeaseId : ~ Live(l)'
    BY RebootCutsOff, Zenon
  <2> QED
    BY <2>3, <2>4, Zenon
<1> QED
  BY <1>1, LeasesInductive, PTL DEF LeaseSpec, NoneCutOff

-----------------------------------------------------------------------------
(***************************************************************************)
(* The environment on these leases.  A step of its lifecycle is a step of  *)
(* the leases or leaves them alone, so all of the above holds for it.      *)
(***************************************************************************)
Borrow == [stage : {"got", "leased", "using"}, gen : 1..MaxGen]

EnvironmentType ==
  /\ txn \in {None} \cup {<<x>> : x \in Transaction} /\ reg \in {None} \cup {<<x>> : x \in Entry}
  /\ root \in {"absent", "partial", "whole"}
  /\ op \in {None} \cup {<<x>> : x \in Operation}
  /\ user \in [LeaseId -> {None} \cup {<<x>> : x \in Borrow}]
  /\ damage \in Nat

(* No operation acts before its recovery has left nothing pending, and a
   directory is only built for the create that announced it. *)
OperationInv ==
  /\ At({"act"}) => ~ Pending
  /\ At({"build"}) => Pending /\ txn[1].op = "create" /\ txn[1].phase = "prepared"
  /\ op # None /\ op[1].want = "get" => op[1].by # None

(* Nobody was given an entry of the present generation. *)
Nobody == \A l \in LeaseId : user[l] # None => user[l][1].gen # gen[Env]

Intact == damage = 0 => root = "whole"

CreateInv ==
  /\ txn[1].owned = "managed"
  /\ txn[1].phase = "prepared" => ~ Registered
  /\ txn[1].phase = "materialized" => Intact /\ Nobody /\ (Registered => reg[1].owned = "managed")
  /\ txn[1].phase = "committed" => Intact /\ Registered /\ reg[1].owned = "managed"

RemoveInv ==
  /\ reg # None /\ reg[1].gen = txn[1].gen /\ reg[1].owned = txn[1].owned
  /\ reg[1].status \in {"registered", "retired"}
  /\ txn[1].phase # "prepared" => reg[1].status = "retired"
  /\ txn[1].owned = "managed" /\ txn[1].phase = "prepared" => Intact
  /\ damage = 0 /\ (txn[1].owned = "external" \/ txn[1].phase = "committed") => root = "absent"

TransactionInv ==
  /\ Settled
  /\ Pending /\ txn[1].op = "create" => CreateInv
  /\ Pending /\ txn[1].op = "remove" => RemoveInv

(* What a borrower with entry u and lease row r may rely on. *)
BorrowInv(u, r) ==
  /\ u.gen <= gen[Env]
  /\ u.gen = gen[Env] => /\ Registered /\ reg[1].gen = gen[Env]
                         /\ reg[1].owned = "managed" => root = "whole" \/ damage > 0
  /\ u.stage # "got" => r # None /\ r[1].gen = gen[Env] /\ ~ r[1].released /\ r[1].left = Never
  /\ u.stage = "using" => u.gen = gen[Env]

UserInv == \A l \in LeaseId : user[l] # None => BorrowInv(user[l][1], row[l])

EnvironmentInv == EnvironmentType /\ OperationInv /\ TransactionInv /\ UserInv

-----------------------------------------------------------------------------
LEMMA PhaseSet ==
  ASSUME EnvironmentType, txn # None,
         NEW phase \in {"prepared", "materialized", "unregistered", "committed", "closed"}, SetPhase(phase)
  PROVE  /\ txn' # None /\ txn'[1].phase = phase /\ txn'[1].op = txn[1].op
         /\ txn'[1].gen = txn[1].gen /\ txn'[1].owned = txn[1].owned
         /\ txn' \in {None} \cup {<<x>> : x \in Transaction}
<1>1. txn[1] \in Transaction
  BY DEF EnvironmentType, None
<1>2. PICK x : x = [txn[1] EXCEPT !.phase = phase]
  BY Zenon
<1>3. x \in Transaction /\ x.phase = phase /\ x.op = txn[1].op /\ x.gen = txn[1].gen /\ x.owned = txn[1].owned
  BY <1>1, <1>2, Zenon DEF Transaction
<1>4. txn' = <<x>>
  BY <1>2, Zenon DEF SetPhase
<1> QED
  BY <1>3, <1>4, Zenon DEF None

LEMMA StatusSet ==
  ASSUME EnvironmentType, reg # None, NEW s \in {"registered", "rollback", "retired"}, SetStatus(s)
  PROVE  /\ reg' # None /\ reg'[1].status = s /\ reg'[1].gen = reg[1].gen /\ reg'[1].owned = reg[1].owned
         /\ reg' \in {None} \cup {<<x>> : x \in Entry}
<1>1. reg[1] \in Entry
  BY DEF EnvironmentType, None
<1>2. PICK x : x = [reg[1] EXCEPT !.status = s]
  BY Zenon
<1>3. x \in Entry /\ x.status = s /\ x.gen = reg[1].gen /\ x.owned = reg[1].owned
  BY <1>1, <1>2, Zenon DEF Entry
<1>4. reg' = <<x>>
  BY <1>2, Zenon DEF SetStatus
<1> QED
  BY <1>3, <1>4, Zenon DEF None

(* A step that leaves the borrowers with what they have. *)
LEMMA UsersKept ==
  ASSUME UserInv, UNCHANGED <<gen, row, user>>, damage \in Nat, damage' \in Nat, damage <= damage',
         Nobody \/ (UNCHANGED reg /\ (root' = root \/ root' = "whole" \/ damage' > 0))
  PROVE  UserInv'
<1> SUFFICES ASSUME NEW l \in LeaseId, user[l] # None PROVE BorrowInv(user[l][1], row[l])'
  BY Zenon DEF UserInv
<1>1. BorrowInv(user[l][1], row[l])
  BY Zenon DEF UserInv
<1>2. CASE Nobody
  BY <1>1, <1>2, Zenon DEF BorrowInv, Nobody
<1>3. CASE UNCHANGED reg /\ (root' = root \/ root' = "whole" \/ damage' > 0)
  BY <1>1, <1>3 DEF BorrowInv, Registered
<1> QED
  BY <1>2, <1>3, Zenon

(* No entry, or one that is not of the present generation: nobody has it. *)
LEMMA NobodyThere == ASSUME UserInv, ~ Registered \/ reg[1].gen # gen[Env] PROVE Nobody
  BY Zenon DEF UserInv, BorrowInv, Nobody

(* The recovery leaves its operation where it is. *)
LEMMA RecoveryStays ==
  ASSUME OperationInv, Recovering, UNCHANGED op PROVE OperationInv' /\ txn # None /\ Pending
  BY Zenon DEF OperationInv, Recovering, At, Pending

-----------------------------------------------------------------------------
(* _recover_create. *)
LEMMA RollBackEntryKeeps == ASSUME EnvironmentInv, RollBackEntry PROVE EnvironmentInv'
<1> USE DEF EnvironmentInv
<1>1. Recovering /\ Pending /\ txn[1].op = "create" /\ txn[1].phase = "materialized" /\ reg # None
      /\ UNCHANGED <<gen, row, txn, root, op, user, damage>>
  BY Zenon DEF RollBackEntry, RollingBack, Creating, Recovering, Registered, leaseVars
<1>2. CreateInv /\ Nobody
  BY <1>1, Zenon DEF TransactionInv, CreateInv
<1>3. reg' # None /\ reg'[1].status = "rollback" /\ reg' \in {None} \cup {<<x>> : x \in Entry}
  BY <1>1, StatusSet, Zenon DEF RollBackEntry
<1>4. EnvironmentType' /\ OperationInv'
  BY <1>1, <1>3, RecoveryStays, Zenon DEF EnvironmentType
<1>5. TransactionInv'
  BY <1>1, <1>2, <1>3, Zenon DEF TransactionInv, CreateInv, Settled, Pending, Registered, Intact, Nobody
<1>6. UserInv'
  BY <1>1, <1>2, UsersKept DEF EnvironmentType
<1> QED
  BY <1>4, <1>5, <1>6, Zenon

LEMMA RollBackRootKeeps == ASSUME EnvironmentInv, RollBackRoot PROVE EnvironmentInv'
<1> USE DEF EnvironmentInv
<1>1. /\ Recovering /\ Pending /\ txn[1].op = "create" /\ txn[1].phase \in {"prepared", "materialized"}
      /\ txn[1].phase = "materialized" => root # "whole"
      /\ UNCHANGED <<gen, row, txn, reg, op, user, damage>> /\ root' \in {"partial", "absent"}
  BY Zenon DEF RollBackRoot, RollingBack, Creating, Recovering, ClearRoot, leaseVars
<1>2. CreateInv /\ Nobody
  BY <1>1, NobodyThere, Zenon DEF TransactionInv, CreateInv
<1>3. EnvironmentType' /\ OperationInv'
  BY <1>1, RecoveryStays, Zenon DEF EnvironmentType
<1>4. TransactionInv'
  BY <1>1, <1>2, Zenon DEF TransactionInv, CreateInv, Settled, Pending, Registered, Intact, Nobody
<1>5. UserInv'
  BY <1>1, <1>2, UsersKept DEF EnvironmentType
<1> QED
  BY <1>3, <1>4, <1>5, Zenon

LEMMA PublishEntryKeeps == ASSUME EnvironmentInv, PublishEntry PROVE EnvironmentInv'
<1> USE DEF EnvironmentInv
<1>1. /\ Recovering /\ Pending /\ txn # None /\ txn[1].op = "create" /\ txn[1].phase \in {"materialized", "committed"}
      /\ UNCHANGED <<gen, row, txn, root, op, user, damage>> /\ ~ Registered
  BY Zenon DEF PublishEntry, Completing, Creating, Recovering, Pending, leaseVars
<1>2. CreateInv /\ Nobody
  BY <1>1, NobodyThere, Zenon DEF TransactionInv
<1>3. PICK e : e = [status |-> "registered", gen |-> txn[1].gen, owned |-> txn[1].owned]
  BY Zenon
<1>4. reg' = <<e>> /\ e \in Entry /\ e.owned = txn[1].owned
  BY <1>1, <1>3 DEF PublishEntry, EnvironmentType, Transaction, Entry, Owned
<1>5. EnvironmentType' /\ OperationInv'
  BY <1>1, <1>4, RecoveryStays, Zenon DEF EnvironmentType
<1>6. TransactionInv'
  BY <1>1, <1>2, <1>4, Zenon DEF TransactionInv, CreateInv, Settled, Pending, Registered, Intact, Nobody
<1>7. UserInv'
  BY <1>1, <1>2, UsersKept DEF EnvironmentType
<1> QED
  BY <1>5, <1>6, <1>7, Zenon

(* A step that only moves the transaction on. *)
LEMMA PhaseKeeps ==
  ASSUME EnvironmentInv, Recovering, UNCHANGED <<gen, row, reg, root, op, user, damage>>,
         NEW phase \in {"materialized", "unregistered", "committed", "closed"}, SetPhase(phase), TransactionInv'
  PROVE  EnvironmentInv'
<1> USE DEF EnvironmentInv
<1>1. EnvironmentType' /\ OperationInv'
  BY RecoveryStays, PhaseSet, Zenon DEF EnvironmentType
<1>2. UserInv'
  BY UsersKept DEF EnvironmentType
<1> QED
  BY <1>1, <1>2, Zenon

LEMMA CommitCreateKeeps == ASSUME EnvironmentInv, CommitCreate PROVE EnvironmentInv'
<1> USE DEF EnvironmentInv
<1>1. /\ Recovering /\ Pending /\ txn # None /\ txn[1].op = "create" /\ txn[1].phase = "materialized"
      /\ UNCHANGED <<gen, row, reg, root, op, user, damage>> /\ Registered /\ SetPhase("committed")
  BY Zenon DEF CommitCreate, Completing, Creating, Recovering, Pending, leaseVars
<1>2. CreateInv
  BY <1>1, Zenon DEF TransactionInv
<1>3. txn' # None /\ txn'[1].phase = "committed" /\ txn'[1].op = txn[1].op /\ txn'[1].owned = txn[1].owned
  BY <1>1, PhaseSet, Zenon
<1>4. TransactionInv'
  BY <1>1, <1>2, <1>3, Zenon DEF TransactionInv, CreateInv, Settled, Pending, Registered, Intact
<1> QED
  BY <1>1, <1>4, PhaseKeeps, Zenon

LEMMA CloseCreateKeeps == ASSUME EnvironmentInv, CloseCreate PROVE EnvironmentInv'
<1> USE DEF EnvironmentInv
<1>1. /\ Recovering /\ Pending /\ txn # None /\ txn[1].op = "create" /\ SetPhase("closed")
      /\ UNCHANGED <<gen, row, reg, root, op, user, damage>>
      /\ \/ txn[1].phase = "prepared" /\ root = "absent"
         \/ txn[1].phase = "materialized" /\ root = "absent" /\ ~ Registered
         \/ txn[1].phase = "committed" /\ Registered /\ root = "whole"
  BY Zenon DEF CloseCreate, RollingBack, Completing, Creating, Recovering, Pending, leaseVars
<1>2. CreateInv
  BY <1>1, Zenon DEF TransactionInv
<1>3. txn' # None /\ txn'[1].phase = "closed"
  BY <1>1, PhaseSet, Zenon
<1>4. TransactionInv'
  BY <1>1, <1>2, <1>3, Zenon DEF TransactionInv, CreateInv, Settled, Pending, Registered
<1> QED
  BY <1>1, <1>4, PhaseKeeps, Zenon

(* _recover_remove. *)
LEMMA FenceEnvironmentKeeps == ASSUME LeaseTypeOK, EnvironmentInv, FenceEnvironment PROVE EnvironmentInv'
<1> USE DEF EnvironmentInv
<1>1. /\ Recovering /\ Pending /\ txn # None /\ txn[1].op = "remove" /\ Fence(Env, Retiree, 0)
      /\ UNCHANGED <<row, txn, reg, root, op, user, damage>>
  BY Zenon DEF FenceEnvironment, Removing, Recovering, Pending, Fence, environmentVars
<1>2. gen[Env] \in Nat /\ gen'[Env] = gen[Env] + 1
  BY <1>1, EnvironmentAssumption, LeaseAssumption DEF Fence, LeaseTypeOK, Shared
<1>3. EnvironmentType' /\ OperationInv'
  BY <1>1, RecoveryStays, Zenon DEF EnvironmentType
<1>4. TransactionInv'
  BY <1>1, Zenon DEF TransactionInv, RemoveInv, Settled, Pending, Registered, Intact
<1>5. UserInv'
  <2> SUFFICES ASSUME NEW l \in LeaseId, user[l] # None PROVE BorrowInv(user[l][1], row[l])'
    BY <1>1, Zenon DEF UserInv
  <2>1. BorrowInv(user[l][1], row[l]) /\ user[l][1] \in Borrow
    BY DEF UserInv, EnvironmentType
  <2>2. ~ LiveAt(l, 0)
    BY <1>1, EnvironmentAssumption, Zenon DEF Fence, Consumers, LeasesOf
  <2>3. user[l][1].stage = "got"
    BY <2>1, <2>2, EnvironmentAssumption, LeaseAssumption DEF BorrowInv, LiveAt, Borrow
  <2>4. user[l][1].gen < gen'[Env]
    BY <1>2, <2>1 DEF BorrowInv, Borrow
  <2> QED
    BY <1>1, <1>2, <2>1, <2>3, <2>4 DEF BorrowInv, Borrow
<1> QED
  BY <1>3, <1>4, <1>5, Zenon

(* What the removal knows behind its fence. *)
LEMMA BehindFence ==
  ASSUME LeaseTypeOK, EnvironmentInv, Fenced PROVE Recovering /\ Pending /\ txn # None /\ txn[1].op = "remove" /\ RemoveInv /\ Nobody
<1>1. Recovering /\ Pending /\ txn # None /\ txn[1].op = "remove" /\ gen[Env] = txn[1].gen + 1
  BY Zenon DEF Fenced, Removing, Recovering, Pending
<1>2. RemoveInv /\ txn[1].gen \in Nat
  BY <1>1, LeaseAssumption DEF EnvironmentInv, EnvironmentType, TransactionInv, Transaction
<1> QED
  BY <1>1, <1>2, NobodyThere DEF EnvironmentInv, RemoveInv

LEMMA RetireEntryKeeps == ASSUME LeaseTypeOK, EnvironmentInv, RetireEntry PROVE EnvironmentInv'
<1> USE DEF EnvironmentInv
<1>1. /\ Recovering /\ Pending /\ txn # None /\ txn[1].op = "remove" /\ RemoveInv /\ Nobody
      /\ UNCHANGED <<gen, row, txn, root, op, user, damage>>
  BY BehindFence, Zenon DEF RetireEntry, leaseVars
<1>2. /\ reg' # None /\ reg'[1].status = "retired" /\ reg'[1].gen = reg[1].gen /\ reg'[1].owned = reg[1].owned
      /\ reg' \in {None} \cup {<<x>> : x \in Entry}
  BY <1>1, StatusSet, Zenon DEF RetireEntry, RemoveInv
<1>3. EnvironmentType' /\ OperationInv'
  BY <1>1, <1>2, RecoveryStays, Zenon DEF EnvironmentType
<1>4. TransactionInv'
  BY <1>1, <1>2, Zenon DEF TransactionInv, RemoveInv, Settled, Pending, Intact
<1>5. UserInv'
  BY <1>1, UsersKept DEF EnvironmentType
<1> QED
  BY <1>3, <1>4, <1>5, Zenon

LEMMA DeleteRootKeeps == ASSUME LeaseTypeOK, EnvironmentInv, DeleteRoot PROVE EnvironmentInv'
<1> USE DEF EnvironmentInv
<1>1. /\ Recovering /\ Pending /\ txn # None /\ txn[1].op = "remove" /\ RemoveInv /\ Nobody
      /\ UNCHANGED <<gen, row, txn, reg, op, user, damage>>
      /\ txn[1].phase # "prepared" /\ txn[1].owned = "managed" /\ root # "absent" /\ root' \in {"partial", "absent"}
  BY BehindFence, Zenon DEF DeleteRoot, RootLeft, ClearRoot, leaseVars
<1>2. EnvironmentType' /\ OperationInv'
  BY <1>1, RecoveryStays, Zenon DEF EnvironmentType
<1>3. TransactionInv'
  BY <1>1, Zenon DEF TransactionInv, RemoveInv, Settled, Pending, Intact
<1>4. UserInv'
  BY <1>1, UsersKept DEF EnvironmentType
<1> QED
  BY <1>2, <1>3, <1>4, Zenon

LEMMA RemovePhaseKeeps ==
  ASSUME LeaseTypeOK, EnvironmentInv, Unregister \/ CommitRemove \/ CloseRemove PROVE EnvironmentInv'
<1>1. /\ Recovering /\ Pending /\ txn # None /\ txn[1].op = "remove" /\ RemoveInv
      /\ UNCHANGED <<gen, row, reg, root, op, user, damage>> /\ Retired
  BY BehindFence, Zenon DEF Unregister, CommitRemove, CloseRemove, leaseVars
<1>2. PICK phase \in {"unregistered", "committed", "closed"} :
        /\ SetPhase(phase)
        /\ phase # "unregistered" => ~ RootLeft
        /\ phase = "closed" => txn[1].phase = "committed"
  BY Zenon DEF Unregister, CommitRemove, CloseRemove
<1>3. /\ txn' # None /\ txn'[1].phase = phase /\ txn'[1].op = txn[1].op
      /\ txn'[1].gen = txn[1].gen /\ txn'[1].owned = txn[1].owned
  BY <1>1, <1>2, PhaseSet, Zenon DEF EnvironmentInv
<1>4. txn[1].owned \in Owned
  BY <1>1 DEF EnvironmentInv, EnvironmentType, Transaction
<1>5. TransactionInv'
  BY <1>1, <1>2, <1>3, <1>4, Zenon DEF TransactionInv, RemoveInv, Settled, Pending, Retired, RootLeft, Registered, Intact, Owned
<1> QED
  BY <1>1, <1>2, <1>5, PhaseKeeps, Zenon

(* What changes nothing that the invariant is about but the operation. *)
LEMMA OperationKeeps ==
  ASSUME EnvironmentInv, UNCHANGED <<gen, row, txn, reg, root, user, damage>>,
         op' \in {None} \cup {<<x>> : x \in Operation}, OperationInv'
  PROVE  EnvironmentInv'
<1> USE DEF EnvironmentInv
<1>1. EnvironmentType'
  BY Zenon DEF EnvironmentType
<1>2. TransactionInv'
  BY Zenon DEF TransactionInv, CreateInv, RemoveInv, Settled, Pending, Registered, Intact, Nobody
<1>3. UserInv'
  BY UsersKept DEF EnvironmentType
<1> QED
  BY <1>1, <1>2, <1>3, Zenon

LEMMA OpenGateKeeps == ASSUME EnvironmentInv, OpenGate PROVE EnvironmentInv'
<1>1. Recovering /\ UNCHANGED <<gen, row, txn, reg, root, op, user, damage>>
  BY Zenon DEF OpenGate, ReleaseGate, Fenced, Removing, environmentVars
<1>2. OperationInv' /\ op' \in {None} \cup {<<x>> : x \in Operation}
  BY <1>1, RecoveryStays, Zenon DEF EnvironmentInv, EnvironmentType
<1> QED
  BY <1>1, <1>2, OperationKeeps, Zenon

-----------------------------------------------------------------------------
(* The operations. *)
LEMMA BeginKeeps == ASSUME EnvironmentInv, BeginAny PROVE EnvironmentInv'
<1>1. PICK want \in {"open", "create", "register", "remove", "get"}, by \in {None} \cup {<<l>> : l \in LeaseId} :
        Begin(want, by) /\ (want = "get" => by # None)
  <2>1. ASSUME NEW l \in LeaseId PROVE <<l>> # None
    BY Zenon DEF None
  <2> QED
    BY <2>1, Zenon DEF BeginAny
<1>2. PICK x : x = [want |-> want, at |-> "recover", by |-> by]
  BY Zenon
<1>3. op' = <<x>> /\ x \in Operation /\ x.at = "recover" /\ (x.want = "get" => x.by # None)
      /\ UNCHANGED <<gen, row, txn, reg, root, user, damage>>
  BY <1>1, <1>2, Zenon DEF Begin, Operation, leaseVars
<1>4. OperationInv'
  BY <1>3, Zenon DEF OperationInv, At
<1> QED
  BY <1>3, <1>4, OperationKeeps, Zenon

LEMMA RaiseKeeps == ASSUME EnvironmentInv, Raise \/ Crash PROVE EnvironmentInv'
<1>1. op' = None /\ UNCHANGED <<gen, row, txn, reg, root, user, damage>>
  BY Zenon DEF Raise, Crash, leaseVars
<1>2. OperationInv'
  BY <1>1, Zenon DEF OperationInv, At
<1> QED
  BY <1>1, <1>2, OperationKeeps, Zenon

(* An operation that goes on to another place. *)
LEMMA GoesOn ==
  ASSUME EnvironmentType, op # None, NEW at \in {"recover", "act", "build", "finish"}, op' = <<[op[1] EXCEPT !.at = at]>>
  PROVE  /\ op' \in {None} \cup {<<x>> : x \in Operation} /\ op'[1].at = at
         /\ op'[1].want = op[1].want /\ op'[1].by = op[1].by
<1>1. op[1] \in Operation
  BY DEF EnvironmentType, None
<1>2. PICK x : x = [op[1] EXCEPT !.at = at]
  BY Zenon
<1>3. x \in Operation /\ x.at = at /\ x.want = op[1].want /\ x.by = op[1].by
  BY <1>1, <1>2, Zenon DEF Operation
<1> QED
  BY <1>2, <1>3, Zenon

LEMMA RecoveredKeeps == ASSUME EnvironmentInv, Recovered PROVE EnvironmentInv'
<1>1. op # None /\ ~ Pending /\ UNCHANGED <<gen, row, txn, reg, root, user, damage>>
  BY Zenon DEF Recovered, At, leaseVars
<1>2. CASE op' = None
  BY <1>1, <1>2, OperationKeeps, Zenon DEF OperationInv, At
<1>3. CASE op' = <<[op[1] EXCEPT !.at = "act"]>>
  <2>1. /\ op' \in {None} \cup {<<x>> : x \in Operation} /\ op'[1].at = "act"
        /\ op'[1].want = op[1].want /\ op'[1].by = op[1].by
    BY <1>1, <1>3, GoesOn, Zenon DEF EnvironmentInv
  <2>2. OperationInv'
    BY <1>1, <2>1, Zenon DEF EnvironmentInv, OperationInv, At, Pending
  <2> QED
    BY <1>1, <2>1, <2>2, OperationKeeps, Zenon
<1> QED
  BY <1>2, <1>3, Zenon DEF Recovered

LEMMA BuildFailsKeeps == ASSUME EnvironmentInv, BuildFails PROVE EnvironmentInv'
<1>1. op # None /\ op' = <<[op[1] EXCEPT !.at = "finish"]>> /\ UNCHANGED <<gen, row, txn, reg, root, user, damage>>
  BY Zenon DEF BuildFails, At, leaseVars
<1>2. /\ op' \in {None} \cup {<<x>> : x \in Operation} /\ op'[1].at = "finish"
      /\ op'[1].want = op[1].want /\ op'[1].by = op[1].by
  BY <1>1, GoesOn, Zenon DEF EnvironmentInv
<1>3. OperationInv'
  BY <1>1, <1>2, Zenon DEF EnvironmentInv, OperationInv, At
<1> QED
  BY <1>1, <1>2, <1>3, OperationKeeps, Zenon

LEMMA EnsureEnvironmentKeeps == ASSUME LeaseTypeOK, EnvironmentInv, EnsureEnvironment PROVE EnvironmentInv'
<1> USE DEF EnvironmentInv
<1>1. ~ Pending /\ gen[Env] = 0 /\ UNCHANGED <<row, txn, reg, root, op, user, damage>>
  BY Zenon DEF EnsureEnvironment, EnsureGeneration, OperationInv, Acting, At, environmentVars
<1>2. \A l \in LeaseId : user[l] = None
  <2> SUFFICES ASSUME NEW l \in LeaseId, user[l] # None PROVE FALSE
    BY Zenon
  <2>1. user[l][1] \in Borrow /\ user[l][1].gen <= gen[Env]
    BY DEF EnvironmentType, UserInv, BorrowInv
  <2> QED
    BY <1>1, <2>1, LeaseAssumption DEF Borrow
<1>3. EnvironmentType' /\ OperationInv' /\ UserInv'
  BY <1>1, <1>2, Zenon DEF EnvironmentType, OperationInv, At, Pending, UserInv
<1>4. TransactionInv'
  BY <1>1, Zenon DEF TransactionInv, Settled, Pending, Registered
<1> QED
  BY <1>3, <1>4, Zenon

LEMMA CreateKeeps == ASSUME LeaseTypeOK, EnvironmentInv, Create PROVE EnvironmentInv'
<1>1. op # None /\ UNCHANGED <<gen, row, reg, root, user, damage>> /\ gen[Env] > 0
  BY Zenon DEF Create, Acting, At, leaseVars
<1>2. CASE op' = None /\ UNCHANGED txn
  BY <1>1, <1>2, OperationKeeps, Zenon DEF OperationInv, At
<1>3. CASE /\ ~ Registered /\ op' = <<[op[1] EXCEPT !.at = "build"]>>
           /\ txn' = <<[op |-> "create", phase |-> "prepared", gen |-> gen[Env], owned |-> "managed"]>>
  <2>1. /\ op' \in {None} \cup {<<x>> : x \in Operation} /\ op'[1].at = "build" /\ op' # None
        /\ op'[1].want = op[1].want /\ op'[1].by = op[1].by
    BY <1>1, <1>3, GoesOn, Zenon DEF EnvironmentInv, None
  <2>2. PICK x : x = [op |-> "create", phase |-> "prepared", gen |-> gen[Env], owned |-> "managed"]
    BY Zenon
  <2>3. gen[Env] \in 1..MaxGen
    BY <1>1, EnvironmentAssumption, LeaseAssumption DEF LeaseTypeOK, Shared
  <2>4. txn' = <<x>> /\ x \in Transaction /\ x.op = "create" /\ x.phase = "prepared" /\ x.owned = "managed"
    BY <1>3, <2>2, <2>3, Zenon DEF Transaction, Owned
  <2>5. EnvironmentType'
    BY <1>1, <2>1, <2>4, Zenon DEF EnvironmentInv, EnvironmentType
  <2>6. OperationInv'
    BY <1>1, <2>1, <2>4, Zenon DEF EnvironmentInv, OperationInv, At, Pending, None
  <2>7. TransactionInv'
    BY <1>1, <1>3, <2>4 DEF TransactionInv, CreateInv, Settled, Pending, Registered, None
  <2>8. UserInv'
    BY <1>1, UsersKept DEF EnvironmentInv, EnvironmentType
  <2> QED
    BY <2>5, <2>6, <2>7, <2>8, Zenon DEF EnvironmentInv
<1> QED
  BY <1>2, <1>3, Zenon DEF Create

LEMMA BuildKeeps == ASSUME EnvironmentInv, Build PROVE EnvironmentInv'
<1> USE DEF EnvironmentInv
<1>1. /\ Pending /\ txn[1].op = "create" /\ txn[1].phase = "prepared" /\ root' \in {"partial", "whole"}
      /\ UNCHANGED <<gen, row, txn, reg, op, user, damage>>
  BY Zenon DEF Build, OperationInv, leaseVars
<1>2. CreateInv /\ Nobody
  BY <1>1, NobodyThere, Zenon DEF TransactionInv, CreateInv
<1>3. EnvironmentType' /\ OperationInv'
  BY <1>1, Zenon DEF EnvironmentType, OperationInv, At, Pending
<1>4. TransactionInv'
  BY <1>1, <1>2, Zenon DEF TransactionInv, CreateInv, Settled, Pending, Registered
<1>5. UserInv'
  BY <1>1, <1>2, UsersKept DEF EnvironmentType
<1> QED
  BY <1>3, <1>4, <1>5, Zenon

LEMMA MaterializeKeeps == ASSUME EnvironmentInv, Materialize PROVE EnvironmentInv'
<1> USE DEF EnvironmentInv
<1>1. /\ Pending /\ txn # None /\ txn[1].op = "create" /\ txn[1].phase = "prepared" /\ root = "whole" /\ op # None
      /\ UNCHANGED <<gen, row, reg, root, user, damage>> /\ SetPhase("materialized")
      /\ op' = <<[op[1] EXCEPT !.at = "finish"]>>
  BY Zenon DEF Materialize, OperationInv, Pending, At, leaseVars
<1>2. CreateInv /\ Nobody
  BY <1>1, NobodyThere, Zenon DEF TransactionInv, CreateInv
<1>3. /\ txn' # None /\ txn'[1].phase = "materialized" /\ txn'[1].op = txn[1].op /\ txn'[1].owned = txn[1].owned
      /\ txn' \in {None} \cup {<<x>> : x \in Transaction}
  BY <1>1, PhaseSet, Zenon
<1>4. /\ op' \in {None} \cup {<<x>> : x \in Operation} /\ op'[1].at = "finish"
      /\ op'[1].want = op[1].want /\ op'[1].by = op[1].by
  BY <1>1, GoesOn, Zenon
<1>5. EnvironmentType' /\ OperationInv'
  BY <1>1, <1>3, <1>4, Zenon DEF EnvironmentType, OperationInv, At
<1>6. TransactionInv'
  BY <1>1, <1>2, <1>3, Zenon DEF TransactionInv, CreateInv, Settled, Pending, Registered, Intact, Nobody
<1>7. UserInv'
  BY <1>1, <1>2, UsersKept DEF EnvironmentType
<1> QED
  BY <1>5, <1>6, <1>7, Zenon

LEMMA RegisterExistingKeeps == ASSUME LeaseTypeOK, EnvironmentInv, RegisterExisting PROVE EnvironmentInv'
<1> USE DEF EnvironmentInv
<1>1. ~ Pending /\ op' = None /\ UNCHANGED <<gen, row, txn, root, user, damage>> /\ gen[Env] > 0
  BY Zenon DEF RegisterExisting, OperationInv, Acting, At, leaseVars
<1>2. OperationInv'
  BY <1>1, Zenon DEF OperationInv, At
<1>3. CASE UNCHANGED reg
  BY <1>1, <1>2, <1>3, OperationKeeps, Zenon
<1>4. PICK e : e = [status |-> "registered", gen |-> gen[Env], owned |-> "external"]
  BY Zenon
<1>5. CASE reg' = <<e>> /\ Publishable(gen[Env], "external")
  <2>1. gen[Env] \in 1..MaxGen
    BY <1>1, EnvironmentAssumption, LeaseAssumption DEF LeaseTypeOK, Shared
  <2>2. e \in Entry /\ e.status = "registered" /\ e.gen = gen[Env] /\ e.owned = "external"
    BY <1>4, <2>1, Zenon DEF Entry, Owned
  <2>3. reg' # None /\ reg'[1] = e /\ reg' \in {None} \cup {<<x>> : x \in Entry}
    BY <1>5, <2>2, Zenon DEF None
  <2>4. Registered => reg[1].gen = gen[Env] /\ reg[1].owned = "external"
    BY <1>5, Zenon DEF Publishable, Registered
  <2>5. EnvironmentType'
    BY <1>1, <2>3, Zenon DEF EnvironmentType
  <2>6. TransactionInv'
    BY <1>1, <2>2, <2>3, <2>4, Zenon DEF TransactionInv, Settled, Pending, Registered, EnvironmentType
  <2>7. UserInv'
    <3> SUFFICES ASSUME NEW l \in LeaseId, user[l] # None PROVE BorrowInv(user[l][1], row[l])'
      BY <1>1, Zenon DEF UserInv
    <3>1. BorrowInv(user[l][1], row[l])
      BY Zenon DEF UserInv
    <3> QED
      BY <1>1, <2>2, <2>3, <3>1, Zenon DEF BorrowInv, Registered
  <2> QED
    BY <1>2, <2>5, <2>6, <2>7, Zenon
<1> QED
  BY <1>3, <1>4, <1>5, Zenon DEF RegisterExisting

LEMMA RemoveKeeps == ASSUME LeaseTypeOK, EnvironmentInv, Remove PROVE EnvironmentInv'
<1> USE DEF EnvironmentInv
<1>1. op # None /\ ~ Pending /\ UNCHANGED <<gen, row, reg, root, user, damage>>
  BY Zenon DEF Remove, OperationInv, Acting, At, leaseVars
<1>2. CASE op' = None /\ UNCHANGED txn
  BY <1>1, <1>2, OperationKeeps, Zenon DEF OperationInv, At
<1>3. PICK x : x = [op |-> "remove", phase |-> "prepared", gen |-> reg[1].gen, owned |-> reg[1].owned]
  BY Zenon
<1>4. CASE Registered /\ txn' = <<x>> /\ op' = <<[op[1] EXCEPT !.at = "finish"]>>
  <2>1. /\ op' \in {None} \cup {<<y>> : y \in Operation} /\ op'[1].at = "finish"
        /\ op'[1].want = op[1].want /\ op'[1].by = op[1].by
    BY <1>1, <1>4, GoesOn, Zenon
  <2>2. reg # None /\ reg[1] \in Entry /\ reg[1].status = "registered"
    BY <1>4 DEF Registered, EnvironmentType
  <2>3. /\ x \in Transaction /\ x.op = "remove" /\ x.phase = "prepared" /\ x.gen = reg[1].gen /\ x.owned = reg[1].owned
        /\ x.owned \in Owned
    BY <1>3, <2>2, Zenon DEF Transaction, Entry
  <2>4. txn' # None /\ txn'[1] = x
    BY <1>4, Zenon DEF None
  <2>5. EnvironmentType' /\ OperationInv'
    BY <1>1, <1>4, <2>1, <2>3, Zenon DEF EnvironmentType, OperationInv, At
  <2>6. TransactionInv'
    BY <1>1, <1>4, <2>2, <2>3, <2>4, Zenon DEF TransactionInv, RemoveInv, Settled, Pending, Registered, Intact, Owned, EnvironmentType
  <2>7. UserInv'
    BY <1>1, UsersKept DEF EnvironmentType
  <2> QED
    BY <2>5, <2>6, <2>7, Zenon
<1> QED
  BY <1>2, <1>3, <1>4, Zenon DEF Remove

-----------------------------------------------------------------------------
(* The borrowers.  A step of one of them. *)
LEMMA BorrowerKeeps ==
  ASSUME LeaseTypeOK, EnvironmentInv, UNCHANGED <<gen, txn, reg, root, damage>>, NEW l \in LeaseId,
         \A k \in LeaseId : k # l => row'[k] = row[k],
         NEW u \in {None} \cup {<<x>> : x \in Borrow}, user' = [user EXCEPT ![l] = u],
         u # None => BorrowInv(u[1], row'[l]),
         u # None /\ u[1].gen = gen[Env] => (user[l] # None /\ user[l][1].gen = gen[Env]) \/ ~ Pending,
         op' \in {None} \cup {<<x>> : x \in Operation}, OperationInv'
  PROVE  EnvironmentInv'
<1> USE DEF EnvironmentInv
<1>1. user' \in [LeaseId -> {None} \cup {<<x>> : x \in Borrow}] /\ user'[l] = u
      /\ \A k \in LeaseId : k # l => user'[k] = user[k]
  BY Zenon DEF EnvironmentType
<1>2. EnvironmentType'
  BY <1>1, Zenon DEF EnvironmentType
<1>3. TransactionInv'
  <2>1. Pending /\ Nobody => Nobody'
    BY <1>1, Zenon DEF Nobody
  <2> QED
    BY <2>1, Zenon DEF TransactionInv, CreateInv, RemoveInv, Settled, Pending, Registered, Intact
<1>4. UserInv'
  <2> SUFFICES ASSUME NEW k \in LeaseId, user'[k] # None PROVE BorrowInv(user[k][1], row[k])'
    BY Zenon DEF UserInv
  <2>1. CASE k = l
    BY <1>1, <2>1, Zenon DEF BorrowInv, Registered
  <2>2. CASE k # l
    BY <1>1, <2>2 DEF UserInv, BorrowInv, Registered
  <2> QED
    BY <2>1, <2>2, Zenon
<1> QED
  BY <1>2, <1>3, <1>4, Zenon

LEMMA SameOperation ==
  ASSUME EnvironmentInv, UNCHANGED <<op, txn>> PROVE op' \in {None} \cup {<<x>> : x \in Operation} /\ OperationInv'
  BY Zenon DEF EnvironmentInv, EnvironmentType, OperationInv, At, Pending

LEMMA GetKeeps == ASSUME LeaseTypeOK, EnvironmentInv, Get PROVE EnvironmentInv'
<1>1. /\ op # None /\ op[1].want = "get" /\ ~ Pending /\ op' = None
      /\ UNCHANGED <<gen, row, txn, reg, root, damage>>
  BY Zenon DEF Get, EnvironmentInv, OperationInv, Acting, At, leaseVars
<1>2. OperationInv'
  BY <1>1, Zenon DEF OperationInv, At
<1>3. CASE UNCHANGED user
  BY <1>1, <1>2, <1>3, OperationKeeps, Zenon
<1>4. CASE /\ Registered /\ reg[1].gen = gen[Env]
           /\ user' = [user EXCEPT ![op[1].by[1]] = <<[stage |-> "got", gen |-> reg[1].gen]>>]
  <2>1. op[1].by[1] \in LeaseId
    <3>1. op[1] \in Operation /\ op[1].by # None
      BY <1>1 DEF EnvironmentInv, EnvironmentType, OperationInv
    <3> QED
      BY <3>1 DEF Operation
  <2>2. PICK l \in LeaseId : l = op[1].by[1]
    BY <2>1, Zenon
  <2>3. reg[1] \in Entry /\ gen[Env] \in Nat
    BY <1>4, EnvironmentAssumption, LeaseAssumption DEF Registered, EnvironmentInv, EnvironmentType, LeaseTypeOK, Shared
  <2>4. PICK x : x = [stage |-> "got", gen |-> reg[1].gen]
    BY Zenon
  <2>5. x \in Borrow /\ x.stage = "got" /\ x.gen = gen[Env]
    BY <1>4, <2>3, <2>4, Zenon DEF Entry, Borrow
  <2>6. PICK u : u = <<x>>
    BY Zenon
  <2>7. u \in {None} \cup {<<y>> : y \in Borrow} /\ u[1] = x
    BY <2>5, <2>6, Zenon
  <2>8. damage = 0 /\ reg[1].owned = "managed" => root = "whole"
    BY <1>1, <1>4, Zenon DEF EnvironmentInv, TransactionInv, Settled
  <2>9. BorrowInv(u[1], row'[l])
    BY <1>4, <2>3, <2>5, <2>7, <2>8 DEF BorrowInv, EnvironmentInv, EnvironmentType
  <2>10. user' = [user EXCEPT ![l] = u]
    BY <1>4, <2>2, <2>4, <2>6, Zenon
  <2> QED
    BY <1>1, <1>2, <2>7, <2>9, <2>10, BorrowerKeeps, Zenon
<1> QED
  BY <1>3, <1>4, Zenon DEF Get

(* A borrower that leaves, or whose process dies. *)
LEMMA BorrowLeaves ==
  ASSUME LeaseTypeOK, EnvironmentInv, UNCHANGED <<gen, txn, reg, root, op, damage>>, NEW l \in LeaseId,
         UNCHANGED row \/ ReleaseLease(l), user' = [user EXCEPT ![l] = None]
  PROVE  EnvironmentInv'
<1>1. \A k \in LeaseId : k # l => row'[k] = row[k]
  BY Zenon DEF ReleaseLease, LeaseTypeOK
<1> QED
  BY <1>1, SameOperation, BorrowerKeeps, Zenon

LEMMA BorrowKeeps ==
  ASSUME LeaseTypeOK, EnvironmentInv, NEW l \in LeaseId, BorrowStep(l) \/ BorrowerCrash(l) PROVE EnvironmentInv'
<1>1. CASE BorrowRefused(l) \/ BorrowEnds(l) \/ BorrowerCrash(l)
  BY <1>1, BorrowLeaves, Zenon DEF BorrowRefused, BorrowEnds, BorrowerCrash, ReleaseLease, leaseVars
<1>2. CASE BorrowCheck(l) /\ ~ Usable(l)
  BY <1>2, BorrowLeaves, Zenon DEF BorrowCheck, ReleaseLease
<1>3. ASSUME BorrowLease(l) \/ (BorrowCheck(l) /\ Usable(l)) PROVE EnvironmentInv'
  <2>1. /\ user[l] # None /\ UNCHANGED <<gen, txn, reg, root, op, damage>>
        /\ user[l][1] \in Borrow /\ BorrowInv(user[l][1], row[l])
    BY <1>3 DEF BorrowLease, BorrowCheck, AcquireConsumer, AcquireLease, ReleaseLease, leaseVars,
                EnvironmentInv, EnvironmentType, UserInv
  <2>2. PICK stage \in {"leased", "using"} : user' = [user EXCEPT ![l] = <<[user[l][1] EXCEPT !.stage = stage]>>]
             /\ (stage = "leased" => BorrowLease(l))
             /\ (stage = "using" => UNCHANGED row /\ user[l][1].stage = "leased" /\ row[l][1].gen = user[l][1].gen)
    BY <1>3, Zenon DEF BorrowLease, BorrowCheck, Usable, leaseVars
  <2>3. PICK x : x = [user[l][1] EXCEPT !.stage = stage]
    BY Zenon
  <2>4. x \in Borrow /\ x.stage = stage /\ x.gen = user[l][1].gen
    BY <2>1, <2>3, Zenon DEF Borrow
  <2>5. PICK u : u = <<x>>
    BY Zenon
  <2>6. u \in {None} \cup {<<y>> : y \in Borrow} /\ u[1] = x
    BY <2>4, <2>5, Zenon
  <2>7. \A k \in LeaseId : k # l => row'[k] = row[k]
    BY <2>2, Zenon DEF BorrowLease, AcquireConsumer, AcquireLease, LeaseTypeOK
  <2>8. BorrowInv(x, row'[l])
    <3>1. CASE stage = "leased"
      <4>1. row' = [row EXCEPT ![l] = <<Granted(l, None, Never)>>]
        BY <2>2, <3>1, Zenon DEF BorrowLease, AcquireConsumer, AcquireLease
      <4>2. row'[l] # None /\ row'[l][1] = Granted(l, None, Never)
        BY <4>1, Zenon DEF LeaseTypeOK, None
      <4>3. row'[l][1].gen = gen[Env] /\ ~ row'[l][1].released /\ row'[l][1].left = Never
        BY <4>2, EnvironmentAssumption DEF Granted
      <4> QED
        BY <2>1, <2>4, <3>1, <4>2, <4>3, Zenon DEF BorrowInv
    <3>2. CASE stage = "using"
      BY <2>1, <2>2, <2>4, <3>2, Zenon DEF BorrowInv
    <3> QED
      BY <3>1, <3>2, Zenon
  <2>9. user' = [user EXCEPT ![l] = u]
    BY <2>2, <2>3, <2>5, Zenon
  <2> QED
    BY <2>1, <2>4, <2>6, <2>7, <2>8, <2>9, SameOperation, BorrowerKeeps, Zenon
<1> QED
  BY <1>1, <1>2, <1>3, Zenon DEF BorrowStep

LEMMA HostRebootKeeps == ASSUME EnvironmentInv, HostReboot PROVE EnvironmentInv'
<1> USE DEF EnvironmentInv
<1>1. op' = None /\ user' = [l \in LeaseId |-> None] /\ UNCHANGED <<txn, reg, root, damage>>
  BY Zenon DEF HostReboot
<1>2. EnvironmentType' /\ OperationInv' /\ UserInv' /\ Nobody'
  BY <1>1, Zenon DEF EnvironmentType, OperationInv, At, UserInv, Nobody
<1>3. TransactionInv'
  BY <1>1, <1>2, Zenon DEF TransactionInv, CreateInv, RemoveInv, Settled, Pending, Registered, Intact
<1> QED
  BY <1>2, <1>3, Zenon

LEMMA DamageKeeps == ASSUME EnvironmentInv, Damage PROVE EnvironmentInv'
<1> USE DEF EnvironmentInv
<1>1. /\ damage' = damage + 1 /\ damage \in Nat /\ root' \in {"partial", "absent"}
      /\ UNCHANGED <<gen, row, txn, reg, op, user>>
  BY Zenon DEF Damage, ClearRoot, EnvironmentType, leaseVars
<1>2. EnvironmentType' /\ OperationInv'
  BY <1>1, SameOperation DEF EnvironmentType
<1>3. TransactionInv'
  BY <1>1 DEF TransactionInv, CreateInv, RemoveInv, Settled, Pending, Registered, Intact, Nobody
<1>4. UserInv'
  BY <1>1, UsersKept
<1> QED
  BY <1>2, <1>3, <1>4, Zenon

-----------------------------------------------------------------------------
(* The lifecycle touches the leases only through their operations. *)
LEMMA LeaseStep == ASSUME LeaseTypeOK, [Next]_vars PROVE [LeaseNext]_leaseVars
<1>1. Env \in Resource \ {Platform} /\ Env \in Shared /\ Retiree \in Holder /\ 0 \in Ages
  BY EnvironmentAssumption, LeaseAssumption DEF Shared, LeaseTypeOK, Ages
<1>2. EnsureGeneration(Env) => LeaseNext
  BY <1>1, Zenon DEF LeaseNext
<1>3. Fence(Env, Retiree, 0) => LeaseNext
  BY <1>1, Zenon DEF LeaseNext
<1>4. ASSUME NEW l \in LeaseId, AcquireConsumer(l, None, 0) PROVE LeaseNext
  <2>1. Scope[l] = Platform
    BY <1>4, Zenon DEF AcquireConsumer, AcquireLease, Admissible, ScopeLive
  <2>2. None \in Vias(Scope[l])
    BY <2>1, Zenon DEF Vias
  <2> QED
    BY <1>1, <1>4, <2>2, Zenon DEF LeaseNext
<1>5. ASSUME NEW l \in LeaseId, ReleaseLease(l) PROVE LeaseNext
  BY <1>5, Zenon DEF LeaseNext
<1>6. OpenGate => LeaseNext
  BY Zenon DEF OpenGate, OwnGates, LeaseNext
<1>7. ASSUME NEW l \in LeaseId, BorrowStep(l) \/ BorrowerCrash(l) PROVE [LeaseNext]_leaseVars
  BY <1>4, <1>5, <1>7, Zenon DEF BorrowStep, BorrowLease, BorrowRefused, BorrowCheck, BorrowEnds, BorrowerCrash
<1>8. CASE RecoveryStep
  BY <1>3, <1>6, <1>8, Zenon DEF RecoveryStep, RollBackEntry, RollBackRoot, PublishEntry, CommitCreate, CloseCreate,
     FenceEnvironment, RetireEntry, Unregister, DeleteRoot, CommitRemove, CloseRemove
<1>9. CASE OperationStep /\ ~ RecoveryStep
  BY <1>2, <1>9, Zenon DEF OperationStep, Raise, Recovered, EnsureEnvironment, Create, Build, Materialize,
     BuildFails, RegisterExisting, Remove, Get
<1>10. CASE BeginAny
  BY <1>10, Zenon DEF BeginAny, Begin
<1>11. CASE Crash \/ HostReboot \/ Damage
  BY <1>11, Zenon DEF Crash, HostReboot, Damage, LeaseNext
<1>12. CASE UNCHANGED vars
  BY <1>12, Zenon DEF vars
<1> QED
  BY <1>7, <1>8, <1>9, <1>10, <1>11, <1>12, Zenon DEF Next

LEMMA EnvironmentStep == ASSUME LeaseTypeOK, EnvironmentInv, [Next]_vars PROVE EnvironmentInv'
<1>1. CASE RecoveryStep
  BY <1>1, RollBackEntryKeeps, RollBackRootKeeps, PublishEntryKeeps, CommitCreateKeeps, CloseCreateKeeps,
     FenceEnvironmentKeeps, RetireEntryKeeps, DeleteRootKeeps, RemovePhaseKeeps, OpenGateKeeps, Zenon DEF RecoveryStep
<1>2. CASE OperationStep /\ ~ RecoveryStep
  BY <1>2, RaiseKeeps, RecoveredKeeps, EnsureEnvironmentKeeps, CreateKeeps, BuildKeeps, MaterializeKeeps,
     BuildFailsKeeps, RegisterExistingKeeps, RemoveKeeps, GetKeeps, Zenon DEF OperationStep
<1>3. CASE UNCHANGED vars
  BY <1>3, SameOperation, OperationKeeps, Zenon DEF vars, leaseVars, environmentVars
<1> QED
  BY <1>1, <1>2, <1>3, BeginKeeps, BorrowKeeps, RaiseKeeps, HostRebootKeeps, DamageKeeps, Zenon DEF Next

LEMMA EnvironmentInit == Init => LeaseInv /\ EnvironmentInv
<1> SUFFICES ASSUME Init PROVE LeaseInv /\ EnvironmentInv
  BY Zenon
<1>1. LeaseInv
  BY InitHolds, Zenon DEF Init
<1>2. EnvironmentType /\ OperationInv /\ UserInv
  BY Zenon DEF Init, EnvironmentType, OperationInv, UserInv, At
<1>3. TransactionInv
  BY Zenon DEF Init, TransactionInv, Settled, Pending, Registered
<1> QED
  BY <1>1, <1>2, <1>3, Zenon DEF EnvironmentInv

(* PythonEnvironmentLifecycle uses the authority only through its operations:
   whatever is proved of the leases holds of the leases of an environment. *)
THEOREM EnvironmentUsesLeases == Spec => LeaseSpec
<1>1. LeaseInv => LeaseTypeOK
  BY SoleIsPairwise, Zenon DEF LeaseInv
<1>2. Init => LeaseInit /\ LeaseInv
  BY InitHolds, Zenon DEF Init
<1>3. LeaseInv /\ [Next]_vars => LeaseInv' /\ [LeaseNext]_leaseVars
  BY <1>1, LeaseStep, NextKeeps, Zenon
<1> QED
  BY <1>2, <1>3, PTL DEF Spec, LeaseSpec

(* create, register_existing, remove and borrow: whatever step a process dies at
   and whoever comes in between, what is borrowed stays whole and registered, and
   when no transaction is pending, directory and registry agree. *)
THEOREM EnvironmentIsSound == Spec => []EnvironmentSound
<1>1. LeaseInv => LeaseTypeOK
  BY SoleIsPairwise, Zenon DEF LeaseInv
<1>2. LeaseInv /\ EnvironmentInv /\ [Next]_vars => LeaseInv' /\ EnvironmentInv'
  BY <1>1, LeaseStep, NextKeeps, EnvironmentStep, Zenon
<1>3. ASSUME LeaseInv, EnvironmentInv PROVE EnvironmentSound
  <2>1. TypeOK
    BY <1>1, <1>3 DEF TypeOK, EnvironmentInv, EnvironmentType, Borrow
  <2>2. ASSUME NEW l \in LeaseId, user[l] # None, user[l][1].stage = "using"
        PROVE  /\ Registered /\ reg[1].gen = user[l][1].gen /\ gen[Env] = reg[1].gen
               /\ reg[1].owned = "managed" => root = "whole" \/ damage > 0
    BY <1>3, <2>2, Zenon DEF EnvironmentInv, UserInv, BorrowInv
  <2>3. Settled
    BY <1>3, Zenon DEF EnvironmentInv, TransactionInv
  <2> QED
    BY <2>1, <2>2, <2>3, Zenon DEF EnvironmentSound, InUseIntact
<1> QED
  BY <1>2, <1>3, EnvironmentInit, PTL DEF Spec
=============================================================================
