--------------------------- MODULE ResourceLeases ---------------------------
(***************************************************************************)
(* The leases of UniversalResourceAuthority: generations, exclusive and    *)
(* consumer leases, renewal, the zero-consumer fence and its gate, and the *)
(* fence a host reboot is.  Every operation is one SQLite transaction, but *)
(* it judges leases by a clock reading it took before it got the writer.   *)
(*                                                                         *)
(* Time is kept relative to the present: a row holds the time it has left, *)
(* negative once it has run out, and a call is given the age of its        *)
(* reading.  A row that expires at e is live at the reading o iff e > o,   *)
(* that is iff left + age > 0, and o + ttl leaves ttl - age.               *)
(***************************************************************************)
EXTENDS Integers, FiniteSets

CONSTANTS Resource,    \* resource keys, the keys of the scopes included
          Platform,    \* the static scope's key
          Exclusive,   \* the keys that are only leased exclusively
          LeaseId,
          On,          \* lease id -> the resource it is a lease of
          Scope,       \* lease id -> the key of the scope that owns it
          Holder,      \* holders of retirement gates
          Own,         \* holder -> its own leases, which do not stop its fence
          TTL,
          Never,       \* time left of a lease without expiry
          MaxAge,      \* bound: the age of a reading
          MaxGen       \* bound: generations

ASSUME LeaseAssumption ==
  /\ Platform \in Resource /\ Exclusive \subseteq Resource
  /\ On \in [LeaseId -> Resource] /\ Scope \in [LeaseId -> Resource]
  /\ Own \in [Holder -> SUBSET LeaseId]
  /\ MaxAge \in Nat /\ MaxGen \in Nat \ {0}
  /\ TTL \subseteq Nat \ {0} /\ Never \in Nat /\ \A t \in TTL : t < Never

VARIABLES gen,    \* resource -> its generation, 0 when it has no row
          row,    \* lease id -> its row, or none
          gates,  \* the unreleased lease-admission claims
          up      \* time since the host booted, up to MaxAge

leaseVars == <<gen, row, gates, up>>

None == <<>>

(* A row.  lapsed is history: was it renewed after it had run out? *)
Row == [gen : 1..MaxGen, left : (0 - MaxAge)..Never, released : BOOLEAN,
        via : {None} \cup {<<l>> : l \in LeaseId}, scopeGen : 0..MaxGen,
        lapsed : BOOLEAN]

Gate == [on : Resource, gen : 1..MaxGen, holder : Holder, scopeGen : 0..MaxGen]

(* The platform scope's generation is ensured when the authority opens. *)
LeaseInit ==
  /\ gen = [r \in Resource |-> IF r = Platform THEN 1 ELSE 0]
  /\ row = [l \in LeaseId |-> None]
  /\ gates = {}
  /\ up = 0

-----------------------------------------------------------------------------
Ages == 0..up

(* lease_live_at, by a reading that old. *)
LiveAt(l, age) ==
  /\ row[l] # None
  /\ row[l][1].gen = gen[On[l]]
  /\ ~ row[l][1].released
  /\ row[l][1].left + age > 0

Live(l) == LiveAt(l, 0)

LeasesOf(r) == {l \in LeaseId : On[l] = r}

(* A scope is live at generation g through lease v: its generation is current
   and, unless it is static, the lease is live and its own owner is. *)
ScopeLive(s, g, v, age) ==
  LET chain[k \in LeaseId] ==
        /\ LiveAt(k, age)
        /\ row[k][1].scopeGen = gen[Scope[k]]
        /\ IF Scope[k] = Platform THEN row[k][1].via = None
           ELSE row[k][1].via # None /\ chain[row[k][1].via[1]]
  IN /\ gen[s] = g
     /\ IF s = Platform THEN v = None
        ELSE v # None /\ On[v[1]] = s /\ chain[v[1]]

(* Mutant: the gate is not looked at. *)
AlwaysAdmitted(r) == TRUE

(* No unreleased claim of the current generation holds the admission token. *)
Admitted(r) == \A g \in gates : ~ (g.on = r /\ g.gen = gen[r])

(* ensure_generation. *)
EnsureGeneration(r) ==
  /\ gen[r] = 0
  /\ gen' = [gen EXCEPT ![r] = 1]
  /\ UNCHANGED <<row, gates, up>>

(* advance_generation: an unconditional fence. *)
AdvanceGeneration(r) ==
  /\ gen[r] < MaxGen
  /\ gen' = [gen EXCEPT ![r] = @ + 1]
  /\ UNCHANGED <<row, gates, up>>

(* A new row of the current generation. *)
Granted(l, v, left) ==
  [gen |-> gen[On[l]], left |-> left, released |-> FALSE, via |-> v,
   scopeGen |-> gen[Scope[l]], lapsed |-> FALSE]

(* What a lease acquisition requires: a generation, a live owner, no gate. *)
Admissible(l, v, age) ==
  /\ gen[On[l]] > 0
  /\ ScopeLive(Scope[l], gen[Scope[l]], v, age)
  /\ Admitted(On[l])

(* Mutant: only the caller's own row is looked at. *)
OnlyOwn(l, age) == {k \in {l} : LiveAt(k, age)}

(* The live leases that decide an exclusive acquisition. *)
Competing(l, age) == {k \in LeasesOf(On[l]) : LiveAt(k, age)}

(* acquire_exclusive_ttl_lease: none is live, or the caller's own is and is
   extended; a row that is not live is overwritten, released or not. *)
AcquireExclusive(l, v, ttl, age) ==
  /\ On[l] \in Exclusive
  /\ Admissible(l, v, age)
  /\ \/ Competing(l, age) = {}
     \/ /\ Competing(l, age) = {l}
        /\ row[l][1].via = v /\ row[l][1].scopeGen = gen[Scope[l]]
  /\ row' = [row EXCEPT ![l] = <<IF Competing(l, age) = {}
                                   THEN Granted(l, v, ttl - age)
                                   ELSE [row[l][1] EXCEPT !.left = ttl - age, !.lapsed = FALSE]>>]
  /\ UNCHANGED <<gen, gates, up>>

(* acquire_lease of a new identity, with or without expiry; a known identity
   is answered with its row, or refused. *)
AcquireLease(l, v, left, age) ==
  /\ On[l] \notin Exclusive
  /\ Admissible(l, v, age)
  /\ row[l] = None
  /\ row' = [row EXCEPT ![l] = <<Granted(l, v, left)>>]
  /\ UNCHANGED <<gen, gates, up>>

AcquireConsumer(l, v, age) == AcquireLease(l, v, Never, age)

(* acquire_ttl_lease reads the clock for the expiry, acquire_lease again. *)
AcquireTtl(l, v, ttl, age) ==
  \E later \in 0..age : AcquireLease(l, v, ttl - age, later)

(* renew_lease for a caller that holds the row's present identity. *)
Renewable(l, age) ==
  /\ LiveAt(l, age)
  /\ ScopeLive(Scope[l], row[l][1].scopeGen, row[l][1].via, age)

(* renew_lease and renew_leases: all of the batch or nothing. *)
Renew(L, ttl, age) ==
  /\ L # {} /\ \A l \in L : Renewable(l, age)
  /\ row' = [l \in LeaseId |->
              IF l \in L THEN <<[row[l][1] EXCEPT !.left = ttl - age,
                                                  !.lapsed = @ \/ row[l][1].left <= 0]>>
              ELSE row[l]]
  /\ UNCHANGED <<gen, gates, up>>

(* release_lease by a caller that holds the row's present identity. *)
ReleaseLease(l) ==
  /\ row[l] # None /\ ~ row[l][1].released
  /\ row' = [row EXCEPT ![l] = <<[@[1] EXCEPT !.released = TRUE]>>]
  /\ UNCHANGED <<gen, gates, up>>

(* Mutant: only leases without expiry count as consumers. *)
PersistentConsumers(r, h, age) ==
  {l \in LeasesOf(r) \ Own[h] : LiveAt(l, age) /\ row[l][1].left = Never}

(* The leases that forbid a fence. *)
Consumers(r, h, age) == {l \in LeasesOf(r) \ Own[h] : LiveAt(l, age)}

(* fence_if_no_live_leases: the next generation starts behind a gate. *)
Fence(r, h, age) ==
  /\ gen[r] \in 1..(MaxGen - 1)
  /\ Consumers(r, h, age) = {}
  /\ gen' = [gen EXCEPT ![r] = @ + 1]
  /\ gates' = gates \cup {[on |-> r, gen |-> gen[r] + 1, holder |-> h,
                           scopeGen |-> gen[Platform]]}
  /\ UNCHANGED <<row, up>>

(* release_claim of a gate. *)
ReleaseGate(g) ==
  /\ gates' = gates \ {g}
  /\ UNCHANGED <<gen, row, up>>

(* A gate whose scope generation is over is released as an orphan. *)
ReleaseOrphanGate(g) ==
  /\ g.scopeGen # gen[Platform]
  /\ gates' = gates \ {g}
  /\ UNCHANGED <<gen, row, up>>

Tick ==
  /\ up' = IF up < MaxAge THEN up + 1 ELSE up
  /\ row' = [l \in LeaseId |->
              IF row[l] # None /\ row[l][1].left \in (1 - MaxAge)..(Never - 1)
              THEN <<[row[l][1] EXCEPT !.left = @ - 1]>> ELSE row[l]]
  /\ UNCHANGED <<gen, gates>>

(* Every known generation, one further. *)
FencedGenerations == [r \in Resource |-> IF gen[r] = 0 THEN 0 ELSE gen[r] + 1]

(* The host reboots: no call survives, and the first authority that opens
   moves every generation on before it does anything else. *)
Reboot ==
  /\ \A r \in Resource : gen[r] < MaxGen
  /\ gen' = FencedGenerations
  /\ up' = 0
  /\ UNCHANGED <<row, gates>>

(* The keys that consumers lease and that are fenced before retirement. *)
Shared == Resource \ (Exclusive \cup {Platform})

Vias(s) == IF s = Platform THEN {None} ELSE {<<k>> : k \in LeasesOf(s)}

LeaseNext ==
  \/ \E r \in Resource \ {Platform} : EnsureGeneration(r) \/ AdvanceGeneration(r)
  \/ \E l \in LeaseId, age \in Ages : \E v \in Vias(Scope[l]) :
       \/ AcquireConsumer(l, v, age)
       \/ \E ttl \in TTL : AcquireExclusive(l, v, ttl, age) \/ AcquireTtl(l, v, ttl, age)
  \/ \E L \in SUBSET LeaseId, ttl \in TTL, age \in Ages : Renew(L, ttl, age)
  \/ \E l \in LeaseId : ReleaseLease(l)
  \/ \E r \in Shared, h \in Holder, age \in Ages : Fence(r, h, age)
  \/ \E g \in gates : ReleaseGate(g) \/ ReleaseOrphanGate(g)
  \/ Tick
  \/ Reboot

LeaseSpec == LeaseInit /\ [][LeaseNext]_leaseVars

-----------------------------------------------------------------------------
(* Every variable has the type of the table or attribute it stands for. *)
LeaseTypeOK ==
  /\ gen \in [Resource -> 0..MaxGen]
  /\ row \in [LeaseId -> {None} \cup {<<x>> : x \in Row}]
  /\ gates \subseteq Gate
  /\ up \in 0..MaxAge

(* No row and no gate is ahead of its resource's generation. *)
BehindGeneration ==
  /\ \A l \in LeaseId : row[l] # None => row[l][1].gen <= gen[On[l]]
  /\ \A g \in gates : g.gen <= gen[g.on]

(* acquire_exclusive_ttl_lease grants "the sole live lease": two leases of an
   exclusive resource are live together only when one of them was renewed,
   by a reading from before, after it had run out. *)
SoleLease ==
  /\ LeaseTypeOK
  /\ \A k, l \in LeaseId :
       k # l /\ On[k] = On[l] /\ On[k] \in Exclusive /\ Live(k) /\ Live(l)
         => row[k][1].lapsed \/ row[l][1].lapsed

(* Behind an unreleased gate of the current generation nobody holds a lease,
   so that what the fence retires has no consumer until the gate is open. *)
FencedQuiet ==
  \A g \in gates : g.gen = gen[g.on] =>
    \A l \in LeasesOf(g.on) : row[l] # None => row[l][1].gen < gen[g.on]

(* A fence takes the resource from no consumer whose lease is live, however
   late the call reaches the writer; a reboot takes it from all, whatever
   expiry they have on the old time line. *)
NoneCutOff ==
  [][/\ \A g \in gates' \ gates : \A l \in LeasesOf(g.on) \ Own[g.holder] : ~ Live(l)
     /\ Reboot => \A l \in LeaseId : ~ Live(l)']_leaseVars
=============================================================================
