------------------------- MODULE EffectJournalProofs -------------------------
(***************************************************************************)
(* For any intents, scopes, receipts and callers: the row of an intent is  *)
(* the head of its event chain, a scope has one unresolved scoped effect,  *)
(* terminal records have their evidence and do not change.                 *)
(***************************************************************************)
EXTENDS EffectJournal, TLAPS

(* What the code requires of one record. *)
Evidence(r) ==
  /\ r.phase = "prepared"      => r.effect = None
  /\ r.phase = "consumed"      => Certain(r, Consumable) /\ r.consumption # None
  /\ r.phase = "not_applied"   => Certain(r, {"no_effect"})
  /\ r.phase = "indeterminate" => Certain(r, {"indeterminate"})

(* A record's phases in the order it goes through them. *)
Rank(r) == IF r.phase = "prepared" THEN 0
           ELSE IF r.phase = "result_recorded" THEN 1
           ELSE IF r.phase = "reconciled" THEN 2 ELSE 3

(* What one operation may make of the record r. *)
Legal(r, s) ==
  /\ s.scoped = r.scoped
  /\ Rank(r) < Rank(s)
  /\ Certain(r, Consumable) =>
       /\ s.phase # "not_applied"
       /\ \/ s.effect = r.effect
          \/ r.phase = "result_recorded" /\ s.phase = "reconciled"
          \/ s.phase = "indeterminate"

(* A caller inside reconcile has read a row that was there: it still is, or the
   record has moved on, and then it never comes back. *)
ClientInv(c) ==
  \/ client[c] = Idle
  \/ /\ client[c] \in [at : {"row", "asking", "diverged"}, id : Id, row : Record]
     /\ record[client[c].id] # None
     /\ client[c].row = record[client[c].id] \/ Rank(client[c].row) < Rank(record[client[c].id])
     /\ client[c].at = "diverged" => client[c].row # record[client[c].id]

EffectInv ==
  /\ record \in [Id -> Record \cup {None}]
  /\ events \in [Id -> Seq(Record)]
  /\ \A i \in Id : record[i] = IF events[i] = <<>> THEN None ELSE EventHead(events[i])
  /\ \A i \in Id : record[i] # None => Evidence(record[i])
  /\ OneUnresolvedPerScope
  /\ \A c \in Client : ClientInv(c)

-----------------------------------------------------------------------------
(* None is no receipt and no record. *)
LEMMA NoneIsNone == (\A e \in Receipt : e # None) /\ (\A r \in Record : r # None)
  BY DEF Receipt, Record, None

LEMMA RankOrder ==
  ASSUME NEW r \in Record
  PROVE  Rank(r) \in 0..3 /\ (Rank(r) = 3 <=> r.phase \in Terminal) /\ (Rank(r) = 0 <=> r.phase = "prepared")
  BY DEF Rank, Record, Phase, Terminal

LEMMA EffectMoves ==
  ASSUME NEW r \in Record, Evidence(r), NEW q, NEW e \in Receipt \cup {None}, NEW n \in Snapshot \cup {None},
         NEW target \in {"result_recorded", "reconciled"},
         NEW s \in EffectTransition(r, target, q, e, n), s # r
  PROVE  /\ s \in Record /\ Evidence(s) /\ Legal(r, s)
         /\ s.phase = target /\ s.effect = e
         /\ target = "result_recorded" => r.phase = "prepared"
<1>1. /\ r.phase = "prepared" \/ (target = "reconciled" /\ r.phase = "result_recorded")
      /\ s = [r EXCEPT !.phase = target, !.effect = e, !.snapshot = n]
  BY Zenon DEF EffectTransition
<1>2. s \in Record /\ s.phase = target /\ s.effect = e /\ s.scoped = r.scoped
  BY <1>1, Zenon DEF Record, Phase
<1>3. Evidence(s)
  BY <1>2, Zenon DEF Evidence
<1>4. Rank(r) < Rank(s)
  BY <1>1, <1>2 DEF Rank
<1>5. Certain(r, Consumable) => r.phase = "result_recorded"
  BY <1>1, Zenon DEF Evidence, Certain
<1> QED
  BY <1>1, <1>2, <1>3, <1>4, <1>5, Zenon DEF Legal

LEMMA ConsumedMoves ==
  ASSUME NEW r \in Record, Evidence(r), NEW q, NEW w \in Completion,
         NEW s \in ConsumedTransition(r, q, w), s # r
  PROVE  s \in Record /\ Evidence(s) /\ Legal(r, s)
<1>1. /\ r.phase \in {"result_recorded", "reconciled"} /\ Certain(r, Consumable)
      /\ s = [r EXCEPT !.phase = "consumed", !.consumption = w]
  BY Zenon DEF ConsumedTransition, RequireConsumable
<1>2. s \in Record /\ s.phase = "consumed" /\ s.effect = r.effect /\ s.scoped = r.scoped /\ s.consumption = w
  BY <1>1, Zenon DEF Record, Phase
<1>3. w # None
  BY EffectAssumption, Zenon DEF None
<1>4. Rank(r) < Rank(s)
  BY <1>1, <1>2 DEF Rank
<1> QED
  BY <1>1, <1>2, <1>3, <1>4, Zenon DEF Evidence, Legal, Certain

LEMMA IndeterminateMoves ==
  ASSUME NEW r \in Record, Evidence(r), NEW q, NEW e \in Receipt,
         NEW s \in IndeterminateTransition(r, q, e), s # r
  PROVE  s \in Record /\ Evidence(s) /\ Legal(r, s)
<1>1. /\ r.phase \notin Terminal /\ e.certainty = "indeterminate"
      /\ s = [r EXCEPT !.phase = "indeterminate", !.effect = e]
  BY Zenon DEF IndeterminateTransition
<1>2. s \in Record /\ s.phase = "indeterminate" /\ s.effect = e /\ s.scoped = r.scoped
  BY <1>1, Zenon DEF Record, Phase
<1>3. Rank(r) < Rank(s)
  <2>1. Rank(r) \in 0..3 /\ Rank(r) # 3
    BY <1>1, RankOrder, Zenon
  <2>2. Rank(s) = 3
    BY <1>2, Zenon DEF Rank
  <2> QED
    BY <2>1, <2>2
<1> QED
  BY <1>1, <1>2, <1>3, NoneIsNone, Zenon DEF Evidence, Legal, Certain

LEMMA NotAppliedMoves ==
  ASSUME NEW r \in Record, Evidence(r), NEW q, NEW e \in Receipt,
         NEW s \in NotAppliedTransition(r, q, e), s # r
  PROVE  s \in Record /\ Evidence(s) /\ Legal(r, s)
<1>1. /\ r.phase \notin Terminal /\ e.certainty = "no_effect" /\ NotAppliedCompatible(r, e)
      /\ s = [r EXCEPT !.phase = "not_applied", !.effect = e]
  BY Zenon DEF NotAppliedTransition
<1>2. s \in Record /\ s.phase = "not_applied" /\ s.effect = e /\ s.scoped = r.scoped
  BY <1>1, Zenon DEF Record, Phase
<1>3. Rank(r) < Rank(s)
  <2>1. Rank(r) \in 0..3 /\ Rank(r) # 3
    BY <1>1, RankOrder, Zenon
  <2>2. Rank(s) = 3
    BY <1>2, Zenon DEF Rank
  <2> QED
    BY <2>1, <2>2
<1>4. ~ Certain(r, Consumable)
  BY <1>1, Zenon DEF NotAppliedCompatible, Certain, Consumable, Resolved
<1> QED
  BY <1>1, <1>2, <1>3, <1>4, NoneIsNone, Zenon DEF Evidence, Legal, Certain

(* The two transitions of record_terminal_result, one after the other. *)
LEMMA TerminalMoves ==
  ASSUME NEW r \in Record, Evidence(r), r.phase \notin Terminal, NEW q, NEW e \in Receipt,
         NEW n \in Snapshot \cup {None}, NEW w \in Completion \cup {None},
         NEW m \in EffectTransition(r, "result_recorded", q, e, n),
         NEW s \in TerminalTransition(m, q, e, w)
  PROVE  m \in Record /\ s \in Record /\ Evidence(s) /\ Legal(r, s)
<1>1. m \in Record /\ Evidence(m) /\ m.phase \notin Terminal
      /\ (m = r \/ (Legal(r, m) /\ r.phase = "prepared"))
  <2>1. CASE m = r
    BY <2>1, Zenon
  <2>2. CASE m # r
    <3>1. m \in Record /\ Evidence(m) /\ Legal(r, m) /\ m.phase = "result_recorded" /\ r.phase = "prepared"
      <4>1. e \in Receipt \cup {None} /\ "result_recorded" \in {"result_recorded", "reconciled"}
        BY Zenon
      <4> QED
        BY <2>2, <4>1, EffectMoves, SMTT(20)
    <3> QED
      BY <3>1, Zenon DEF Terminal
  <2> QED
    BY <2>1, <2>2, Zenon
<1>2. s # m /\ s \in Record /\ Evidence(s) /\ Legal(m, s)
  <2>1. CASE e.certainty \in Consumable /\ w # None
    <3>1. s \in ConsumedTransition(m, q, w)
      BY <2>1, Zenon DEF TerminalTransition
    <3>2. s # m
      <4>1. s = [m EXCEPT !.phase = "consumed", !.consumption = w]
        BY <1>1, <3>1, Zenon DEF ConsumedTransition, RequireConsumable, Terminal
      <4>2. s.phase = "consumed"
        BY <1>1, <4>1, Zenon DEF Record
      <4> QED
        BY <1>1, <4>2, Zenon DEF Terminal
    <3> QED
      BY <1>1, <2>1, <3>1, <3>2, ConsumedMoves, Zenon
  <2>2. CASE e.certainty = "no_effect" /\ w = None
    <3>1. s \in NotAppliedTransition(m, q, e)
      BY <2>2, Zenon DEF TerminalTransition, Consumable
    <3>2. s # m
      <4>1. s = [m EXCEPT !.phase = "not_applied", !.effect = e]
        BY <1>1, <3>1, Zenon DEF NotAppliedTransition, Terminal
      <4>2. s.phase = "not_applied"
        BY <1>1, <4>1, Zenon DEF Record
      <4> QED
        BY <1>1, <4>2, Zenon DEF Terminal
    <3> QED
      BY <1>1, <3>1, <3>2, NotAppliedMoves, Zenon
  <2>3. CASE e.certainty = "indeterminate" /\ w = None
    <3>1. s \in IndeterminateTransition(m, q, e)
      BY <2>3, Zenon DEF TerminalTransition, Consumable
    <3>2. s # m
      <4>1. s = [m EXCEPT !.phase = "indeterminate", !.effect = e]
        BY <1>1, <3>1, Zenon DEF IndeterminateTransition, Terminal
      <4>2. s.phase = "indeterminate"
        BY <1>1, <4>1, Zenon DEF Record
      <4> QED
        BY <1>1, <4>2, Zenon DEF Terminal
    <3> QED
      BY <1>1, <3>1, <3>2, IndeterminateMoves, Zenon
  <2> QED
    BY <2>1, <2>2, <2>3, Zenon DEF TerminalTransition
<1>3. CASE m = r
  BY <1>2, <1>3, <1>1, Zenon
<1>4. CASE m # r
  <2>1. ~ Certain(r, Consumable)
    BY <1>1, <1>4, Zenon DEF Evidence, Certain
  <2>2. Rank(r) < Rank(s) /\ s.scoped = r.scoped
    BY <1>1, <1>2, <1>4, RankOrder DEF Legal
  <2> QED
    BY <1>1, <1>2, <2>1, <2>2, Zenon DEF Legal
<1> QED
  BY <1>3, <1>4, Zenon

-----------------------------------------------------------------------------
(* What may be written for intent i: a new record, of a clear scope if it is to
   have one to itself, or what an operation makes of the one there is. *)
Allowed(i, s) ==
  /\ s \in Record /\ Evidence(s)
  /\ record[i] = None => s.phase = "prepared" /\ (s.scoped => ScopeClear(i))
  /\ record[i] # None => Legal(record[i], s)

(* What no step does to a record. *)
Kept ==
  \A i \in Id : record[i] # None =>
    /\ record[i].phase \in Terminal => record'[i] = record[i] /\ events'[i] = events[i]
    /\ Certain(record[i], Consumable) =>
         /\ record'[i].phase # "not_applied"
         /\ \/ record'[i].effect = record[i].effect
            \/ record[i].phase = "result_recorded" /\ record'[i].phase = "reconciled"
            \/ record'[i].phase = "indeterminate"

(* An effect that was applied or rejected is not one that was not applied. *)
LEMMA CertainTwice ==
  ASSUME EffectInv, NEW i \in Id, record[i] # None, Certain(record[i], Consumable)
  PROVE  record[i].phase # "not_applied"
  BY Zenon DEF EffectInv, Evidence, Certain, Consumable

LEMMA HeadWritten ==
  ASSUME NEW s \in Seq(Record), NEW rows \in Seq(Record), rows # <<>>
  PROVE  s \o rows \in Seq(Record) /\ s \o rows # <<>> /\ EventHead(s \o rows) = EventHead(rows) /\ EventHead(rows) \in Record
  BY DEF EventHead

(* A client that was idle, or has just become so, or whose record moved. *)
LEMMA ClientKept ==
  ASSUME EffectInv, NEW i \in Id, NEW s, Allowed(i, s), record' = [record EXCEPT ![i] = s],
         NEW c \in Client, client'[c] \in {client[c], Idle}
  PROVE  ClientInv(c)'
<1>1. CASE client'[c] = Idle
  BY <1>1, Zenon DEF ClientInv
<1>2. CASE client'[c] = client[c] /\ client[c] # Idle
  <2>1. /\ client[c] \in [at : {"row", "asking", "diverged"}, id : Id, row : Record]
        /\ record[client[c].id] # None
        /\ client[c].row = record[client[c].id] \/ Rank(client[c].row) < Rank(record[client[c].id])
        /\ client[c].at = "diverged" => client[c].row # record[client[c].id]
    BY <1>2, Zenon DEF EffectInv, ClientInv
  <2> DEFINE k == client[c].id
             row == client[c].row
  <2>2. k \in Id /\ row \in Record /\ record \in [Id -> Record \cup {None}]
    BY <2>1, Zenon DEF EffectInv
  <2>3. CASE k # i
    <3>1. record'[k] = record[k]
      BY <2>2, <2>3, Zenon
    <3> QED
      BY <1>2, <2>1, <3>1, Zenon DEF ClientInv
  <2>4. CASE k = i
    <3>1. record'[k] = s /\ s \in Record /\ record[k] \in Record
      BY <2>1, <2>2, <2>4, Zenon DEF Allowed
    <3>2. Rank(record[k]) < Rank(s)
      BY <2>1, <2>4, Zenon DEF Allowed, Legal
    <3>3. Rank(row) < Rank(s)
      <4>1. Rank(row) \in 0..3 /\ Rank(record[k]) \in 0..3 /\ Rank(s) \in 0..3
        BY <2>2, <3>1, RankOrder, Zenon
      <4>2. CASE row = record[k]
        BY <3>2, <4>2, Zenon
      <4>3. CASE Rank(row) < Rank(record[k])
        BY <3>2, <4>1, <4>3
      <4> QED
        BY <2>1, <4>2, <4>3, Zenon
    <3>4. row # s
      <4>1. Rank(s) \in 0..3
        BY <3>1, RankOrder, Zenon
      <4> QED
        BY <3>3, <4>1
    <3> QED
      BY <1>2, <2>1, <3>1, <3>3, <3>4, NoneIsNone, Zenon DEF ClientInv
  <2> QED
    BY <2>3, <2>4, Zenon
<1> QED
  BY <1>1, <1>2, Zenon

(* A scope that has an unresolved scoped effect keeps it the only one. *)
LEMMA ScopeKept ==
  ASSUME EffectInv, NEW i \in Id, NEW s, Allowed(i, s), record' = [record EXCEPT ![i] = s]
  PROVE  OneUnresolvedPerScope'
<1>1. /\ record \in [Id -> Record \cup {None}] /\ s \in Record
      /\ record'[i] = s /\ \A k \in Id : k # i => record'[k] = record[k]
  BY Zenon DEF EffectInv, Allowed
<1>2. s.phase \notin Terminal /\ record[i] # None => Unresolved(i) /\ s.scoped = record[i].scoped
  <2> SUFFICES ASSUME record[i] # None, s.phase \notin Terminal PROVE Unresolved(i) /\ s.scoped = record[i].scoped
    BY Zenon
  <2>1. record[i] \in Record /\ Rank(record[i]) < Rank(s) /\ s.scoped = record[i].scoped
    BY <1>1, Zenon DEF Allowed, Legal
  <2>2. Rank(record[i]) \in 0..3 /\ Rank(s) \in 0..3 /\ (Rank(record[i]) = 3 <=> record[i].phase \in Terminal)
    BY <1>1, <2>1, RankOrder, Zenon
  <2>3. record[i].phase \notin Terminal
    BY <2>1, <2>2
  <2> QED
    BY <2>1, <2>3, Zenon DEF Unresolved
<1>3. ASSUME NEW k \in Id, k # i, Scope[k] = Scope[i], Unresolved(k), s.phase \notin Terminal, s.scoped
      PROVE  ~ record[k].scoped
  <2>1. CASE record[i] = None
    BY <1>3, <2>1, Zenon DEF Allowed, ScopeClear
  <2>2. CASE record[i] # None
    BY <1>2, <1>3, <2>2, Zenon DEF EffectInv, OneUnresolvedPerScope
  <2> QED
    BY <2>1, <2>2, Zenon
<1>4. \A k \in Id : k # i => (Unresolved(k)' <=> Unresolved(k))
  BY <1>1, Zenon DEF Unresolved
<1>5. Unresolved(i)' => s.phase \notin Terminal
  BY <1>1, Zenon DEF Unresolved
<1>6. ASSUME NEW j \in Id, NEW k \in Id, j # k, Scope[j] = Scope[k], Unresolved(j)', Unresolved(k)'
      PROVE  ~(record'[j].scoped /\ record'[k].scoped)
  <2>1. CASE j # i /\ k # i
    BY <1>1, <1>4, <1>6, <2>1, Zenon DEF EffectInv, OneUnresolvedPerScope
  <2>2. CASE j = i
    BY <1>1, <1>3, <1>4, <1>5, <1>6, <2>2, Zenon
  <2>3. CASE k = i
    BY <1>1, <1>3, <1>4, <1>5, <1>6, <2>3, Zenon
  <2> QED
    BY <2>1, <2>2, <2>3, Zenon
<1> QED
  BY <1>6, Zenon DEF OneUnresolvedPerScope

(* Every transaction of the journal. *)
LEMMA CommitKeeps ==
  ASSUME EffectInv, NEW i \in Id, NEW rows \in Seq(Record), rows # <<>>,
         Commit(i, rows), Allowed(i, EventHead(rows)), \A c \in Client : client'[c] \in {client[c], Idle}
  PROVE  EffectInv' /\ Kept
<1> DEFINE s == EventHead(rows)
<1>1. /\ record' = [record EXCEPT ![i] = s] /\ events' = [events EXCEPT ![i] = @ \o rows]
      /\ s \in Record /\ record \in [Id -> Record \cup {None}] /\ events \in [Id -> Seq(Record)]
  BY HeadWritten, Zenon DEF Commit, EffectInv, Allowed
<1>2. events[i] \in Seq(Record) /\ events'[i] = events[i] \o rows
  BY <1>1, Zenon
<1>3. events'[i] \in Seq(Record) /\ events'[i] # <<>> /\ EventHead(events'[i]) = s
  BY <1>2, HeadWritten
<1>o. Allowed(i, s)
  BY Zenon
<1> HIDE DEF s
<1>4. \A k \in Id : k # i => record'[k] = record[k] /\ events'[k] = events[k]
  BY <1>1, Zenon
<1>5. record'[i] = s
  BY <1>1, Zenon
<1>6. record' \in [Id -> Record \cup {None}] /\ events' \in [Id -> Seq(Record)]
  BY <1>1, <1>2, <1>3, Zenon
<1>7. \A k \in Id : record'[k] = IF events'[k] = <<>> THEN None ELSE EventHead(events'[k])
  BY <1>3, <1>4, <1>5, Zenon DEF EffectInv
<1>8. \A k \in Id : record'[k] # None => Evidence(record'[k])
  BY <1>4, <1>5, <1>o, Zenon DEF EffectInv, Allowed
<1>9. \A c \in Client : ClientInv(c)'
  BY <1>1, <1>o, ClientKept, Zenon
<1>10. OneUnresolvedPerScope'
  BY <1>1, <1>o, ScopeKept, Zenon
<1>11. Kept
  <2>1. record[i] # None => record[i].phase \notin Terminal /\ Legal(record[i], s)
    <3> SUFFICES ASSUME record[i] # None PROVE record[i].phase \notin Terminal /\ Legal(record[i], s)
      BY Zenon
    <3>1. record[i] \in Record /\ Legal(record[i], s)
      BY <1>1, <1>o, Zenon DEF Allowed
    <3>2. Rank(record[i]) \in 0..3 /\ Rank(s) \in 0..3 /\ (Rank(record[i]) = 3 <=> record[i].phase \in Terminal)
      BY <1>1, <3>1, RankOrder, Zenon
    <3> QED
      BY <3>1, <3>2 DEF Legal
  <2>2. \A k \in Id : record[k] # None /\ Certain(record[k], Consumable) => record[k].phase # "not_applied"
    BY CertainTwice, Zenon
  <2> QED
    BY <1>4, <1>5, <2>1, <2>2, Zenon DEF Kept, Legal
<1> QED
  BY <1>6, <1>7, <1>8, <1>9, <1>10, <1>11, Zenon DEF EffectInv

LEMMA OneRow == \A r \in Record : <<r>> \in Seq(Record) /\ <<r>> # <<>> /\ EventHead(<<r>>) = r
  BY DEF EventHead

LEMMA TwoRows == \A r, s \in Record : <<r, s>> \in Seq(Record) /\ <<r, s>> # <<>> /\ EventHead(<<r, s>>) = s
  BY DEF EventHead

(* A transaction of one event. *)
LEMMA OneCommit ==
  ASSUME EffectInv, NEW i \in Id, NEW s, Allowed(i, s), Commit(i, <<s>>),
         \A c \in Client : client'[c] \in {client[c], Idle}
  PROVE  EffectInv' /\ Kept
<1>1. s \in Record
  BY Zenon DEF Allowed
<1>2. <<s>> \in Seq(Record) /\ <<s>> # <<>> /\ EventHead(<<s>>) = s
  BY <1>1, OneRow, Zenon
<1> QED
  BY <1>2, CommitKeeps, Zenon

LEMMA ClientSame == UNCHANGED client => \A c \in Client : client'[c] \in {client[c], Idle}
  BY Zenon

LEMMA PrepareKeeps ==
  ASSUME EffectInv, NEW i \in Id, NEW q \in Request, Prepare(i, q) \/ PrepareScoped(i, q)
  PROVE  EffectInv' /\ Kept
<1>1. PICK b \in BOOLEAN : record[i] = None /\ (b => ScopeClear(i)) /\ Commit(i, <<NewRecord(q, b)>>) /\ UNCHANGED client
  BY Zenon DEF Prepare, PrepareScoped, Write
<1>2. NewRecord(q, b) \in Record /\ NewRecord(q, b).phase = "prepared" /\ NewRecord(q, b).effect = None
      /\ NewRecord(q, b).scoped = b
  BY Zenon DEF NewRecord, Record, Phase
<1>3. Allowed(i, NewRecord(q, b))
  BY <1>1, <1>2, Zenon DEF Allowed, Evidence
<1> QED
  BY <1>1, <1>3, OneCommit, ClientSame, Zenon

(* The record of an intent that is there. *)
LEMMA RecordThere ==
  ASSUME EffectInv, NEW i \in Id, record[i] # None PROVE record[i] \in Record /\ Evidence(record[i])
  BY Zenon DEF EffectInv

LEMMA ApplyKeeps ==
  ASSUME EffectInv, NEW i \in Id, NEW desired, Apply(i, desired),
         \A s \in desired : s # record[i] => s \in Record /\ Evidence(s) /\ Legal(record[i], s)
  PROVE  EffectInv' /\ Kept
<1>1. PICK s \in desired : s # record[i] /\ Commit(i, <<s>>) /\ UNCHANGED client /\ record[i] # None
  BY Zenon DEF Apply, Write
<1>2. Allowed(i, s)
  BY <1>1, Zenon DEF Allowed
<1> QED
  BY <1>1, <1>2, OneCommit, ClientSame, Zenon

LEMMA RecordKeeps ==
  ASSUME EffectInv, NEW i \in Id, NEW q \in Request,
         \/ \E e \in Receipt \cup {None}, n \in Snapshot \cup {None} : RecordResult(i, q, e, n)
         \/ \E e \in Receipt, n \in Snapshot \cup {None} : RecordReconciled(i, q, e, n)
         \/ \E e \in Receipt : RecordNotApplied(i, q, e) \/ RecordIndeterminate(i, q, e)
         \/ \E w \in Completion : RecordConsumed(i, q, w)
  PROVE  EffectInv' /\ Kept
<1>1. record[i] # None
  BY Zenon DEF RecordResult, RecordReconciled, RecordNotApplied, RecordIndeterminate, RecordConsumed
<1>2. record[i] \in Record /\ Evidence(record[i])
  BY <1>1, RecordThere, Zenon
<1>3. ASSUME NEW e \in Receipt \cup {None}, NEW n \in Snapshot \cup {None},
             NEW t \in {"result_recorded", "reconciled"}, Apply(i, EffectTransition(record[i], t, q, e, n))
      PROVE  EffectInv' /\ Kept
  BY <1>2, <1>3, EffectMoves, ApplyKeeps
<1>4. ASSUME NEW e \in Receipt, Apply(i, NotAppliedTransition(record[i], q, e)) PROVE EffectInv' /\ Kept
  BY <1>2, <1>4, NotAppliedMoves, ApplyKeeps, Zenon
<1>5. ASSUME NEW e \in Receipt, Apply(i, IndeterminateTransition(record[i], q, e)) PROVE EffectInv' /\ Kept
  BY <1>2, <1>5, IndeterminateMoves, ApplyKeeps, Zenon
<1>6. ASSUME NEW w \in Completion, Apply(i, ConsumedTransition(record[i], q, w)) PROVE EffectInv' /\ Kept
  BY <1>2, <1>6, ConsumedMoves, ApplyKeeps, Zenon
<1> QED
  BY <1>3, <1>4, <1>5, <1>6, Zenon DEF RecordResult, RecordReconciled, RecordNotApplied, RecordIndeterminate, RecordConsumed

LEMMA TerminalKeeps ==
  ASSUME EffectInv, NEW i \in Id, NEW q \in Request, NEW e \in Receipt, NEW n \in Snapshot \cup {None},
         NEW w \in Completion \cup {None}, RecordTerminalResult(i, q, e, n, w)
  PROVE  EffectInv' /\ Kept
<1>1. PICK m \in EffectTransition(record[i], "result_recorded", q, e, n) :
      \E s \in TerminalTransition(m, q, e, w) :
        Write(i, IF m = record[i] THEN <<s>> ELSE <<m, s>>)
  BY Zenon DEF RecordTerminalResult
<1>2. PICK s \in TerminalTransition(m, q, e, w) : Write(i, IF m = record[i] THEN <<s>> ELSE <<m, s>>)
  BY <1>1, Zenon
<1>3. record[i] # None /\ record[i].phase \notin Terminal
  BY Zenon DEF RecordTerminalResult, Unresolved
<1>4. record[i] \in Record /\ Evidence(record[i])
  BY <1>3, RecordThere, Zenon
<1>5. m \in Record /\ s \in Record /\ Evidence(s) /\ Legal(record[i], s)
  BY <1>3, <1>4, TerminalMoves, Zenon
<1> DEFINE rows == IF m = record[i] THEN <<s>> ELSE <<m, s>>
<1>6. rows \in Seq(Record) /\ rows # <<>> /\ EventHead(rows) = s
  BY <1>5, OneRow, TwoRows, Zenon
<1>7. Commit(i, rows) /\ UNCHANGED client
  BY <1>2, Zenon DEF Write
<1> HIDE DEF rows
<1>8. Allowed(i, EventHead(rows))
  BY <1>3, <1>5, <1>6, Zenon DEF Allowed
<1> QED
  BY <1>6, <1>7, <1>8, CommitKeeps, ClientSame, Zenon

-----------------------------------------------------------------------------
ClientState == {Idle} \cup [at : {"row", "asking", "diverged"}, id : Id, row : Record]

ClientType == client \in [Client -> ClientState]

LEMMA NothingWritten ==
  ASSUME EffectInv, UNCHANGED <<record, events>>, \A c \in Client : ClientInv(c)'
  PROVE  EffectInv' /\ Kept
<1>1. OneUnresolvedPerScope'
  BY Zenon DEF EffectInv, OneUnresolvedPerScope, Unresolved
<1>2. EffectInv'
  BY <1>1, Zenon DEF EffectInv
<1>3. \A i \in Id : record[i] # None /\ Certain(record[i], Consumable) => record[i].phase # "not_applied"
  BY CertainTwice, Zenon
<1> QED
  BY <1>2, <1>3, Zenon DEF Kept

(* A client whose state does not change while the journal does not either. *)
LEMMA ClientStays ==
  ASSUME NEW c \in Client, ClientInv(c), UNCHANGED record, client'[c] \in {client[c], Idle}
  PROVE  ClientInv(c)'
<1>1. CASE client'[c] = Idle
  BY <1>1, Zenon DEF ClientInv
<1>2. CASE client'[c] = client[c]
  BY <1>2, Zenon DEF ClientInv
<1> QED
  BY <1>1, <1>2, Zenon

LEMMA LoadRowKeeps ==
  ASSUME EffectInv, ClientType, NEW c \in Client, NEW i \in Id, LoadRow(c, i)
  PROVE  EffectInv' /\ ClientType' /\ Kept
<1> DEFINE v == [at |-> "row", id |-> i, row |-> record[i]]
<1>1. record[i] # None /\ UNCHANGED <<record, events>> /\ client' = [client EXCEPT ![c] = v]
  BY Zenon DEF LoadRow
<1>2. record[i] \in Record
  BY <1>1, RecordThere, Zenon
<1>3. v \in [at : {"row", "asking", "diverged"}, id : Id, row : Record] /\ v.id = i /\ v.row = record[i] /\ v.at = "row"
  BY <1>2, Zenon
<1> HIDE DEF v
<1>4. ClientType' /\ client'[c] = v /\ \A d \in Client : d # c => client'[d] = client[d]
  BY <1>1, <1>3, Zenon DEF ClientType, ClientState
<1>5. ClientInv(c)'
  BY <1>1, <1>3, <1>4, Zenon DEF ClientInv
<1>6. \A d \in Client : d # c => ClientInv(d)'
  BY <1>1, <1>4, ClientStays, Zenon DEF EffectInv
<1> QED
  BY <1>1, <1>4, <1>5, <1>6, NothingWritten, Zenon

LEMMA LoadHeadKeeps ==
  ASSUME EffectInv, ClientType, NEW c \in Client, LoadHead(c)
  PROVE  EffectInv' /\ ClientType' /\ Kept
<1> DEFINE row == client[c].row
           i == client[c].id
           to == IF EventHead(events[client[c].id]) # row THEN "diverged"
                 ELSE IF row.phase \in {"prepared", "result_recorded"} THEN "asking" ELSE "idle"
           v == IF to = "idle" THEN Idle ELSE [client[c] EXCEPT !.at = to]
<1>1. client[c].at = "row" /\ UNCHANGED <<record, events>>
  BY Zenon DEF LoadHead
<1>2. client' = [client EXCEPT ![c] = v]
  BY Zenon DEF LoadHead
<1>3. client[c] # Idle
  BY <1>1 DEF Idle
<1>4. /\ client[c] \in [at : {"row", "asking", "diverged"}, id : Id, row : Record]
      /\ record[i] # None
      /\ row = record[i] \/ Rank(row) < Rank(record[i])
  BY <1>3, Zenon DEF EffectInv, ClientInv
<1>5. record[i] = EventHead(events[i])
  BY <1>4, Zenon DEF EffectInv
<1>6. CASE to = "idle"
  <2>1. v = Idle
    BY <1>6, Zenon
  <2> HIDE DEF v
  <2>2. ClientType' /\ \A d \in Client : client'[d] \in {client[d], Idle}
    BY <1>2, <2>1, Zenon DEF ClientType, ClientState
  <2>3. \A d \in Client : ClientInv(d)'
    BY <1>1, <2>2, ClientStays, Zenon DEF EffectInv
  <2> QED
    BY <1>1, <2>2, <2>3, NothingWritten, Zenon
<1>7. CASE to # "idle"
  <2>1. /\ v \in [at : {"row", "asking", "diverged"}, id : Id, row : Record]
        /\ v.id = i /\ v.row = row /\ v.at = to
    BY <1>4, <1>7, Zenon
  <2>2. to = "diverged" => row # record[i]
    BY <1>5, Zenon
  <2> HIDE DEF v, to, row, i
  <2>3. ClientType' /\ client'[c] = v /\ \A d \in Client : d # c => client'[d] = client[d]
    BY <1>2, <2>1, Zenon DEF ClientType, ClientState
  <2>4. ClientInv(c)'
    BY <1>1, <1>4, <2>1, <2>2, <2>3, Zenon DEF ClientInv
  <2>5. \A d \in Client : d # c => ClientInv(d)'
    BY <1>1, <2>3, ClientStays, Zenon DEF EffectInv
  <2> QED
    BY <1>1, <2>3, <2>4, <2>5, NothingWritten, Zenon
<1> QED
  BY <1>6, <1>7, Zenon

LEMMA IdleType ==
  ASSUME ClientType, NEW c \in Client, client' = [client EXCEPT ![c] = Idle]
  PROVE  ClientType' /\ \A d \in Client : client'[d] \in {client[d], Idle}
  BY Zenon DEF ClientType, ClientState

LEMMA AbandonKeeps ==
  ASSUME EffectInv, ClientType, NEW c \in Client, Abandon(c)
  PROVE  EffectInv' /\ ClientType' /\ Kept
<1>1. UNCHANGED <<record, events>> /\ client' = [client EXCEPT ![c] = Idle]
  BY Zenon DEF Abandon
<1>2. ClientType' /\ \A d \in Client : client'[d] \in {client[d], Idle}
  BY <1>1, IdleType, Zenon
<1>3. \A d \in Client : ClientInv(d)'
  BY <1>1, <1>2, ClientStays, Zenon DEF EffectInv
<1> QED
  BY <1>1, <1>2, <1>3, NothingWritten, Zenon

LEMMA ReconcileKeeps ==
  ASSUME EffectInv, ClientType, NEW c \in Client, NEW d, NEW e \in Receipt, Reconcile(c, d, e)
  PROVE  EffectInv' /\ ClientType' /\ Kept
<1> DEFINE i == client[c].id
           next == Proved(record[i], d, e) \ {record[i]}
<1>1. /\ client[c].at = "asking" /\ client' = [client EXCEPT ![c] = Idle]
      /\ IF next = {} THEN UNCHANGED <<record, events>> ELSE \E r \in next : Commit(i, <<r>>)
  BY Zenon DEF Reconcile
<1>2. client[c] # Idle
  BY <1>1 DEF Idle
<1>3. i \in Id /\ record[i] # None
  BY <1>2, Zenon DEF EffectInv, ClientInv
<1>4. record[i] \in Record /\ Evidence(record[i])
  BY <1>3, RecordThere, Zenon
<1>5. ClientType' /\ \A x \in Client : client'[x] \in {client[x], Idle}
  BY <1>1, IdleType, Zenon
<1>6. CASE next = {}
  <2>1. UNCHANGED <<record, events>>
    BY <1>1, <1>6, Zenon
  <2>2. \A x \in Client : ClientInv(x)'
    BY <1>5, <2>1, ClientStays, Zenon DEF EffectInv
  <2> QED
    BY <1>5, <2>1, <2>2, NothingWritten, Zenon
<1>7. CASE next # {}
  <2>1. PICK r \in next : Commit(i, <<r>>)
    BY <1>1, <1>7, Zenon
  <2>2. r # record[i] /\ r \in Proved(record[i], d, e)
    BY <2>1, Zenon
  <2>3. r \in Record /\ Evidence(r) /\ Legal(record[i], r)
    <3>1. ASSUME r \in IndeterminateTransition(record[i], record[i].request, e)
          PROVE  r \in Record /\ Evidence(r) /\ Legal(record[i], r)
      BY <1>4, <2>2, <3>1, IndeterminateMoves, Zenon
    <3>2. ASSUME r \in NotAppliedTransition(record[i], record[i].request, e)
          PROVE  r \in Record /\ Evidence(r) /\ Legal(record[i], r)
      BY <1>4, <2>2, <3>2, NotAppliedMoves, Zenon
    <3>3. ASSUME r \in EffectTransition(record[i], "reconciled", record[i].request, e, None)
          PROVE  r \in Record /\ Evidence(r) /\ Legal(record[i], r)
      <4>1. /\ e \in Receipt \cup {None} /\ None \in Snapshot \cup {None}
            /\ "reconciled" \in {"result_recorded", "reconciled"}
        BY <1>4, Zenon
      <4> QED
        BY <1>4, <2>2, <3>3, <4>1, EffectMoves, SMTT(20)
    <3> QED
      BY <2>2, <3>1, <3>2, <3>3, Zenon DEF Proved
  <2>4. Allowed(i, r)
    BY <1>3, <2>3, Zenon DEF Allowed
  <2> QED
    BY <1>3, <1>5, <2>1, <2>4, OneCommit, Zenon
<1> QED
  BY <1>6, <1>7, Zenon

LEMMA StepKeeps == ASSUME EffectInv, ClientType, [Next]_vars PROVE EffectInv' /\ ClientType' /\ Kept
<1>1. ASSUME NEW i \in Id, NEW q \in Request,
             \/ Prepare(i, q) \/ PrepareScoped(i, q)
             \/ \E e \in Receipt \cup {None}, n \in Snapshot \cup {None} : RecordResult(i, q, e, n)
             \/ \E e \in Receipt, n \in Snapshot \cup {None} :
                  RecordReconciled(i, q, e, n) \/ \E w \in Completion \cup {None} : RecordTerminalResult(i, q, e, n, w)
             \/ \E e \in Receipt : RecordNotApplied(i, q, e) \/ RecordIndeterminate(i, q, e)
             \/ \E w \in Completion : RecordConsumed(i, q, w)
      PROVE  EffectInv' /\ ClientType' /\ Kept
  <2>1. EffectInv' /\ Kept
    BY <1>1, PrepareKeeps, RecordKeeps, TerminalKeeps, Zenon
  <2>2. UNCHANGED client
    BY <1>1, Zenon DEF Prepare, PrepareScoped, RecordResult, RecordReconciled, RecordTerminalResult, RecordNotApplied,
                RecordIndeterminate, RecordConsumed, Apply, Write
  <2> QED
    BY <2>1, <2>2, Zenon DEF ClientType
<1>2. ASSUME UNCHANGED vars PROVE EffectInv' /\ ClientType' /\ Kept
  <2>1. UNCHANGED <<record, events>> /\ UNCHANGED client
    BY <1>2, Zenon DEF vars
  <2>2. \A c \in Client : ClientInv(c)'
    BY <2>1, ClientSame, ClientStays, Zenon DEF EffectInv
  <2> QED
    BY <2>1, <2>2, NothingWritten, Zenon DEF ClientType
<1> QED
  BY <1>1, <1>2, LoadRowKeeps, LoadHeadKeeps, AbandonKeeps, ReconcileKeeps, Zenon DEF Next

LEMMA InitKeeps == Init => EffectInv /\ ClientType
<1> SUFFICES ASSUME Init PROVE EffectInv /\ ClientType
  BY Zenon
<1>1. record = [i \in Id |-> None] /\ events = [i \in Id |-> <<>>] /\ client = [c \in Client |-> Idle]
  BY Zenon DEF Init
<1>2. OneUnresolvedPerScope
  BY <1>1, Zenon DEF OneUnresolvedPerScope, Unresolved
<1>3. \A c \in Client : ClientInv(c)
  BY <1>1, Zenon DEF ClientInv
<1>4. events \in [Id -> Seq(Record)]
  BY <1>1
<1> QED
  BY <1>1, <1>2, <1>3, <1>4, Zenon DEF EffectInv, ClientType, ClientState

-----------------------------------------------------------------------------
(* The inductive invariant. *)
THEOREM EffectInvariant == Spec => [](EffectInv /\ ClientType)
<1>1. EffectInv /\ ClientType /\ [Next]_vars => EffectInv' /\ ClientType'
  BY StepKeeps, Zenon
<1> QED
  BY <1>1, InitKeeps, PTL DEF Spec

(* The row of an intent is the head of its event chain after every transaction,
   and load reports a divergence only of a record that has moved on since it
   read the row. *)
THEOREM RowIsHead == Spec => []ProjectionIsHead
<1>1. ASSUME EffectInv PROVE ProjectionIsHead
  <2>1. \A i \in Id : \A k \in DOMAIN events[i] : events[i][k] \in Record
    BY <1>1 DEF EffectInv
  <2>2. \A c \in Client : \/ client[c] = Idle
                         \/ /\ client[c].at \in {"row", "asking", "diverged"}
                            /\ client[c].id \in Id
                            /\ client[c].row \in Record
    BY <1>1, Zenon DEF EffectInv, ClientInv
  <2>3. DivergenceMeansMoved
    BY <1>1 DEF EffectInv, ClientInv, DivergenceMeansMoved, Idle
  <2> QED
    BY <1>1, <2>1, <2>2, <2>3, Zenon DEF ProjectionIsHead, TypeOK, EffectInv
<1> QED
  BY <1>1, EffectInvariant, PTL

(* prepare_scoped never lets two effects of a scope be unresolved at once. *)
THEOREM ScopeHasOne == Spec => []OneUnresolvedPerScope
<1>1. EffectInv => OneUnresolvedPerScope
  BY Zenon DEF EffectInv
<1> QED
  BY <1>1, EffectInvariant, PTL

(* A record is consumed, not applied or indeterminate only with the receipt and
   the completion that say so, whoever recorded them. *)
THEOREM TerminalIsProved == Spec => []TerminalEvidence
<1>1. EffectInv => TerminalEvidence
  BY Zenon DEF EffectInv, TerminalEvidence, Evidence
<1> QED
  BY <1>1, EffectInvariant, PTL

(* Terminal records and their chains never change, and a confirmed or rejected
   receipt is only replaced as the transition algebra says. *)
THEOREM TerminalIsFinal == Spec => TerminalFinal
<1>1. EffectInv /\ ClientType /\ [Next]_vars => [Kept]_vars
  BY StepKeeps, Zenon
<1>2. Spec => [][Kept]_vars
  BY <1>1, EffectInvariant, PTL DEF Spec
<1> QED
  BY <1>2, Zenon DEF TerminalFinal, Kept
==============================================================================
