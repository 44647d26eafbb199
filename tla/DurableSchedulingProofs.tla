----------------------- MODULE DurableSchedulingProofs -----------------------
(***************************************************************************)
(* For any processes, threads and flows and any number of transitions and  *)
(* faults: the group commit answers for itself, and what the processes     *)
(* keep beside the journal says what the journal says.                     *)
(***************************************************************************)
EXTENDS DurableScheduling, TLAPS

(* e is in the sequence v; an event of number n is. *)
Has(v, e) == \E i \in DOMAIN v : v[i] = e

Occurs(v, n) == \E i \in DOMAIN v : v[i].nr = n

(* The journal with the rows of the open transaction. *)
Journal == events \o written

(* The thread is in _group_transition. *)
Active(t) == pc[t] # "idle"

(* The thread has the writer baton. *)
Holder(t) == leading[t] \/ pc[t] \in Working

(* Where a writer is while its cut is captured. *)
Late == {"commit", "publish", "failed", "strand"}

(* Draining processes have one writer, and it is neither told nor replaced yet. *)
BatonInv ==
  /\ \A t \in Thread : Holder(t) => draining[ProcOf[t]]
  /\ \A t, u \in Thread : Holder(t) /\ Holder(u) /\ ProcOf[t] = ProcOf[u] => t = u
  /\ \A p \in Process : draining[p] => \E t \in Thread : ProcOf[t] = p /\ Holder(t)
  /\ \A p \in Process : ~ draining[p] => queue[p] = <<>>
  /\ \A t \in Thread : leading[t] => pc[t] = "waiting" /\ receipt[t] = "none"
  /\ \A t \in Thread : receipt[t] # "none" => pc[t] = "waiting"

(* The cut lock is free, and no failed group is in the view. *)
Clean(p) == CutFree(p) /\ ~ Poisoned(p)

(* One transaction at a time, of a thread whose process is caught up; no rows
   without one. *)
CommitInv ==
  /\ \A t, u \in Thread : pc[t] = "commit" /\ pc[u] = "commit" => t = u
  /\ (\A t \in Thread : pc[t] # "commit") => written = <<>>
  /\ \A t \in Thread : pc[t] = "commit" =>
       /\ Len(written) <= done[ProcOf[t]] /\ done[ProcOf[t]] <= Len(batch[ProcOf[t]])
       /\ applied[ProcOf[t]] = Len(events) + Len(written)

(* No checkpoint and no clean view is ahead of the journal. *)
BoundInv ==
  /\ checkpoint.seq <= Len(events)
  /\ \A p \in Process : Clean(p) => applied[p] <= Len(events)

(* No element twice. *)
Distinct(s) == \A i, j \in DOMAIN s : s[i] = s[j] => i = j

(* The first n elements of s. *)
FirstOf(s, n) == {s[i] : i \in {j \in DOMAIN s : j <= n}}

(* The queue and the cut of a process hold waiting threads of its own, each
   once; validation refused only items it has seen. *)
QueueInv ==
  \A p \in Process :
    /\ \A x \in InSeq(queue[p]) \cup InSeq(batch[p]) : ProcOf[x] = p /\ Active(x) /\ receipt[x] = "none"
    /\ \A x \in InSeq(queue[p]) : x \notin InSeq(batch[p])
    /\ Distinct(queue[p]) /\ Distinct(batch[p])
    /\ (\A t \in Thread : ProcOf[t] = p => pc[t] \notin Late) => batch[p] = <<>>
    /\ batch[p] = <<>> => done[p] = 0 /\ refused[p] = {}
    /\ refused[p] \subseteq FirstOf(batch[p], done[p])

(* Transitions have numbers of their own, and completions are of granted flows. *)
CallInv ==
  /\ \A t \in Thread : Active(t) =>
       /\ call[t].thread = t /\ call[t].nr <= calls /\ call[t].op \in {"grant", "completion"}
       /\ call[t].op = "completion" <=> call[t].flow \in own[t]
  /\ \A t, u \in Thread : Active(t) /\ Active(u) /\ call[t].nr = call[u].nr => t = u
  /\ \A a \in answered : /\ a.event.nr <= calls
                         /\ \A t \in Thread : Active(t) => call[t].nr # a.event.nr

(* The events of v are of different transitions, the first c of them. *)
Numbered(v, c) ==
  /\ \A i \in DOMAIN v : v[i].nr <= c
  /\ \A i, j \in DOMAIN v : v[i].nr = v[j].nr => i = j

(* No transition is in the journal twice. *)
JournalInv == Numbered(Journal, calls)

(* Where the transition of x, captured by the writer t of p, is. *)
Placed(t, p, x) ==
  /\ pc[t] = "commit" => IF x \in FirstOf(batch[p], done[p]) /\ x \notin refused[p]
                         THEN Has(written, call[x]) ELSE ~ Occurs(Journal, call[x].nr)
  /\ pc[t] = "publish" => IF x \notin refused[p] THEN Has(events, call[x])
                          ELSE ~ Occurs(Journal, call[x].nr)
  /\ pc[t] \in {"failed", "strand"} => ~ Occurs(Journal, call[x].nr)

(* Where the transitions of receipts, queues, cuts and answers are. *)
PlaceInv ==
  /\ \A t \in Thread : receipt[t] = "ok" => Has(events, call[t])
  /\ \A t \in Thread : receipt[t] \in {"rejected", "failed"} => ~ Occurs(Journal, call[t].nr)
  /\ \A p \in Process : \A x \in InSeq(queue[p]) : ~ Occurs(Journal, call[x].nr)
  /\ \A t \in Thread : \A x \in InSeq(batch[ProcOf[t]]) : Placed(t, ProcOf[t], x)
  /\ \A a \in answered : IF a.ok THEN Has(events, a.event) ELSE ~ Occurs(Journal, a.event.nr)

(* A process that starts from the first event of v can replay it. *)
Replayable(v) == \A i \in DOMAIN v : Accepts(SubSeq(v, 1, i - 1), v[i])

(* The process of the view has read no further than it has applied. *)
ViewInv ==
  /\ CheckpointIsProjection
  /\ \A p \in Process : Clean(p) =>
       applied[p] <= Len(events) /\ view[p] = SubSeq(events, 1, applied[p]) /\ readAt[p] <= applied[p]
  /\ \A t \in Thread : pc[t] = "commit" =>
       view[ProcOf[t]] = Journal /\ readAt[ProcOf[t]] <= Len(events)
  /\ Replayable(Journal)

(* Thread t holds a grant of f that v has and does not give back. *)
Owes(v, t, f) ==
  \/ f \in own[t] /\ ~ (Active(t) /\ call[t].flow = f /\ Has(v, call[t]))
  \/ Active(t) /\ call[t].op = "grant" /\ call[t].flow = f /\ Has(v, call[t])

(* The threads with the flows that they owe. *)
Debts(v) == {d \in Thread \X Flow : Owes(v, d[1], d[2])}

(* The grants of a flow, and what gives them back. *)
Grants(v, f) == {i \in DOMAIN v : v[i].flow = f /\ v[i].op \in {"grant"}}

Returns(v, f) == {i \in DOMAIN v : v[i].flow = f /\ v[i].op \in {"completion", "rollback"}}

(* m gives every return of f a grant of the same thread, each its own, and leaves
   a grant for every thread that owes one.  Counting alone is not inductive: a
   thread's return must not use up the grant of another. *)
Matches(v, f, m, D) ==
  /\ m \in [Returns(v, f) -> Grants(v, f)]
  /\ \A i, j \in Returns(v, f) : m[i] = m[j] => i = j
  /\ \A i \in Returns(v, f) : v[m[i]].thread = v[i].thread
  /\ \A t \in Thread : <<t, f>> \in D =>
       \E g \in Grants(v, f) : v[g].thread = t /\ \A i \in Returns(v, f) : m[i] # g

Matched(v, D) == \A f \in Flow : \E m : Matches(v, f, m, D)

(* The inductive invariant. *)
IInv == /\ TypeOK /\ BatonInv /\ QueueInv /\ CommitInv /\ BoundInv /\ CallInv /\ JournalInv /\ PlaceInv
        /\ (spoilt \/ ViewInv)
        /\ Matched(events, Debts(events)) /\ Matched(Journal, Debts(Journal))

-----------------------------------------------------------------------------
(* Numbers: bounds that meet, and a grant more than returns. *)
LEMMA BoundsMeet == \A a, n \in Nat : a <= n /\ n <= a => a = n
  OBVIOUS

LEMMA GrantOver == \A r, g \in Nat : r <= g - 1 => g - r > 0
  OBVIOUS

(* Sequences: prefixes of longer journals. *)
LEMMA PrefixOfAppend ==
  ASSUME NEW S, NEW s \in Seq(S), NEW e \in S, NEW a \in Nat, a <= Len(s)
  PROVE  SubSeq(Append(s, e), 1, a) = SubSeq(s, 1, a)
  OBVIOUS

LEMMA PrefixOfConcat ==
  ASSUME NEW S, NEW s \in Seq(S), NEW w \in Seq(S), NEW a \in Nat, a <= Len(s)
  PROVE  SubSeq(s \o w, 1, a) = SubSeq(s, 1, a)
  OBVIOUS

LEMMA PrefixAndRest ==
  ASSUME NEW S, NEW s \in Seq(S), NEW a \in Nat, NEW n \in Nat, a <= n, n <= Len(s)
  PROVE  SubSeq(s, 1, a) \o SubSeq(s, a + 1, n) = SubSeq(s, 1, n)
  OBVIOUS

LEMMA WholePrefix ==
  ASSUME NEW S, NEW s \in Seq(S)
  PROVE  SubSeq(s, 1, Len(s)) = s /\ SubSeq(s, 1, 0) = <<>> /\ s \o <<>> = s
  OBVIOUS

LEMMA MiddleType ==
  ASSUME NEW S, NEW s \in Seq(S), NEW a \in Nat, NEW n \in Nat, n <= Len(s) \/ n = a
  PROVE  SubSeq(s, a + 1, n) \in Seq(S)
<1>1. CASE n <= a
  <2>1. SubSeq(s, a + 1, n) = <<>>
    BY <1>1
  <2> QED
    BY <2>1
<1>2. CASE n > a
  <2>1. \A i \in a + 1 .. n : s[i] \in S
    BY <1>2
  <2> QED
    BY <1>2, <2>1
<1> QED
  BY <1>1, <1>2

LEMMA AppendLast ==
  ASSUME NEW S, NEW s \in Seq(S), NEW w \in Seq(S), NEW e \in S
  PROVE  s \o Append(w, e) = Append(s \o w, e)
  OBVIOUS

-----------------------------------------------------------------------------
LEMMA Appended ==
  ASSUME NEW v \in Seq(Event), NEW e \in Event
  PROVE  /\ Append(v, e) \in Seq(Event) /\ DOMAIN Append(v, e) = DOMAIN v \cup {Len(v) + 1}
         /\ Append(v, e)[Len(v) + 1] = e /\ \A i \in DOMAIN v : Append(v, e)[i] = v[i] /\ i # Len(v) + 1
         /\ Len(v) + 1 \notin DOMAIN v
  OBVIOUS

(* Fewer debts, the same matching. *)
LEMMA MatchedLess ==
  ASSUME NEW v, NEW D, NEW E, Matched(v, D), E \cap (Thread \X Flow) \subseteq D
  PROVE  Matched(v, E)
<1> SUFFICES ASSUME NEW f \in Flow PROVE \E m : Matches(v, f, m, E)
  BY Zenon DEF Matched
<1>1. PICK m : Matches(v, f, m, D)
  BY Zenon DEF Matched
<1>2. \A t \in Thread : <<t, f>> \in E => <<t, f>> \in D
  BY Zenon
<1>3. Matches(v, f, m, E)
  BY <1>1, <1>2, Zenon DEF Matches
<1> QED
  BY <1>3, Zenon

(* What one more event adds to the grants and returns of a flow. *)
LEMMA GrantsAfter ==
  ASSUME NEW v \in Seq(Event), NEW e \in Event, NEW f
  PROVE  /\ Grants(Append(v, e), f) =
              IF e.flow = f /\ e.op = "grant" THEN Grants(v, f) \cup {Len(v) + 1} ELSE Grants(v, f)
         /\ Returns(Append(v, e), f) =
              IF e.flow = f /\ e.op \in {"completion", "rollback"} THEN Returns(v, f) \cup {Len(v) + 1}
              ELSE Returns(v, f)
<1> DEFINE w == Append(v, e)
<1>1. /\ DOMAIN w = DOMAIN v \cup {Len(v) + 1}
      /\ w[Len(v) + 1] = e /\ \A i \in DOMAIN v : w[i] = v[i]
  BY Appended
<1> HIDE DEF w
<1>2. Grants(w, f) =
              IF e.flow = f /\ e.op = "grant" THEN Grants(v, f) \cup {Len(v) + 1} ELSE Grants(v, f)
  BY <1>1, Zenon DEF Grants
<1>3. Returns(w, f) =
              IF e.flow = f /\ e.op \in {"completion", "rollback"} THEN Returns(v, f) \cup {Len(v) + 1}
              ELSE Returns(v, f)
  BY <1>1, Zenon DEF Returns
<1> QED
  BY <1>2, <1>3, Zenon DEF w

(* One more event: a grant may owe, a return settles what its thread owed. *)
LEMMA MatchedAppend ==
  ASSUME NEW v \in Seq(Event), NEW e \in Event, NEW D, Matched(v, D)
  PROVE  /\ e.op \notin {"grant", "completion", "rollback"} => Matched(Append(v, e), D)
         /\ e.op = "grant" => Matched(Append(v, e), D \cup {<<e.thread, e.flow>>})
         /\ e.op \in {"completion", "rollback"} /\ <<e.thread, e.flow>> \in D =>
              Matched(Append(v, e), D \ {<<e.thread, e.flow>>})
<1> DEFINE w == Append(v, e)
           n == Len(v) + 1
<1>1. /\ DOMAIN w = DOMAIN v \cup {n} /\ n \notin DOMAIN v
      /\ w[n] = e /\ \A i \in DOMAIN v : w[i] = v[i]
  BY Appended
<1>2. ASSUME NEW f \in Flow
      PROVE  /\ Grants(w, f) = IF e.flow = f /\ e.op = "grant" THEN Grants(v, f) \cup {n} ELSE Grants(v, f)
             /\ Returns(w, f) = IF e.flow = f /\ e.op \in {"completion", "rollback"}
                                THEN Returns(v, f) \cup {n} ELSE Returns(v, f)
             /\ Grants(v, f) \subseteq DOMAIN v /\ Returns(v, f) \subseteq DOMAIN v
  <2>1. Grants(v, f) \subseteq DOMAIN v /\ Returns(v, f) \subseteq DOMAIN v
    BY Zenon DEF Grants, Returns
  <2> QED
    BY <2>1, GrantsAfter
<1>0. e.thread \in Thread /\ e.flow \in Flow
  BY DEF Event
<1> HIDE DEF w, n
<1>3. ASSUME NEW f \in Flow, NEW m, Matches(v, f, m, D), NEW E,
             ~ (e.flow = f /\ e.op \in {"grant", "completion", "rollback"}),
             \A t \in Thread : <<t, f>> \in E => <<t, f>> \in D
      PROVE  Matches(w, f, m, E)
  <2>1. Grants(w, f) = Grants(v, f) /\ Returns(w, f) = Returns(v, f)
    BY <1>2, <1>3, Zenon
  <2>2. \A i \in Returns(v, f) : w[i] = v[i] /\ w[m[i]] = v[m[i]]
    BY <1>1, <1>2, <1>3, Zenon DEF Matches
  <2>3. \A g \in Grants(v, f) : w[g] = v[g]
    BY <1>1, <1>2, Zenon
  <2>4. m \in [Returns(w, f) -> Grants(w, f)] /\ \A i, j \in Returns(w, f) : m[i] = m[j] => i = j
    BY <1>3, <2>1, Zenon DEF Matches
  <2>5. \A i \in Returns(w, f) : w[m[i]].thread = w[i].thread
    BY <1>3, <2>1, <2>2, Zenon DEF Matches
  <2>6. ASSUME NEW t \in Thread, <<t, f>> \in E
        PROVE  \E g \in Grants(w, f) : w[g].thread = t /\ \A i \in Returns(w, f) : m[i] # g
    <3>1. PICK g \in Grants(v, f) : v[g].thread = t /\ \A i \in Returns(v, f) : m[i] # g
      BY <1>3, <2>6, Zenon DEF Matches
    <3> QED
      BY <2>1, <2>3, <3>1, Zenon
  <2> QED
    BY <2>4, <2>5, <2>6, Zenon DEF Matches
<1>4. ASSUME e.op \notin {"grant", "completion", "rollback"} PROVE Matched(w, D)
  BY <1>3, <1>4, Zenon DEF Matched
<1>5. ASSUME e.op = "grant" PROVE Matched(w, D \cup {<<e.thread, e.flow>>})
  <2> DEFINE E == D \cup {<<e.thread, e.flow>>}
  <2> SUFFICES ASSUME NEW f \in Flow PROVE \E m : Matches(w, f, m, E)
    BY Zenon DEF Matched
  <2>1. PICK m : Matches(v, f, m, D)
    BY Zenon DEF Matched
  <2>2. CASE e.flow # f
    <3>1. \A t \in Thread : <<t, f>> \in E => <<t, f>> \in D
      BY <2>2
    <3> QED
      BY <1>3, <2>1, <2>2, <3>1, Zenon
  <2>3. CASE e.flow = f
    <3>1. Grants(w, f) = Grants(v, f) \cup {n} /\ Returns(w, f) = Returns(v, f)
      BY <1>2, <1>5, <2>3, Zenon
    <3>2. m \in [Returns(w, f) -> Grants(w, f)]
      BY <2>1, <3>1, Zenon DEF Matches
    <3>3. \A i \in Returns(v, f) : w[i] = v[i] /\ w[m[i]] = v[m[i]] /\ m[i] # n
      BY <1>1, <1>2, <2>1, Zenon DEF Matches
    <3>4. ASSUME NEW t \in Thread, <<t, f>> \in E
          PROVE  \E g \in Grants(w, f) : w[g].thread = t /\ \A i \in Returns(w, f) : m[i] # g
      <4>1. CASE <<t, f>> \in D
        <5>1. PICK g \in Grants(v, f) : v[g].thread = t /\ \A i \in Returns(v, f) : m[i] # g
          BY <2>1, <4>1, Zenon DEF Matches
        <5>2. w[g] = v[g]
          BY <1>1, <1>2, Zenon
        <5> QED
          BY <3>1, <5>1, <5>2, Zenon
      <4>2. CASE <<t, f>> \notin D
        <5>1. t = e.thread
          BY <3>4, <4>2
        <5> QED
          BY <1>1, <3>1, <3>3, <5>1, Zenon
      <4> QED
        BY <4>1, <4>2
    <3>5. Matches(w, f, m, E)
      BY <2>1, <3>1, <3>2, <3>3, <3>4, Zenon DEF Matches
    <3> QED
      BY <3>5, Zenon
  <2> QED
    BY <2>2, <2>3, Zenon
<1>6. ASSUME e.op \in {"completion", "rollback"}, <<e.thread, e.flow>> \in D
      PROVE  Matched(w, D \ {<<e.thread, e.flow>>})
  <2> DEFINE E == D \ {<<e.thread, e.flow>>}
  <2> SUFFICES ASSUME NEW f \in Flow PROVE \E m : Matches(w, f, m, E)
    BY Zenon DEF Matched
  <2>1. PICK m : Matches(v, f, m, D)
    BY Zenon DEF Matched
  <2>2. CASE e.flow # f
    BY <1>3, <2>1, <2>2, Zenon
  <2>3. CASE e.flow = f
    <3>1. Grants(w, f) = Grants(v, f) /\ Returns(w, f) = Returns(v, f) \cup {n} /\ n \notin Returns(v, f)
      BY <1>1, <1>2, <1>6, <2>3, Zenon
    <3>2. PICK g \in Grants(v, f) : v[g].thread = e.thread /\ \A i \in Returns(v, f) : m[i] # g
      BY <1>0, <1>6, <2>1, <2>3, Zenon DEF Matches
    <3> DEFINE k == [i \in Returns(v, f) \cup {n} |-> IF i = n THEN g ELSE m[i]]
    <3>3. k[n] = g /\ \A i \in Returns(v, f) : k[i] = m[i] /\ k[i] \in Grants(v, f) /\ k[i] # g
      BY <2>1, <3>1, <3>2, Zenon DEF Matches
    <3>4. k \in [Returns(w, f) -> Grants(w, f)]
      BY <3>1, <3>3, Zenon
    <3> HIDE DEF k
    <3>5. \A i, j \in Returns(w, f) : k[i] = k[j] => i = j
      BY <2>1, <3>1, <3>3, Zenon DEF Matches
    <3>6. \A i \in Returns(w, f) : w[k[i]].thread = w[i].thread
      <4>1. \A i \in Returns(v, f) : w[i] = v[i] /\ w[k[i]] = v[m[i]]
        BY <1>1, <1>2, <3>3, Zenon
      <4>2. w[g] = v[g]
        BY <1>1, <1>2, Zenon
      <4> QED
        BY <1>1, <2>1, <3>1, <3>2, <3>3, <4>1, <4>2, Zenon DEF Matches
    <3>7. ASSUME NEW t \in Thread, <<t, f>> \in E
          PROVE  \E h \in Grants(w, f) : w[h].thread = t /\ \A i \in Returns(w, f) : k[i] # h
      <4>1. t # e.thread /\ <<t, f>> \in D
        BY <2>3, <3>7, Zenon
      <4>2. PICK h \in Grants(v, f) : v[h].thread = t /\ \A i \in Returns(v, f) : m[i] # h
        BY <2>1, <4>1, Zenon DEF Matches
      <4>3. h # g /\ w[h] = v[h]
        BY <1>1, <1>2, <3>2, <4>1, <4>2, Zenon
      <4> QED
        BY <3>1, <3>3, <4>2, <4>3, Zenon
    <3>8. Matches(w, f, k, E)
      BY <3>4, <3>5, <3>6, <3>7, Zenon DEF Matches
    <3> QED
      BY <3>8, Zenon
  <2> QED
    BY <2>2, <2>3, Zenon
<1> QED
  BY <1>4, <1>5, <1>6, Zenon DEF w
-----------------------------------------------------------------------------
(* The type invariant by groups of variables. *)
DiskType ==
  /\ events \in Seq(Event) /\ written \in Seq(Event)
  /\ checkpoint \in [seq : Nat, view : Seq(Event)] /\ spoilt \in BOOLEAN

MemoryType ==
  /\ view \in [Process -> Seq(Event)] /\ applied \in [Process -> Nat]
  /\ cut \in [Process -> Nat] /\ readAt \in [Process -> Nat \cup {Unread}]

GroupType ==
  /\ queue \in [Process -> Seq(Thread)] /\ draining \in [Process -> BOOLEAN]
  /\ batch \in [Process -> Seq(Thread)] /\ done \in [Process -> Nat]
  /\ refused \in [Process -> SUBSET Thread]

ThreadType ==
  /\ pc \in [Thread -> {"idle", "waiting"} \cup Working] /\ leading \in [Thread -> BOOLEAN]
  /\ receipt \in [Thread -> Receipt]

CallType ==
  /\ call \in [Thread -> Event] /\ own \in [Thread -> SUBSET Flow]
  /\ calls \in 0..MaxCalls /\ answered \subseteq [event : Event, ok : BOOLEAN]

RestType == closed \in [Process -> BOOLEAN] /\ faults \in 0..MaxFaults

LEMMA TypeParts ==
  TypeOK <=> DiskType /\ MemoryType /\ GroupType /\ ThreadType /\ CallType /\ RestType
  BY Zenon DEF TypeOK, DiskType, MemoryType, GroupType, ThreadType, CallType, RestType

LEMMA TypePartsNext ==
  DiskType' /\ MemoryType' /\ GroupType' /\ ThreadType' /\ CallType' /\ RestType' => TypeOK'
  BY Zenon DEF TypeOK, DiskType, MemoryType, GroupType, ThreadType, CallType, RestType

(* A step that leaves the variables of a part alone keeps its type. *)
LEMMA TypesSame ==
  /\ DiskType /\ UNCHANGED disk => DiskType'
  /\ MemoryType /\ UNCHANGED memory => MemoryType'
  /\ GroupType /\ UNCHANGED group => GroupType'
  /\ ThreadType /\ UNCHANGED <<pc, leading, receipt>> => ThreadType'
  /\ CallType /\ UNCHANGED <<call, own, calls, answered>> => CallType'
  /\ RestType /\ UNCHANGED <<closed, faults>> => RestType'
  BY Zenon DEF DiskType, MemoryType, GroupType, ThreadType, CallType, RestType, disk, memory, group

LEMMA NoCallType == \A t \in Thread : NoCall(t) \in Event
  BY SchedulingAssumption DEF NoCall, Event, Op

(* _catch_up and _maybe_checkpoint keep their types. *)
LEMMA StartType == ASSUME TypeOK, NEW p \in Process PROVE StartOf(p) \in Nat /\ CaughtTo(p) \in Nat /\ CutAfterCatchUp(p) \in Nat
  BY DEF TypeOK, StartOf, CaughtTo, Ahead, CutAfterCatchUp

LEMMA CaughtType ==
  ASSUME TypeOK, NEW p \in Process, NEW n \in Nat, n <= Len(events) \/ n = StartOf(p)
  PROVE  CaughtUpTo(p, n) \in Seq(Event)
<1>1. SubSeq(events, StartOf(p) + 1, n) \in Seq(Event)
  BY StartType, MiddleType, TypeParts DEF DiskType
<1> QED
  BY <1>1, TypeParts DEF DiskType, MemoryType, CaughtUpTo

LEMMA CutAfterType == ASSUME TypeOK, NEW c \in Nat, NEW s \in Nat PROVE CutAfter(c, s) \in Nat
  BY DEF TypeOK, CutAfter

LEMMA ItemType ==
  ASSUME TypeOK, NEW t \in Thread, Validating(t)
  PROVE  Item(ProcOf[t]) \in Thread /\ call[Item(ProcOf[t])] \in Event
<1>1. ProcOf[t] \in Process
  BY SchedulingAssumption
<1>2. Item(ProcOf[t]) \in Thread
  BY <1>1, TypeParts DEF GroupType, Item, Validating
<1> QED
  BY <1>2, TypeParts DEF CallType

LEMMA CaughtWhole ==
  ASSUME TypeOK, NEW p \in Process
  PROVE  Caught(p) \in Seq(Event) /\ Len(events) \in Nat
<1>1. Len(events) \in Nat
  BY TypeParts DEF DiskType
<1>2. Len(events) <= Len(events)
  BY <1>1
<1> QED
  BY <1>1, <1>2, CaughtType, Zenon DEF Caught

(* Type correctness, action by action. *)
LEMMA InitType == Init => TypeOK
<1> SUFFICES ASSUME Init PROVE TypeOK
  OBVIOUS
<1>1. DiskType
  <2>1. events = <<>> /\ written = <<>> /\ checkpoint = [seq |-> 0, view |-> <<>>] /\ spoilt = FALSE
    BY Zenon DEF Init
  <2>2. <<>> \in Seq(Event) /\ 0 \in Nat
    OBVIOUS
  <2>3. [seq |-> 0, view |-> <<>>] \in [seq : Nat, view : Seq(Event)]
    BY <2>2, Zenon
  <2> QED
    BY <2>1, <2>2, <2>3, Zenon DEF DiskType
<1>2. MemoryType
  <2>1. /\ view = [p \in Process |-> <<>>] /\ applied = [p \in Process |-> 0]
        /\ cut = [p \in Process |-> 0] /\ readAt = [p \in Process |-> Unread]
    BY Zenon DEF Init
  <2>2. 0 \in Nat /\ <<>> \in Seq(Event)
    OBVIOUS
  <2> QED
    BY <2>1, <2>2, Zenon DEF MemoryType
<1>4. GroupType
  <2>1. /\ queue = [p \in Process |-> <<>>] /\ draining = [p \in Process |-> FALSE]
        /\ batch = [p \in Process |-> <<>>] /\ done = [p \in Process |-> 0]
        /\ refused = [p \in Process |-> {}]
    BY Zenon DEF Init
  <2>2. 0 \in Nat /\ <<>> \in Seq(Thread)
    OBVIOUS
  <2> QED
    BY <2>1, <2>2, Zenon DEF GroupType
<1>5. ThreadType
  BY Zenon DEF Init, ThreadType, Receipt
<1>3. CallType /\ RestType
  BY SchedulingAssumption, NoCallType DEF Init, CallType, RestType
<1> QED
  BY <1>1, <1>2, <1>3, <1>4, <1>5, TypeParts, Zenon

LEMMA TellType ==
  ASSUME CallType, NEW t \in Thread, NEW e \in Event, NEW ok \in BOOLEAN, Tell(t, e, ok)
  PROVE  (answered \subseteq [event : Event, ok : BOOLEAN])' /\ (own \in [Thread -> SUBSET Flow])'
<1>1. (answered \subseteq [event : Event, ok : BOOLEAN])'
  BY DEF CallType, Tell
<1>2. e.flow \in Flow
  BY DEF Event
<1>3. own[t] \cup {e.flow} \in SUBSET Flow /\ own[t] \ {e.flow} \in SUBSET Flow /\ own[t] \in SUBSET Flow
  BY <1>2 DEF CallType
<1>4. PICK w \in SUBSET Flow : own' = [own EXCEPT ![t] = w]
  <2>1. CASE ok /\ e.op = "grant"
    BY <1>3, <2>1, Zenon DEF Tell
  <2>2. CASE ok /\ e.op \in {"completion", "rollback"}
    BY <1>3, <2>2, Zenon DEF Tell
  <2>3. CASE ~ (ok /\ e.op = "grant") /\ ~ (ok /\ e.op \in {"completion", "rollback"})
    BY <1>3, <2>3, Zenon DEF Tell
  <2> QED
    BY <2>1, <2>2, <2>3, Zenon
<1> QED
  BY <1>1, <1>4, Zenon DEF CallType

LEMMA SubmitType == ASSUME TypeOK, NEW t \in Thread, NEW op \in Op, NEW f \in Flow, Submit(t, op, f) PROVE TypeOK'
<1>1. ProcOf[t] \in Process
  BY SchedulingAssumption, Zenon
<1>2. GroupType'
  BY <1>1, TypeParts DEF GroupType, Submit
<1>3. ThreadType'
  BY TypeParts, Zenon DEF ThreadType, GroupType, Submit
<1>4. CallType'
  BY TypeParts, SchedulingAssumption DEF CallType, Submit, Event
<1> QED
  BY <1>2, <1>3, <1>4, TypeParts, TypePartsNext, TypesSame, Zenon DEF Submit

LEMMA StepType ==
  ASSUME TypeOK, NEW t \in Thread,
         Lead(t) \/ BeginFails(t) \/ Refuse(t) \/ Reset(t) \/ Strand(t) \/ Publish(t)
  PROVE  TypeOK'
<1>0. ProcOf[t] \in Process
  BY SchedulingAssumption, Zenon
<1>1. CASE Lead(t)
  <2>1. ThreadType'
    BY <1>1, TypeParts, Zenon DEF ThreadType, Lead, Working
  <2> QED
    BY <1>1, <2>1, TypeParts, TypePartsNext, TypesSame, Zenon DEF Lead
<1>2. CASE BeginFails(t)
  <2>1. ThreadType'
    BY <1>2, TypeParts, Zenon DEF ThreadType, BeginFails, Working
  <2>2. RestType'
    BY <1>2, TypeParts, SchedulingAssumption DEF RestType, BeginFails, Fault
  <2> QED
    BY <1>2, <2>1, <2>2, TypeParts, TypePartsNext, TypesSame, Zenon DEF BeginFails
<1>3. CASE Refuse(t)
  <2>1. Item(ProcOf[t]) \in Thread
    BY <1>3, ItemType, Zenon DEF Refuse
  <2>2. GroupType'
    BY <1>0, <1>3, <2>1, TypeParts DEF GroupType, Refuse
  <2> QED
    BY <1>3, <2>2, TypeParts, TypePartsNext, TypesSame, Zenon DEF Refuse, threads
<1>4. CASE Reset(t)
  <2>1. MemoryType'
    BY <1>0, <1>4, TypeParts DEF MemoryType, Reset, ResetView
  <2>2. ThreadType'
    BY <1>4, TypeParts, Zenon DEF ThreadType, Reset, Working
  <2> QED
    BY <1>4, <2>1, <2>2, TypeParts, TypePartsNext, TypesSame, Zenon DEF Reset
<1>5. CASE Strand(t)
  <2>1. GroupType'
    BY <1>0, <1>5, TypeParts DEF GroupType, Strand
  <2>2. ThreadType'
    BY <1>5, TypeParts, Zenon DEF ThreadType, Strand, Receipt
  <2> QED
    BY <1>5, <2>1, <2>2, TypeParts, TypePartsNext, TypesSame, Zenon DEF Strand
<1>6. CASE Publish(t)
  <2>1. GroupType'
    BY <1>0, <1>6, TypeParts DEF GroupType, Publish
  <2>2. ThreadType'
    BY <1>6, TypeParts, Zenon DEF ThreadType, Publish, Receipt, ReceiptOf
  <2> QED
    BY <1>6, <2>1, <2>2, TypeParts, TypePartsNext, TypesSame, Zenon DEF Publish
<1> QED
  BY <1>1, <1>2, <1>3, <1>4, <1>5, <1>6, Zenon

LEMMA WriterType ==
  ASSUME TypeOK, NEW t \in Thread,
         Begin(t) \/ Insert(t) \/ InsertFails(t) \/ Commit(t) \/ CommitFails(t)
  PROVE  TypeOK'
<1>0. ProcOf[t] \in Process
  BY SchedulingAssumption, Zenon
<1>1. CASE Begin(t)
  <2>1. GroupType'
    BY <1>0, <1>1, TypeParts DEF GroupType, Begin
  <2>2. ThreadType'
    BY <1>1, TypeParts, Zenon DEF ThreadType, Begin, Working
  <2>3. MemoryType'
    <3>1. Caught(ProcOf[t]) \in Seq(Event) /\ Len(events) \in Nat
      BY <1>0, CaughtWhole, Zenon
    <3>2. CaughtTo(ProcOf[t]) \in Nat /\ CutAfterCatchUp(ProcOf[t]) \in Nat
      BY <1>0, StartType, Zenon
    <3> QED
      BY <1>0, <1>1, <3>1, <3>2, TypeParts, Zenon DEF MemoryType, Begin
  <2> QED
    BY <1>1, <2>1, <2>2, <2>3, TypeParts, TypePartsNext, TypesSame, Zenon DEF Begin
<1>2. CASE Insert(t)
  <2>1. call[Item(ProcOf[t])] \in Event
    BY <1>2, ItemType, Zenon DEF Insert
  <2>2. GroupType'
    BY <1>0, <1>2, TypeParts DEF GroupType, Insert
  <2>3. DiskType' /\ MemoryType'
    <3>1. events \in Seq(Event) /\ written \in Seq(Event) /\ view[ProcOf[t]] \in Seq(Event)
      BY <1>0, TypeParts, Zenon DEF DiskType, MemoryType
    <3>2. /\ Append(written, call[Item(ProcOf[t])]) \in Seq(Event)
          /\ Append(view[ProcOf[t]], call[Item(ProcOf[t])]) \in Seq(Event)
          /\ Len(events) + Len(written) + 1 \in Nat
      BY <2>1, <3>1
    <3>3. /\ view' = [view EXCEPT ![ProcOf[t]] = Append(view[ProcOf[t]], call[Item(ProcOf[t])])]
          /\ written' = Append(written, call[Item(ProcOf[t])])
          /\ applied' = [applied EXCEPT ![ProcOf[t]] = Len(events) + Len(written) + 1]
          /\ UNCHANGED <<events, checkpoint, spoilt, cut, readAt>>
      BY <1>2, Zenon DEF Insert
    <3> QED
      BY <1>0, <3>2, <3>3, TypeParts, Zenon DEF MemoryType, DiskType
  <2> QED
    BY <1>2, <2>2, <2>3, TypeParts, TypePartsNext, TypesSame, Zenon DEF Insert, threads
<1>3. CASE InsertFails(t)
  <2>1. call[Item(ProcOf[t])] \in Event
    BY <1>3, ItemType, Zenon DEF InsertFails
  <2>2. ThreadType'
    BY <1>3, TypeParts, Zenon DEF ThreadType, InsertFails, Working
  <2>3. DiskType' /\ MemoryType'
    <3>1. view[ProcOf[t]] \in Seq(Event)
      BY <1>0, TypeParts, Zenon DEF MemoryType
    <3>2. Append(view[ProcOf[t]], call[Item(ProcOf[t])]) \in Seq(Event) /\ <<>> \in Seq(Event)
      BY <2>1, <3>1
    <3>3. /\ view' = [view EXCEPT ![ProcOf[t]] = Append(view[ProcOf[t]], call[Item(ProcOf[t])])]
          /\ written' = <<>> /\ UNCHANGED <<events, checkpoint, spoilt, applied, cut, readAt>>
      BY <1>3, Zenon DEF InsertFails
    <3> QED
      BY <1>0, <3>2, <3>3, TypeParts, Zenon DEF MemoryType, DiskType
  <2>4. RestType'
    BY <1>3, TypeParts, SchedulingAssumption DEF RestType, InsertFails, Fault
  <2> QED
    BY <1>3, <2>2, <2>3, <2>4, TypeParts, TypePartsNext, TypesSame, Zenon DEF InsertFails
<1>4. CASE Commit(t)
  <2>1. cut[ProcOf[t]] \in Nat /\ applied[ProcOf[t]] \in Nat /\ view[ProcOf[t]] \in Seq(Event)
    BY <1>0, TypeParts, Zenon DEF MemoryType
  <2>2. CutAfter(cut[ProcOf[t]], applied[ProcOf[t]]) \in Nat
    BY <2>1, CutAfterType, Zenon
  <2>3. MemoryType'
    BY <1>0, <1>4, <2>2, TypeParts, Zenon DEF MemoryType, Commit
  <2>4. DiskType'
    <3>1. /\ events' = events \o written /\ written' = <<>> /\ UNCHANGED spoilt
          /\ StoreCheckpoint(cut[ProcOf[t]], applied[ProcOf[t]], view[ProcOf[t]])
      BY <1>4, Zenon DEF Commit
    <3>2. events \o written \in Seq(Event) /\ <<>> \in Seq(Event)
      BY TypeParts DEF DiskType
    <3>3. checkpoint' \in [seq : Nat, view : Seq(Event)]
      <4>1. [seq |-> applied[ProcOf[t]], view |-> view[ProcOf[t]]] \in [seq : Nat, view : Seq(Event)]
        BY <2>1, Zenon
      <4> QED
        BY <3>1, <4>1, TypeParts, Zenon DEF DiskType, StoreCheckpoint
    <3> QED
      BY <3>1, <3>2, <3>3, TypeParts, Zenon DEF DiskType
  <2>5. ThreadType'
    BY <1>4, TypeParts, Zenon DEF ThreadType, Commit, Working
  <2> QED
    BY <1>4, <2>3, <2>4, <2>5, TypeParts, TypePartsNext, TypesSame, Zenon DEF Commit
<1>5. CASE CommitFails(t)
  <2>1. cut[ProcOf[t]] \in Nat /\ applied[ProcOf[t]] \in Nat
    BY <1>0, TypeParts, Zenon DEF MemoryType
  <2>2. CutAfter(cut[ProcOf[t]], applied[ProcOf[t]]) \in Nat
    BY <2>1, CutAfterType, Zenon
  <2>3. MemoryType' /\ DiskType'
    BY <1>0, <1>5, <2>2, TypeParts DEF MemoryType, DiskType, CommitFails
  <2>4. ThreadType'
    BY <1>5, TypeParts, Zenon DEF ThreadType, CommitFails, Working
  <2>5. RestType'
    BY <1>5, TypeParts, SchedulingAssumption DEF RestType, CommitFails, Fault
  <2> QED
    BY <1>5, <2>3, <2>4, <2>5, TypeParts, TypePartsNext, TypesSame, Zenon DEF CommitFails
<1> QED
  BY <1>1, <1>2, <1>3, <1>4, <1>5, Zenon

LEMMA ReturnType == ASSUME TypeOK, NEW t \in Thread, Return(t) PROVE TypeOK'
<1>1. call[t] \in Event /\ (receipt[t] = "ok") \in BOOLEAN
  BY TypeParts, Zenon DEF CallType
<1>2. (answered \subseteq [event : Event, ok : BOOLEAN])' /\ (own \in [Thread -> SUBSET Flow])'
  BY <1>1, TellType, TypeParts, Zenon DEF Return
<1>3. CallType'
  BY <1>2, NoCallType, TypeParts, Zenon DEF CallType, Return
<1>4. ThreadType'
  BY TypeParts, Zenon DEF ThreadType, Return, Receipt
<1> QED
  BY <1>3, <1>4, TypeParts, TypePartsNext, TypesSame, Zenon DEF Return

LEMMA MutationType ==
  ASSUME TypeOK, NEW t \in Thread, NEW op \in Op, NEW f \in Flow, Mutation(t, op, f)
  PROVE  MutationOf(t, op, f) \in Event /\ (calls \in 0..MaxCalls)'
  BY SchedulingAssumption, TypeParts DEF CallType, Mutation, MutationOf, Event

LEMMA MutateType ==
  ASSUME TypeOK, NEW t \in Thread, NEW op \in Op, NEW f \in Flow, Mutate(t, op, f)
  PROVE  TypeOK'
<1> DEFINE e == MutationOf(t, op, f)
           p == ProcOf[t]
<1>1. e \in Event /\ (calls \in 0..MaxCalls)'
  BY MutationType, Zenon DEF Mutate
<1>2. (answered \subseteq [event : Event, ok : BOOLEAN])' /\ (own \in [Thread -> SUBSET Flow])'
  BY <1>1, TellType, TypeParts, Zenon DEF Mutate
<1>3. p \in Process
  BY SchedulingAssumption, Zenon
<1>4. Caught(p) \in Seq(Event) /\ CutAfterCatchUp(p) \in Nat
  BY <1>3, StartType, CaughtWhole, Zenon
<1>10. Len(events) \in Nat
  BY <1>3, CaughtWhole, Zenon
<1>5. /\ Append(Caught(p), e) \in Seq(Event) /\ Len(events) + 1 \in Nat
      /\ CutAfter(CutAfterCatchUp(p), Len(events) + 1) \in Nat
  <2>1. Append(Caught(p), e) \in Seq(Event)
    BY <1>1, <1>4
  <2>2. Len(events) + 1 \in Nat
    BY <1>10
  <2> QED
    BY <1>4, <2>1, <2>2, CutAfterType, Zenon
<1>6. /\ events' = Append(events, e) /\ view' = [view EXCEPT ![p] = Append(Caught(p), e)]
      /\ applied' = [applied EXCEPT ![p] = Len(events) + 1]
      /\ cut' = [cut EXCEPT ![p] = CutAfter(CutAfterCatchUp(p), Len(events) + 1)]
      /\ readAt' = [readAt EXCEPT ![p] = Len(events)]
      /\ \/ checkpoint' = checkpoint
         \/ checkpoint' = [seq |-> Len(events) + 1, view |-> Append(Caught(p), e)]
      /\ (spoilt \in BOOLEAN)' /\ UNCHANGED written
  <2>1. /\ events' = Append(events, e) /\ view' = [view EXCEPT ![p] = Append(Caught(p), e)]
        /\ applied' = [applied EXCEPT ![p] = Len(events) + 1]
        /\ cut' = [cut EXCEPT ![p] = CutAfter(CutAfterCatchUp(p), Len(events) + 1)]
        /\ readAt' = [readAt EXCEPT ![p] = Len(events)] /\ UNCHANGED written
    BY Zenon DEF Mutate
  <2>2. spoilt' = (spoilt \/ (Due(CutAfterCatchUp(p), Len(events) + 1) /\ Poisoned(p)))
    BY Zenon DEF Mutate
  <2>3. StoreCheckpoint(CutAfterCatchUp(p), Len(events) + 1, Append(Caught(p), e))
    BY Zenon DEF Mutate
  <2>4. \/ checkpoint' = checkpoint
        \/ checkpoint' = [seq |-> Len(events) + 1, view |-> Append(Caught(p), e)]
    BY <2>3, Zenon DEF StoreCheckpoint
  <2>5. (spoilt \in BOOLEAN)'
    BY <2>2, Zenon
  <2> QED
    BY <2>1, <2>4, <2>5, Zenon
<1> HIDE DEF e, p
<1>7. DiskType'
  <2>1. Append(events, e) \in Seq(Event)
    BY <1>1, TypeParts DEF DiskType
  <2>2. [seq |-> Len(events) + 1, view |-> Append(Caught(p), e)] \in [seq : Nat, view : Seq(Event)]
    BY <1>5, Zenon
  <2> QED
    BY <1>6, <2>1, <2>2, TypeParts, Zenon DEF DiskType
<1>8. MemoryType'
  BY <1>3, <1>5, <1>6, <1>10, TypeParts, Zenon DEF MemoryType
<1>9. CallType'
  BY <1>1, <1>2, TypeParts, Zenon DEF CallType, Mutate
<1> QED
  BY <1>7, <1>8, <1>9, TypeParts, TypePartsNext, TypesSame, Zenon DEF Mutate

LEMMA MutateFailsType ==
  ASSUME TypeOK, NEW t \in Thread, NEW op \in Op, NEW f \in Flow, MutateFails(t, op, f)
  PROVE  TypeOK'
<1>1. MutationOf(t, op, f) \in Event /\ (calls \in 0..MaxCalls)'
  BY MutationType, Zenon DEF MutateFails
<1>2. (answered \subseteq [event : Event, ok : BOOLEAN])' /\ (own \in [Thread -> SUBSET Flow])'
  BY <1>1, TellType, TypeParts, Zenon DEF MutateFails
<1>3. CallType'
  BY <1>1, <1>2, TypeParts, Zenon DEF CallType, MutateFails
<1>4. MemoryType'
  BY SchedulingAssumption, TypeParts DEF MemoryType, MutateFails, ResetView
<1>5. RestType'
  BY TypeParts, SchedulingAssumption DEF RestType, MutateFails, Fault
<1> QED
  BY <1>3, <1>4, <1>5, TypeParts, TypePartsNext, TypesSame, Zenon DEF MutateFails

LEMMA ReadType == ASSUME TypeOK, NEW p \in Process, Read(p) PROVE TypeOK'
<1>1. PICK n \in StartOf(p) .. CaughtTo(p) :
        /\ view' = [view EXCEPT ![p] = CaughtUpTo(p, n)]
        /\ applied' = [applied EXCEPT ![p] = n]
        /\ readAt' = [readAt EXCEPT ![p] = IF n < Len(events) THEN @ ELSE Len(events)]
  BY Zenon DEF Read
<1>2. StartOf(p) \in Nat /\ CaughtTo(p) \in Nat /\ CutAfterCatchUp(p) \in Nat
  BY StartType, Zenon
<1>3. n \in Nat /\ (n <= Len(events) \/ n = StartOf(p))
  BY <1>2, TypeParts DEF CaughtTo, DiskType
<1>4. CaughtUpTo(p, n) \in Seq(Event)
  BY <1>3, CaughtType, Zenon
<1>5. MemoryType'
  <2>1. PICK k \in Nat \cup {Unread} : readAt' = [readAt EXCEPT ![p] = k]
    <3>1. readAt[p] \in Nat \cup {Unread} /\ Len(events) \in Nat
      BY TypeParts, CaughtWhole, Zenon DEF MemoryType
    <3> QED
      BY <1>1, <3>1, Zenon
  <2>2. cut' = [cut EXCEPT ![p] = CutAfterCatchUp(p)]
    BY Zenon DEF Read
  <2> QED
    BY <1>1, <1>2, <1>3, <1>4, <2>1, <2>2, TypeParts, Zenon DEF MemoryType
<1> QED
  BY <1>5, TypeParts, TypePartsNext, TypesSame, Zenon DEF Read, threads

LEMMA CrashType == ASSUME TypeOK, NEW p \in Process, Crash(p) \/ Close(p) PROVE TypeOK'
<1>1. CASE Crash(p)
  <2>0. 0 \in Nat /\ <<>> \in Seq(Event) /\ <<>> \in Seq(Thread)
    OBVIOUS
  <2>1. MemoryType'
    <3>1. /\ view' = [view EXCEPT ![p] = <<>>] /\ applied' = [applied EXCEPT ![p] = 0]
          /\ cut' = [cut EXCEPT ![p] = 0] /\ readAt' = [readAt EXCEPT ![p] = Unread]
      BY <1>1, Zenon DEF Crash, ResetView
    <3> QED
      BY <2>0, <3>1, TypeParts, Zenon DEF MemoryType
  <2>2. DiskType'
    <3>1. UNCHANGED <<events, checkpoint, spoilt>> /\ (written' = written \/ written' = <<>>)
      BY <1>1, Zenon DEF Crash
    <3> QED
      BY <2>0, <3>1, TypeParts, Zenon DEF DiskType
  <2>3. GroupType'
    <3>1. /\ queue' = [queue EXCEPT ![p] = <<>>] /\ batch' = [batch EXCEPT ![p] = <<>>]
          /\ done' = [done EXCEPT ![p] = 0] /\ refused' = [refused EXCEPT ![p] = {}]
          /\ draining' = [draining EXCEPT ![p] = FALSE]
      BY <1>1, Zenon DEF Crash
    <3> QED
      BY <2>0, <3>1, TypeParts, Zenon DEF GroupType
  <2>4. ThreadType'
    BY <1>1, TypeParts, Zenon DEF ThreadType, Crash, Receipt
  <2>5. CallType'
    <3>1. /\ call' = [t \in Thread |-> IF ProcOf[t] = p THEN NoCall(t) ELSE call[t]]
          /\ own' = [t \in Thread |-> IF ProcOf[t] = p THEN {} ELSE own[t]]
          /\ UNCHANGED <<calls, answered>>
      BY <1>1, Zenon DEF Crash
    <3> QED
      BY <3>1, TypeParts, NoCallType, Zenon DEF CallType
  <2>6. RestType'
    BY <1>1, TypeParts, SchedulingAssumption DEF RestType, Crash, Fault
  <2> QED
    BY <2>1, <2>2, <2>3, <2>4, <2>5, <2>6, TypePartsNext, Zenon
<1>2. CASE Close(p)
  <2>1. RestType'
    BY <1>2, TypeParts, SchedulingAssumption DEF RestType, Close, Fault
  <2> QED
    BY <1>2, <2>1, TypeParts, TypePartsNext, TypesSame, Zenon DEF Close, threads
<1> QED
  BY <1>1, <1>2, Zenon

(* Every step keeps every attribute and table in its type. *)
LEMMA TypeStep == ASSUME TypeOK, [Next]_vars PROVE TypeOK'
<1>1. UNCHANGED vars => TypeOK'
  BY TypeParts, TypePartsNext, TypesSame, Zenon DEF vars, threads
<1>2. ASSUME NEW t \in Thread, Drain(t) PROVE TypeOK'
  BY <1>2, StepType, WriterType, ReturnType, Zenon DEF Drain
<1> QED
  BY <1>1, <1>2, SubmitType, MutateType, MutateFailsType, ReadType, CrashType, Zenon DEF Next
-----------------------------------------------------------------------------
(* The group: its baton and its queue. *)
LEMMA Updated ==
  ASSUME NEW S, NEW T, NEW f \in [S -> T], NEW a \in S, NEW b
  PROVE  \A x \in S : [f EXCEPT ![a] = b][x] = IF x = a THEN b ELSE f[x]
  BY Zenon

LEMMA InSeqType == ASSUME NEW S, NEW s \in Seq(S) PROVE InSeq(s) \subseteq S
  BY DEF InSeq

LEMMA InSeqEmpty == InSeq(<<>>) = {} /\ Distinct(<<>>) /\ \A n : FirstOf(<<>>, n) = {}
  BY DEF InSeq, Distinct, FirstOf

LEMMA InSeqAppend ==
  ASSUME NEW S, NEW s \in Seq(S), NEW t \in S
  PROVE  /\ InSeq(Append(s, t)) = InSeq(s) \cup {t} /\ Append(s, t) # <<>>
         /\ Distinct(s) /\ t \notin InSeq(s) => Distinct(Append(s, t))
<1>1. /\ DOMAIN s = 1..Len(s) /\ Len(s) \in Nat /\ DOMAIN Append(s, t) = 1..(Len(s) + 1)
      /\ Append(s, t)[Len(s) + 1] = t
      /\ \A i \in 1..Len(s) : Append(s, t)[i] = s[i]
  OBVIOUS
<1>2. DOMAIN Append(s, t) = DOMAIN s \cup {Len(s) + 1} /\ Len(s) + 1 \notin DOMAIN s
  BY <1>1
<1>3. InSeq(Append(s, t)) = InSeq(s) \cup {t}
  <2>1. \A i \in DOMAIN s : Append(s, t)[i] = s[i]
    BY <1>1, Zenon
  <2>2. \A x \in InSeq(Append(s, t)) : x \in InSeq(s) \cup {t}
    BY <1>1, <1>2, <2>1, Zenon DEF InSeq
  <2>3. \A x \in InSeq(s) \cup {t} : x \in InSeq(Append(s, t))
    BY <1>1, <1>2, <2>1, Zenon DEF InSeq
  <2> QED
    BY <2>2, <2>3, Zenon
<1>4. Append(s, t) # <<>>
  BY <1>1
<1>5. Distinct(s) /\ t \notin InSeq(s) => Distinct(Append(s, t))
  BY <1>1, <1>2, Zenon DEF InSeq, Distinct
<1> QED
  BY <1>3, <1>4, <1>5, Zenon

LEMMA HeadInSeq == ASSUME NEW S, NEW s \in Seq(S), s # <<>> PROVE Head(s) \in InSeq(s)
  BY DEF InSeq

LEMMA NextOf ==
  ASSUME NEW S, NEW s \in Seq(S), NEW n \in Nat, n < Len(s)
  PROVE  /\ s[n + 1] \in InSeq(s) /\ s # <<>> /\ FirstOf(s, n + 1) = FirstOf(s, n) \cup {s[n + 1]}
         /\ Distinct(s) => s[n + 1] \notin FirstOf(s, n)
  BY DEF InSeq, Distinct, FirstOf

LEMMA AllOf ==
  ASSUME NEW S, NEW s \in Seq(S), NEW n \in Nat
  PROVE  FirstOf(s, n) \subseteq InSeq(s) /\ (n >= Len(s) => FirstOf(s, n) = InSeq(s)) /\ FirstOf(s, 0) = {}
  BY DEF InSeq, FirstOf

LEMMA SchedulingFacts ==
  /\ \A t \in Thread : ProcOf[t] \in Process
  /\ Late \subseteq Working /\ "idle" \notin Working /\ "waiting" \notin Working /\ "draining" \in Working
  /\ "draining" \notin Late /\ "waiting" \notin Late /\ "idle" \notin Late
  BY SchedulingAssumption, Zenon DEF Late, Working

LEMMA BatonSame == ASSUME BatonInv, UNCHANGED <<leading, pc, draining, queue, receipt>> PROVE BatonInv'
  BY Zenon DEF BatonInv, Holder

LEMMA QueueSame ==
  ASSUME QueueInv, UNCHANGED <<queue, batch, done, refused, pc, receipt>>
  PROVE  QueueInv'
  BY Zenon DEF QueueInv, Active

(* The same threads have the baton. *)
LEMMA BatonKept ==
  ASSUME BatonInv, UNCHANGED draining, \A x \in Thread : Holder(x)' <=> Holder(x),
         \A q \in Process : ~ draining[q] => queue'[q] = <<>>,
         \A x \in Thread : leading'[x] => pc'[x] = "waiting" /\ receipt'[x] = "none",
         \A x \in Thread : receipt'[x] # "none" => pc'[x] = "waiting"
  PROVE  BatonInv'
<1>1. \A x \in Thread : Holder(x)' => draining'[ProcOf[x]]
  BY Zenon DEF BatonInv
<1>2. \A x, u \in Thread : Holder(x)' /\ Holder(u)' /\ ProcOf[x] = ProcOf[u] => x = u
  BY Zenon DEF BatonInv
<1>3. \A q \in Process : draining'[q] => \E u \in Thread : ProcOf[u] = q /\ Holder(u)'
  BY Zenon DEF BatonInv
<1> QED
  BY <1>1, <1>2, <1>3, Zenon DEF BatonInv

(* Who leads or was told is waiting. *)
LEMMA Waiters ==
  ASSUME BatonInv, NEW x \in Thread
  PROVE  /\ leading[x] => pc[x] = "waiting" /\ receipt[x] = "none"
         /\ receipt[x] # "none" => pc[x] = "waiting"
  BY Zenon DEF BatonInv

(* QueueInv, for one process. *)
LEMMA QueueOf ==
  ASSUME TypeOK, QueueInv, NEW p \in Process
  PROVE  /\ InSeq(queue[p]) \subseteq Thread /\ InSeq(batch[p]) \subseteq Thread
         /\ \A x \in InSeq(queue[p]) : ProcOf[x] = p /\ Active(x) /\ receipt[x] = "none" /\ x \notin InSeq(batch[p])
         /\ \A x \in InSeq(batch[p]) : ProcOf[x] = p /\ Active(x) /\ receipt[x] = "none"
         /\ Distinct(queue[p]) /\ Distinct(batch[p])
<1>1. InSeq(queue[p]) \subseteq Thread /\ InSeq(batch[p]) \subseteq Thread
  BY InSeqType, TypeParts, Zenon DEF GroupType
<1>2. \A x \in InSeq(queue[p]) \cup InSeq(batch[p]) : ProcOf[x] = p /\ Active(x) /\ receipt[x] = "none"
  BY Zenon DEF QueueInv
<1>3. Distinct(queue[p]) /\ Distinct(batch[p]) /\ \A x \in InSeq(queue[p]) : x \notin InSeq(batch[p])
  BY Zenon DEF QueueInv
<1> QED
  BY <1>1, <1>2, <1>3, Zenon

(* The writer goes on. *)
LEMMA MoveKeeps ==
  ASSUME TypeOK, BatonInv, QueueInv, NEW t \in Thread, NEW w \in Late, pc[t] \in Working,
         pc' = [pc EXCEPT ![t] = w], UNCHANGED <<group, leading, receipt>>
  PROVE  BatonInv' /\ QueueInv'
<1>1. \A x \in Thread : pc'[x] = IF x = t THEN w ELSE pc[x]
  BY Updated, TypeParts, Zenon DEF ThreadType
<1>2. UNCHANGED <<queue, draining, batch, done, refused>>
  BY Zenon DEF group
<1>3. \A x \in Thread : (Holder(x)' <=> Holder(x)) /\ (Active(x)' <=> Active(x))
  BY <1>1, SchedulingFacts, Zenon DEF Holder, Active
<1>4. pc[t] # "waiting" /\ w # "waiting" /\ pc[t] # "idle" /\ w # "idle" /\ w \in Late
  BY SchedulingFacts, Zenon
<1>5. BatonInv'
  <2>1. \A x \in Thread : /\ leading'[x] => pc'[x] = "waiting" /\ receipt'[x] = "none"
                          /\ receipt'[x] # "none" => pc'[x] = "waiting"
    BY <1>1, <1>4, Waiters, Zenon
  <2>2. \A q \in Process : ~ draining[q] => queue'[q] = <<>>
    BY <1>2, Zenon DEF BatonInv
  <2> QED
    BY <1>2, <1>3, <2>1, <2>2, BatonKept, Zenon
<1>6. QueueInv'
  <2> SUFFICES ASSUME NEW p \in Process
               PROVE  /\ \A x \in InSeq(queue[p]) \cup InSeq(batch[p]) : ProcOf[x] = p /\ Active(x)' /\ receipt[x] = "none"
                      /\ (\A u \in Thread : ProcOf[u] = p => pc'[u] \notin Late) => batch[p] = <<>>
    BY <1>2, Zenon DEF QueueInv
  <2>1. InSeq(queue[p]) \cup InSeq(batch[p]) \subseteq Thread
    BY InSeqType, TypeParts, Zenon DEF GroupType
  <2>2. \A x \in InSeq(queue[p]) \cup InSeq(batch[p]) : ProcOf[x] = p /\ Active(x) /\ receipt[x] = "none"
    BY Zenon DEF QueueInv
  <2>3. (\A u \in Thread : ProcOf[u] = p => pc'[u] \notin Late) => (\A u \in Thread : ProcOf[u] = p => pc[u] \notin Late)
    BY <1>1, <1>4, Zenon
  <2> QED
    BY <1>3, <2>1, <2>2, <2>3, Zenon DEF QueueInv
<1> QED
  BY <1>5, <1>6, Zenon

(* _group_transition queues; whoever finds nobody draining leads. *)
LEMMA SubmitGroup ==
  ASSUME TypeOK, BatonInv, QueueInv, NEW t \in Thread, NEW op \in Op, NEW f \in Flow, Submit(t, op, f)
  PROVE  BatonInv' /\ QueueInv'
<1> DEFINE p == ProcOf[t]
<1>0. p \in Process
  BY SchedulingFacts, Zenon
<1>1. /\ pc[t] = "idle" /\ \A x \in Thread : pc'[x] = IF x = t THEN "waiting" ELSE pc[x]
      /\ \A x \in Thread : leading'[x] = IF x = t THEN ~ draining[p] ELSE leading[x]
  BY Updated, TypeParts, Zenon DEF ThreadType, Submit
<1>2. /\ \A q \in Process : draining'[q] = IF q = p THEN TRUE ELSE draining[q]
      /\ \A q \in Process : queue'[q] = IF q = p THEN Append(queue[p], t) ELSE queue[q]
      /\ UNCHANGED <<batch, done, refused, receipt>>
  BY <1>0, Updated, TypeParts, Zenon DEF GroupType, Submit
<1>3. ~ Holder(t) /\ receipt[t] = "none"
  BY <1>1, SchedulingFacts, TypeParts, Zenon DEF Holder, BatonInv
<1>4. \A x \in Thread : (Holder(x)' <=> IF x = t THEN ~ draining[p] ELSE Holder(x)) /\ (Active(x) => Active(x)') /\ Active(t)'
  BY <1>1, SchedulingFacts, Zenon DEF Holder, Active
<1>5. BatonInv'
  <2>1. \A x \in Thread : Holder(x)' => draining'[ProcOf[x]]
    BY <1>2, <1>4, SchedulingFacts, Zenon DEF BatonInv
  <2>2. ASSUME NEW x \in Thread, NEW u \in Thread, Holder(x)', Holder(u)', ProcOf[x] = ProcOf[u] PROVE x = u
    <3>1. CASE x # t /\ u # t
      BY <1>4, <2>2, <3>1, Zenon DEF BatonInv
    <3>2. CASE x = t
      <4>1. ~ draining[ProcOf[u]]
        BY <1>4, <2>2, <3>2, Zenon
      <4> QED
        BY <1>4, <2>2, <3>2, <4>1, Zenon DEF BatonInv
    <3>3. CASE u = t
      <4>1. ~ draining[ProcOf[x]]
        BY <1>4, <2>2, <3>3, Zenon
      <4> QED
        BY <1>4, <2>2, <3>3, <4>1, Zenon DEF BatonInv
    <3> QED
      BY <3>1, <3>2, <3>3, Zenon
  <2>3. \A q \in Process : draining'[q] => \E u \in Thread : ProcOf[u] = q /\ Holder(u)'
    <3> SUFFICES ASSUME NEW q \in Process, draining'[q] PROVE \E u \in Thread : ProcOf[u] = q /\ Holder(u)'
      BY Zenon
    <3>1. CASE draining[q]
      <4>1. PICK u \in Thread : ProcOf[u] = q /\ Holder(u)
        BY <3>1, Zenon DEF BatonInv
      <4> QED
        BY <1>3, <1>4, <4>1, Zenon
    <3>2. CASE ~ draining[q]
      BY <1>2, <1>4, <3>2, Zenon
    <3> QED
      BY <3>1, <3>2, Zenon
  <2>4. \A q \in Process : ~ draining'[q] => queue'[q] = <<>>
    BY <1>2, Zenon DEF BatonInv
  <2>5. \A x \in Thread : /\ leading'[x] => pc'[x] = "waiting" /\ receipt'[x] = "none"
                          /\ receipt'[x] # "none" => pc'[x] = "waiting"
    BY <1>1, <1>2, <1>3, Zenon DEF BatonInv
  <2> QED
    BY <2>1, <2>2, <2>3, <2>4, <2>5, Zenon DEF BatonInv
<1>6. QueueInv'
  <2> SUFFICES ASSUME NEW q \in Process
               PROVE  /\ \A x \in InSeq(queue'[q]) \cup InSeq(batch[q]) : ProcOf[x] = q /\ Active(x)' /\ receipt[x] = "none"
                      /\ \A x \in InSeq(queue'[q]) : x \notin InSeq(batch[q])
                      /\ Distinct(queue'[q])
                      /\ (\A u \in Thread : ProcOf[u] = q => pc'[u] \notin Late) => batch[q] = <<>>
    BY <1>2, Zenon DEF QueueInv
  <2>1. /\ InSeq(queue[q]) \cup InSeq(batch[q]) \subseteq Thread
        /\ InSeq(Append(queue[p], t)) = InSeq(queue[p]) \cup {t}
        /\ Distinct(queue[p]) /\ t \notin InSeq(queue[p]) => Distinct(Append(queue[p], t))
    BY <1>0, InSeqType, InSeqAppend, TypeParts, ZenonT(40) DEF GroupType
  <2>2. /\ \A x \in InSeq(queue[q]) \cup InSeq(batch[q]) : ProcOf[x] = q /\ Active(x) /\ receipt[x] = "none"
        /\ \A x \in InSeq(queue[q]) : x \notin InSeq(batch[q])
        /\ Distinct(queue[q])
    BY Zenon DEF QueueInv
  <2>3. t \notin InSeq(queue[q]) /\ t \notin InSeq(batch[q])
    BY <1>1, <2>2, Zenon DEF Active
  <2>4. /\ InSeq(queue'[q]) = IF q = p THEN InSeq(queue[p]) \cup {t} ELSE InSeq(queue[q])
        /\ Distinct(queue'[q])
    BY <1>2, <2>1, <2>2, <2>3, Zenon
  <2>5. (\A u \in Thread : ProcOf[u] = q => pc'[u] \notin Late) => (\A u \in Thread : ProcOf[u] = q => pc[u] \notin Late)
    BY <1>1, SchedulingFacts, Zenon
  <2>6. (\A u \in Thread : ProcOf[u] = q => pc'[u] \notin Late) => batch[q] = <<>>
    BY <2>5, Zenon DEF QueueInv
  <2>7. \A x \in InSeq(queue'[q]) : x \notin InSeq(batch[q])
    BY <2>2, <2>3, <2>4, Zenon
  <2>8. \A x \in InSeq(queue'[q]) \cup InSeq(batch[q]) : ProcOf[x] = q /\ Active(x)' /\ receipt[x] = "none"
    BY <1>3, <1>4, <2>1, <2>2, <2>4, Zenon
  <2> QED
    BY <2>4, <2>6, <2>7, <2>8, Zenon
<1> QED
  BY <1>5, <1>6, Zenon

(* The thread with the baton wakes. *)
LEMMA LeadGroup == ASSUME TypeOK, BatonInv, QueueInv, NEW t \in Thread, Lead(t) PROVE BatonInv' /\ QueueInv'
<1>1. /\ pc[t] = "waiting" /\ leading[t] /\ \A x \in Thread : pc'[x] = IF x = t THEN "draining" ELSE pc[x]
      /\ \A x \in Thread : leading'[x] = IF x = t THEN FALSE ELSE leading[x]
      /\ UNCHANGED <<queue, draining, batch, done, refused, receipt>>
  BY Updated, TypeParts, Zenon DEF ThreadType, Lead, group
<1>2. receipt[t] = "none"
  BY <1>1, Zenon DEF BatonInv
<1>3. \A x \in Thread : (Holder(x)' <=> Holder(x)) /\ (Active(x)' <=> Active(x))
  BY <1>1, SchedulingFacts, Zenon DEF Holder, Active
<1>4. BatonInv'
  BY <1>1, <1>2, <1>3, Zenon DEF BatonInv
<1>5. QueueInv'
  <2> SUFFICES ASSUME NEW p \in Process
               PROVE  /\ \A x \in InSeq(queue[p]) \cup InSeq(batch[p]) : ProcOf[x] = p /\ Active(x)' /\ receipt[x] = "none"
                      /\ (\A u \in Thread : ProcOf[u] = p => pc'[u] \notin Late) => batch[p] = <<>>
    BY <1>1, Zenon DEF QueueInv
  <2>1. InSeq(queue[p]) \cup InSeq(batch[p]) \subseteq Thread
    BY InSeqType, TypeParts, Zenon DEF GroupType
  <2>2. \A x \in InSeq(queue[p]) \cup InSeq(batch[p]) : ProcOf[x] = p /\ Active(x) /\ receipt[x] = "none"
    BY Zenon DEF QueueInv
  <2>3. (\A u \in Thread : ProcOf[u] = p => pc'[u] \notin Late) => (\A u \in Thread : ProcOf[u] = p => pc[u] \notin Late)
    BY <1>1, SchedulingFacts, Zenon
  <2> QED
    BY <1>3, <2>1, <2>2, <2>3, Zenon DEF QueueInv
<1> QED
  BY <1>4, <1>5, Zenon

(* The only thread of its process that works is its writer. *)
LEMMA OneWorks ==
  ASSUME BatonInv, NEW t \in Thread, pc[t] \in Working, NEW u \in Thread, ProcOf[u] = ProcOf[t], u # t
  PROVE  pc[u] \notin Working /\ ~ leading[u]
  BY Zenon DEF BatonInv, Holder

(* A writer that has not begun has no cut. *)
LEMMA NothingCaptured ==
  ASSUME TypeOK, BatonInv, QueueInv, NEW t \in Thread, pc[t] = "draining"
  PROVE  batch[ProcOf[t]] = <<>> /\ done[ProcOf[t]] = 0 /\ refused[ProcOf[t]] = {}
<1>1. \A u \in Thread : ProcOf[u] = ProcOf[t] => pc[u] \notin Late
  BY OneWorks, SchedulingFacts, Zenon
<1> QED
  BY <1>1, SchedulingFacts, Zenon DEF QueueInv

(* The queue becomes the cut. *)
LEMMA BeginGroup == ASSUME TypeOK, BatonInv, QueueInv, NEW t \in Thread, Begin(t) PROVE BatonInv' /\ QueueInv'
<1> DEFINE p == ProcOf[t]
<1>0. p \in Process
  BY SchedulingFacts, Zenon
<1>1. /\ pc[t] = "draining" /\ \A x \in Thread : pc'[x] = IF x = t THEN "commit" ELSE pc[x]
      /\ UNCHANGED <<leading, draining, done, refused, receipt>>
  BY Updated, TypeParts, Zenon DEF ThreadType, Begin
<1>2. /\ \A q \in Process : batch'[q] = IF q = p THEN queue[p] ELSE batch[q]
      /\ \A q \in Process : queue'[q] = IF q = p THEN <<>> ELSE queue[q]
  BY <1>0, Updated, TypeParts, Zenon DEF GroupType, Begin
<1>3. batch[p] = <<>> /\ done[p] = 0 /\ refused[p] = {}
  BY <1>1, NothingCaptured, Zenon
<1>4. "commit" \in Late /\ "commit" \in Working
  BY Zenon DEF Late, Working
<1>5. \A x \in Thread : (Holder(x)' <=> Holder(x)) /\ (Active(x)' <=> Active(x))
  BY <1>1, <1>4, SchedulingFacts, Zenon DEF Holder, Active
<1>6. BatonInv'
  <2>1. \A x \in Thread : /\ leading'[x] => pc'[x] = "waiting" /\ receipt'[x] = "none"
                          /\ receipt'[x] # "none" => pc'[x] = "waiting"
    BY <1>1, SchedulingFacts, Zenon DEF BatonInv
  <2>2. \A q \in Process : ~ draining'[q] => queue'[q] = <<>>
    BY <1>1, <1>2, Zenon DEF BatonInv
  <2> QED
    BY <1>1, <1>5, <2>1, <2>2, Zenon DEF BatonInv
<1>7. QueueInv'
  <2>1. InSeq(<<>>) = {} /\ Distinct(<<>>) /\ \A q \in Process : InSeq(queue[q]) \cup InSeq(batch[q]) \subseteq Thread
    BY InSeqType, InSeqEmpty, TypeParts, Zenon DEF GroupType
  <2>2. ASSUME NEW q \in Process, q # p
        PROVE  /\ \A x \in InSeq(queue'[q]) \cup InSeq(batch'[q]) : ProcOf[x] = q /\ Active(x)' /\ receipt'[x] = "none"
               /\ \A x \in InSeq(queue'[q]) : x \notin InSeq(batch'[q])
               /\ Distinct(queue'[q]) /\ Distinct(batch'[q])
               /\ (\A u \in Thread : ProcOf[u] = q => pc'[u] \notin Late) => batch'[q] = <<>>
               /\ batch'[q] = <<>> => done'[q] = 0 /\ refused'[q] = {}
               /\ refused'[q] \subseteq FirstOf(batch'[q], done'[q])
    <3>1. batch'[q] = batch[q] /\ queue'[q] = queue[q]
      BY <1>2, <2>2, Zenon
    <3>2. \A u \in Thread : ProcOf[u] = q => pc'[u] = pc[u]
      BY <1>1, <2>2, Zenon
    <3> QED
      BY <1>1, <1>5, <2>1, <3>1, <3>2, Zenon DEF QueueInv
  <2>3. /\ \A x \in InSeq(queue'[p]) \cup InSeq(batch'[p]) : ProcOf[x] = p /\ Active(x)' /\ receipt'[x] = "none"
        /\ \A x \in InSeq(queue'[p]) : x \notin InSeq(batch'[p])
        /\ Distinct(queue'[p]) /\ Distinct(batch'[p])
        /\ (\A u \in Thread : ProcOf[u] = p => pc'[u] \notin Late) => batch'[p] = <<>>
        /\ batch'[p] = <<>> => done'[p] = 0 /\ refused'[p] = {}
        /\ refused'[p] \subseteq FirstOf(batch'[p], done'[p])
    <3>1. batch'[p] = queue[p] /\ queue'[p] = <<>> /\ done'[p] = 0 /\ refused'[p] = {}
      BY <1>0, <1>1, <1>2, <1>3, Zenon
    <3>2. ~ (\A u \in Thread : ProcOf[u] = p => pc'[u] \notin Late)
      BY <1>1, <1>4, Zenon
    <3>3. /\ \A x \in InSeq(queue[p]) : ProcOf[x] = p /\ Active(x) /\ receipt[x] = "none"
          /\ Distinct(queue[p])
      BY <1>0, QueueOf, Zenon
    <3>4. \A x \in InSeq(queue[p]) : Active(x)' /\ receipt'[x] = "none"
      BY <1>0, <1>1, <1>5, <2>1, <3>3, Zenon
    <3> QED
      BY <2>1, <3>1, <3>2, <3>3, <3>4, Zenon
  <2> QED
    BY <2>2, <2>3, Zenon DEF QueueInv
<1> QED
  BY <1>6, <1>7, Zenon

(* Validation goes on to the next item. *)
LEMMA CountGroup ==
  ASSUME TypeOK, BatonInv, QueueInv, NEW t \in Thread, Insert(t) \/ Refuse(t)
  PROVE  BatonInv' /\ QueueInv'
<1> DEFINE p == ProcOf[t]
<1>0. p \in Process /\ done[p] \in Nat /\ batch[p] \in Seq(Thread) /\ done[p] < Len(batch[p])
  BY SchedulingFacts, TypeParts, Zenon DEF Insert, Refuse, Validating, GroupType
<1>1. /\ UNCHANGED <<queue, draining, batch, pc, leading, receipt>>
      /\ \A q \in Process : done'[q] = IF q = p THEN done[p] + 1 ELSE done[q]
      /\ \A q \in Process : refused'[q] \subseteq IF q = p THEN refused[p] \cup {Item(p)} ELSE refused[q]
  <2>1. CASE Insert(t)
    BY <1>0, <2>1, Updated, TypeParts, Zenon DEF GroupType, Insert, threads
  <2>2. CASE Refuse(t)
    BY <1>0, <2>2, Updated, TypeParts, Zenon DEF GroupType, Refuse, threads
  <2> QED
    BY <2>1, <2>2, Zenon
<1>2. batch[p] # <<>> /\ FirstOf(batch[p], done[p] + 1) = FirstOf(batch[p], done[p]) \cup {Item(p)}
  BY <1>0, NextOf, Zenon DEF Item
<1>3. BatonInv'
  BY <1>1, BatonSame, Zenon
<1>4. \A q \in Process : batch[q] = <<>> => done'[q] = 0 /\ refused'[q] = {}
  BY <1>1, <1>2, Zenon DEF QueueInv
<1>5. \A q \in Process : refused'[q] \subseteq FirstOf(batch[q], done'[q])
  BY <1>1, <1>2, Zenon DEF QueueInv
<1>6. QueueInv'
  BY <1>1, <1>4, <1>5, Zenon DEF QueueInv, Active
<1> QED
  BY <1>3, <1>6, Zenon

(* A told thread leaves. *)
LEMMA ReturnGroup == ASSUME TypeOK, BatonInv, QueueInv, NEW t \in Thread, Return(t) PROVE BatonInv' /\ QueueInv'
<1>1. /\ pc[t] = "waiting" /\ receipt[t] # "none" /\ \A x \in Thread : pc'[x] = IF x = t THEN "idle" ELSE pc[x]
      /\ \A x \in Thread : receipt'[x] = IF x = t THEN "none" ELSE receipt[x]
      /\ UNCHANGED <<queue, draining, batch, done, refused, leading>>
  BY Updated, TypeParts, Zenon DEF ThreadType, Return, group
<1>2. ~ leading[t]
  BY <1>1, Zenon DEF BatonInv
<1>3. \A x \in Thread : (Holder(x)' <=> Holder(x)) /\ (x # t => (Active(x)' <=> Active(x)))
  BY <1>1, <1>2, SchedulingFacts, Zenon DEF Holder, Active
<1>4. BatonInv'
  BY <1>1, <1>2, <1>3, Zenon DEF BatonInv
<1>5. QueueInv'
  <2> SUFFICES ASSUME NEW p \in Process
               PROVE  /\ \A x \in InSeq(queue[p]) \cup InSeq(batch[p]) : ProcOf[x] = p /\ Active(x)' /\ receipt'[x] = "none"
                      /\ (\A u \in Thread : ProcOf[u] = p => pc'[u] \notin Late) => batch[p] = <<>>
    BY <1>1, Zenon DEF QueueInv
  <2>1. \A x \in InSeq(queue[p]) \cup InSeq(batch[p]) : x \in Thread /\ x # t /\ ProcOf[x] = p /\ Active(x) /\ receipt[x] = "none"
    <3>1. \A x \in InSeq(queue[p]) \cup InSeq(batch[p]) : x \in Thread /\ ProcOf[x] = p /\ Active(x) /\ receipt[x] = "none"
      BY QueueOf, Zenon
    <3> QED
      BY <1>1, <3>1, Zenon
  <2>2. (\A u \in Thread : ProcOf[u] = p => pc'[u] \notin Late) => (\A u \in Thread : ProcOf[u] = p => pc[u] \notin Late)
    BY <1>1, SchedulingFacts, Zenon
  <2>3. (\A u \in Thread : ProcOf[u] = p => pc'[u] \notin Late) => batch[p] = <<>>
    BY <2>2, Zenon DEF QueueInv
  <2> QED
    BY <1>1, <1>3, <2>1, <2>3, Zenon
<1> QED
  BY <1>4, <1>5, Zenon

-----------------------------------------------------------------------------
(* The writer answers, and passes the baton to next, if to anyone. *)
LEMMA FinishGroup ==
  ASSUME TypeOK, BatonInv, QueueInv, NEW t \in Thread, Strand(t) \/ Publish(t)
  PROVE  BatonInv' /\ QueueInv'
<1> DEFINE p == ProcOf[t]
           next == IF Publish(t) THEN Successor(p) ELSE {}
           told == IF Publish(t) THEN InSeq(batch[p]) ELSE Stranded(p)
<1>0. p \in Process /\ pc[t] \in Working
  BY SchedulingFacts, Zenon DEF Strand, Publish, Working
<1>1. InSeq(queue[p]) \subseteq Thread /\ InSeq(batch[p]) \subseteq Thread
  BY <1>0, InSeqType, TypeParts, Zenon DEF GroupType
<1>2. next \subseteq InSeq(queue[p]) /\ next \cap told = {} /\ \A x, y \in next : x = y
  <2>1. Successor(p) \subseteq InSeq(queue[p]) /\ \A x, y \in Successor(p) : x = y
    BY <1>0, HeadInSeq, TypeParts, Zenon DEF Successor, GroupType
  <2> QED
    BY <1>0, <2>1, Zenon DEF QueueInv
<1>3. /\ \A x \in Thread : pc'[x] = IF x = t THEN "waiting" ELSE pc[x]
      /\ \A x \in Thread : receipt'[x] # receipt[x] => x \in told
      /\ \A x \in Thread : leading'[x] = (leading[x] \/ x \in next)
      /\ \A q \in Process : draining'[q] = IF q = p THEN next # {} ELSE draining[q]
      /\ \A q \in Process : /\ batch'[q] = IF q = p THEN <<>> ELSE batch[q]
                            /\ done'[q] = IF q = p THEN 0 ELSE done[q]
                            /\ refused'[q] = IF q = p THEN {} ELSE refused[q]
      /\ \A q \in Process : queue'[q] = IF q = p /\ next = {} THEN <<>> ELSE queue[q]
  <2>1. CASE Publish(t)
    <3>1. /\ \A x \in Thread : pc'[x] = IF x = t THEN "waiting" ELSE pc[x]
          /\ \A x \in Thread : receipt'[x] # receipt[x] => x \in InSeq(batch[p])
          /\ \A x \in Thread : leading'[x] = (leading[x] \/ x \in Successor(p))
      BY <2>1, Updated, TypeParts, Zenon DEF ThreadType, Publish
    <3>2. /\ \A q \in Process : draining'[q] = IF q = p THEN Successor(p) # {} ELSE draining[q]
          /\ \A q \in Process : /\ batch'[q] = IF q = p THEN <<>> ELSE batch[q]
                                /\ done'[q] = IF q = p THEN 0 ELSE done[q]
                                /\ refused'[q] = IF q = p THEN {} ELSE refused[q]
          /\ queue' = queue
      BY <1>0, <2>1, Updated, TypeParts, Zenon DEF GroupType, Publish
    <3>3. Successor(p) = {} => queue[p] = <<>>
      BY Zenon DEF Successor
    <3> QED
      BY <2>1, <3>1, <3>2, <3>3, Zenon
  <2>2. CASE ~ Publish(t)
    <3>0. Strand(t)
      BY <2>2, Zenon
    <3>1. /\ \A x \in Thread : pc'[x] = IF x = t THEN "waiting" ELSE pc[x]
          /\ \A x \in Thread : receipt'[x] # receipt[x] => x \in Stranded(p)
          /\ leading' = leading
      <4>1. pc' = [pc EXCEPT ![t] = "waiting"] /\ leading' = leading
        BY <3>0, Zenon DEF Strand
      <4>2. receipt' = [x \in Thread |-> IF x \in Stranded(p) THEN "failed" ELSE receipt[x]]
        BY <3>0, Zenon DEF Strand
      <4>3. \A x \in Thread : receipt'[x] # receipt[x] => x \in Stranded(p)
        BY <4>2, Zenon
      <4> QED
        BY <4>1, <4>3, TypeParts, Zenon DEF ThreadType
    <3>2. /\ \A q \in Process : draining'[q] = IF q = p THEN FALSE ELSE draining[q]
          /\ \A q \in Process : /\ batch'[q] = IF q = p THEN <<>> ELSE batch[q]
                                /\ done'[q] = IF q = p THEN 0 ELSE done[q]
                                /\ refused'[q] = IF q = p THEN {} ELSE refused[q]
                                /\ queue'[q] = IF q = p THEN <<>> ELSE queue[q]
      <4>1. /\ queue' = [queue EXCEPT ![p] = <<>>] /\ batch' = [batch EXCEPT ![p] = <<>>]
            /\ done' = [done EXCEPT ![p] = 0] /\ refused' = [refused EXCEPT ![p] = {}]
            /\ draining' = [draining EXCEPT ![p] = FALSE]
        BY <3>0, Zenon DEF Strand
      <4> QED
        BY <1>0, <4>1, TypeParts, Zenon DEF GroupType
    <3>3. \A x \in Thread : leading[x] \in BOOLEAN
      BY TypeParts, Zenon DEF ThreadType
    <3> QED
      BY <2>2, <3>1, <3>2, <3>3, Zenon
  <2> QED
    BY <2>1, <2>2, Zenon
<1>4. \A x \in InSeq(queue[p]) \cup InSeq(batch[p]) : ProcOf[x] = p /\ Active(x) /\ receipt[x] = "none"
  BY <1>0, Zenon DEF QueueInv
<1>5. told \subseteq InSeq(queue[p]) \cup InSeq(batch[p]) /\ (next # {} => told \subseteq InSeq(batch[p]))
  BY Zenon DEF Stranded
<1> HIDE DEF next, told
<1>6. \A x \in InSeq(queue[p]) \cup InSeq(batch[p]) : pc'[x] = "waiting" /\ x \in Thread
  <2> SUFFICES ASSUME NEW x \in InSeq(queue[p]) \cup InSeq(batch[p]), x # t PROVE pc[x] = "waiting" /\ x \in Thread
    BY <1>1, <1>3, Zenon
  <2>1. x \in Thread /\ pc[x] \in {"idle", "waiting"} \cup Working /\ ProcOf[x] = p /\ pc[x] # "idle"
    BY <1>1, <1>4, TypeParts, Zenon DEF ThreadType, Active
  <2>2. pc[x] \notin Working
    BY <1>0, <2>1, OneWorks, Zenon
  <2> QED
    BY <2>1, <2>2, Zenon
<1>7. \A x \in Thread : Holder(x)' <=> (x \in next \/ (ProcOf[x] # p /\ Holder(x)))
  <2> SUFFICES ASSUME NEW x \in Thread PROVE Holder(x)' <=> (x \in next \/ (ProcOf[x] # p /\ Holder(x)))
    BY Zenon
  <2>1. CASE ProcOf[x] # p
    <3>1. x # t /\ x \notin next
      BY <1>2, <1>4, <2>1, Zenon
    <3> QED
      BY <1>3, <2>1, <3>1, Zenon DEF Holder
  <2>2. CASE ProcOf[x] = p
    <3>1. ~ leading[x]
      <4>1. CASE x = t
        BY <1>0, <4>1, SchedulingFacts, Zenon DEF BatonInv
      <4>2. CASE x # t
        BY <1>0, <2>2, <4>2, OneWorks, Zenon
      <4> QED
        BY <4>1, <4>2, Zenon
    <3>2. pc'[x] \notin Working
      <4>1. CASE x = t
        BY <1>3, <4>1, SchedulingFacts, Zenon
      <4>2. CASE x # t
        BY <1>0, <1>3, <2>2, <4>2, OneWorks, Zenon
      <4> QED
        BY <4>1, <4>2, Zenon
    <3> QED
      BY <1>3, <2>2, <3>1, <3>2, Zenon DEF Holder
  <2> QED
    BY <2>1, <2>2, Zenon
<1>8. BatonInv'
  <2>1. \A x \in Thread : Holder(x)' => draining'[ProcOf[x]]
    <3> SUFFICES ASSUME NEW x \in Thread, Holder(x)' PROVE draining'[ProcOf[x]]
      BY Zenon
    <3>1. CASE x \in next
      <4>1. ProcOf[x] = p /\ next # {}
        BY <1>2, <1>4, <3>1, Zenon
      <4> QED
        BY <1>0, <1>3, <4>1, Zenon
    <3>2. CASE x \notin next
      <4>1. ProcOf[x] # p /\ draining[ProcOf[x]]
        BY <1>7, <3>2, Zenon DEF BatonInv
      <4> QED
        BY <1>3, <4>1, SchedulingFacts, Zenon
    <3> QED
      BY <3>1, <3>2, Zenon
  <2>2. \A x, u \in Thread : Holder(x)' /\ Holder(u)' /\ ProcOf[x] = ProcOf[u] => x = u
    BY <1>2, <1>4, <1>7, Zenon DEF BatonInv
  <2>3. ASSUME NEW q \in Process, draining'[q] PROVE \E u \in Thread : ProcOf[u] = q /\ Holder(u)'
    <3>1. CASE q = p
      <4>1. PICK u : u \in next
        BY <1>3, <2>3, <3>1, Zenon
      <4> QED
        BY <1>1, <1>2, <1>4, <1>7, <3>1, <4>1, Zenon
    <3>2. CASE q # p
      <4>1. PICK u \in Thread : ProcOf[u] = q /\ Holder(u)
        BY <1>3, <2>3, <3>2, Zenon DEF BatonInv
      <4> QED
        BY <1>7, <3>2, <4>1, Zenon
    <3> QED
      BY <3>1, <3>2, Zenon
  <2>4. \A q \in Process : ~ draining'[q] => queue'[q] = <<>>
    <3>1. \A q \in Process : ~ draining[q] => queue[q] = <<>>
      BY Zenon DEF BatonInv
    <3>2. /\ \A q \in Process : draining'[q] = IF q = p THEN next # {} ELSE draining[q]
          /\ \A q \in Process : queue'[q] = IF q = p /\ next = {} THEN <<>> ELSE queue[q]
      BY <1>3, Zenon
    <3> QED
      BY <3>1, <3>2, Zenon
  <2>5. \A x \in Thread : leading'[x] => pc'[x] = "waiting" /\ receipt'[x] = "none"
    <3> SUFFICES ASSUME NEW x \in Thread, leading'[x] PROVE pc'[x] = "waiting" /\ receipt'[x] = "none"
      BY Zenon
    <3>1. CASE x \in next
      <4>1. x \in InSeq(queue[p]) /\ x \notin told
        BY <1>2, <3>1, Zenon
      <4>2. receipt[x] = "none" /\ pc'[x] = "waiting"
        BY <1>4, <1>6, <4>1, Zenon
      <4> QED
        BY <1>3, <4>1, <4>2, Zenon
    <3>2. CASE x \notin next
      <4>1. leading[x] /\ pc[x] = "waiting" /\ receipt[x] = "none"
        BY <1>3, <3>2, Zenon DEF BatonInv
      <4>2. ProcOf[x] # p
        BY <1>7, <3>2, <3>1, Zenon DEF Holder
      <4> QED
        BY <1>3, <1>4, <1>5, <4>1, <4>2, Zenon
    <3> QED
      BY <3>1, <3>2, Zenon
  <2>6. \A x \in Thread : receipt'[x] # "none" => pc'[x] = "waiting"
    BY <1>3, <1>5, <1>6, ZenonT(40) DEF BatonInv
  <2> QED
    BY <2>1, <2>2, <2>3, <2>4, <2>5, <2>6, Zenon DEF BatonInv
<1>9. QueueInv'
  <2>1. InSeq(<<>>) = {} /\ Distinct(<<>>) /\ FirstOf(<<>>, 0) = {}
    BY InSeqEmpty, Zenon
  <2>2. \A x \in Thread : Active(x) => Active(x)'
    BY <1>3, Zenon DEF Active
  <2>3. ASSUME NEW q \in Process, q # p
        PROVE  /\ \A x \in InSeq(queue'[q]) \cup InSeq(batch'[q]) : ProcOf[x] = q /\ Active(x)' /\ receipt'[x] = "none"
               /\ \A x \in InSeq(queue'[q]) : x \notin InSeq(batch'[q])
               /\ Distinct(queue'[q]) /\ Distinct(batch'[q])
               /\ (\A u \in Thread : ProcOf[u] = q => pc'[u] \notin Late) => batch'[q] = <<>>
               /\ batch'[q] = <<>> => done'[q] = 0 /\ refused'[q] = {}
               /\ refused'[q] \subseteq FirstOf(batch'[q], done'[q])
    <3>1. batch'[q] = batch[q] /\ queue'[q] = queue[q] /\ done'[q] = done[q] /\ refused'[q] = refused[q]
      BY <1>3, <2>3, Zenon
    <3>2. \A u \in Thread : ProcOf[u] = q => pc'[u] = pc[u]
      BY <1>3, <2>3, Zenon
    <3>3. InSeq(queue[q]) \cup InSeq(batch[q]) \subseteq Thread
      BY InSeqType, TypeParts, Zenon DEF GroupType
    <3>4. \A x \in InSeq(queue[q]) \cup InSeq(batch[q]) : ProcOf[x] = q /\ Active(x)' /\ receipt'[x] = "none"
      <4> SUFFICES ASSUME NEW x \in InSeq(queue[q]) \cup InSeq(batch[q])
                   PROVE  ProcOf[x] = q /\ Active(x)' /\ receipt'[x] = "none"
        BY Zenon
      <4>1. ProcOf[x] = q /\ Active(x) /\ receipt[x] = "none"
        BY Zenon DEF QueueInv
      <4>2. x \notin told
        BY <1>4, <1>5, <2>3, <4>1, Zenon
      <4> QED
        BY <1>3, <2>2, <3>3, <4>1, <4>2, Zenon
    <3> QED
      BY <3>1, <3>2, <3>4, Zenon DEF QueueInv
  <2>4. /\ \A x \in InSeq(queue'[p]) \cup InSeq(batch'[p]) : ProcOf[x] = p /\ Active(x)' /\ receipt'[x] = "none"
        /\ \A x \in InSeq(queue'[p]) : x \notin InSeq(batch'[p])
        /\ Distinct(queue'[p]) /\ Distinct(batch'[p])
        /\ (\A u \in Thread : ProcOf[u] = p => pc'[u] \notin Late) => batch'[p] = <<>>
        /\ batch'[p] = <<>> => done'[p] = 0 /\ refused'[p] = {}
        /\ refused'[p] \subseteq FirstOf(batch'[p], done'[p])
    <3>1. batch'[p] = <<>> /\ done'[p] = 0 /\ refused'[p] = {}
      BY <1>0, <1>3, Zenon
    <3>2. CASE next = {}
      <4>1. queue'[p] = <<>>
        BY <1>0, <1>3, <3>2, Zenon
      <4> QED
        BY <2>1, <3>1, <4>1, Zenon
    <3>3. CASE next # {}
      <4>1. queue'[p] = queue[p] /\ Distinct(queue[p])
        <5>1. Distinct(queue[p])
          BY <1>0, QueueOf, Zenon
        <5>2. queue'[p] = IF p = p /\ next = {} THEN <<>> ELSE queue[p]
          BY <1>0, <1>3, Zenon
        <5> QED
          BY <3>3, <5>1, <5>2, Zenon
      <4>2. \A x \in InSeq(queue[p]) : x \notin told
        BY <1>0, <1>5, <3>3, Zenon DEF QueueInv
      <4>3. \A x \in InSeq(queue[p]) : ProcOf[x] = p /\ Active(x)' /\ receipt'[x] = "none"
        BY <1>1, <1>3, <1>4, <2>2, <4>2, Zenon
      <4> QED
        BY <2>1, <3>1, <4>1, <4>3, Zenon
    <3> QED
      BY <3>2, <3>3, Zenon
  <2> QED
    BY <2>3, <2>4, Zenon DEF QueueInv
<1> QED
  BY <1>8, <1>9, Zenon

(* A crash takes the whole group with it. *)
LEMMA CrashGroup == ASSUME TypeOK, BatonInv, QueueInv, NEW p \in Process, Crash(p) PROVE BatonInv' /\ QueueInv'
<1>1. /\ \A x \in Thread : pc'[x] = IF ProcOf[x] = p THEN "idle" ELSE pc[x]
      /\ \A x \in Thread : leading'[x] = (ProcOf[x] # p /\ leading[x])
      /\ \A x \in Thread : receipt'[x] = IF ProcOf[x] = p THEN "none" ELSE receipt[x]
  BY Zenon DEF Crash
<1>2. \A q \in Process : /\ draining'[q] = IF q = p THEN FALSE ELSE draining[q]
                         /\ batch'[q] = IF q = p THEN <<>> ELSE batch[q]
                         /\ done'[q] = IF q = p THEN 0 ELSE done[q]
                         /\ refused'[q] = IF q = p THEN {} ELSE refused[q]
                         /\ queue'[q] = IF q = p THEN <<>> ELSE queue[q]
  BY Updated, TypeParts, Zenon DEF GroupType, Crash
<1>3. \A x \in Thread : Holder(x)' <=> (ProcOf[x] # p /\ Holder(x))
  BY <1>1, SchedulingFacts, Zenon DEF Holder
<1>4. BatonInv'
  <2>1. \A x \in Thread : Holder(x)' => draining'[ProcOf[x]]
    BY <1>2, <1>3, SchedulingFacts, Zenon DEF BatonInv
  <2>2. \A x, u \in Thread : Holder(x)' /\ Holder(u)' /\ ProcOf[x] = ProcOf[u] => x = u
    BY <1>3, Zenon DEF BatonInv
  <2>3. \A q \in Process : draining'[q] => \E u \in Thread : ProcOf[u] = q /\ Holder(u)'
    <3> SUFFICES ASSUME NEW q \in Process, draining'[q] PROVE \E u \in Thread : ProcOf[u] = q /\ Holder(u)'
      BY Zenon
    <3>1. q # p /\ draining[q]
      BY <1>2, Zenon
    <3>2. PICK u \in Thread : ProcOf[u] = q /\ Holder(u)
      BY <3>1, Zenon DEF BatonInv
    <3> QED
      BY <1>3, <3>1, <3>2, Zenon
  <2>4. \A q \in Process : ~ draining'[q] => queue'[q] = <<>>
    BY <1>2, ZenonT(40) DEF BatonInv
  <2>5. \A x \in Thread : /\ leading'[x] => pc'[x] = "waiting" /\ receipt'[x] = "none"
                          /\ receipt'[x] # "none" => pc'[x] = "waiting"
    BY <1>1, Zenon DEF BatonInv
  <2> QED
    BY <2>1, <2>2, <2>3, <2>4, <2>5, Zenon DEF BatonInv
<1>5. QueueInv'
  <2>1. InSeq(<<>>) = {} /\ Distinct(<<>>) /\ FirstOf(<<>>, 0) = {}
    BY InSeqEmpty, Zenon
  <2>2. ASSUME NEW q \in Process, q # p
        PROVE  /\ \A x \in InSeq(queue'[q]) \cup InSeq(batch'[q]) : ProcOf[x] = q /\ Active(x)' /\ receipt'[x] = "none"
               /\ \A x \in InSeq(queue'[q]) : x \notin InSeq(batch'[q])
               /\ Distinct(queue'[q]) /\ Distinct(batch'[q])
               /\ (\A u \in Thread : ProcOf[u] = q => pc'[u] \notin Late) => batch'[q] = <<>>
               /\ batch'[q] = <<>> => done'[q] = 0 /\ refused'[q] = {}
               /\ refused'[q] \subseteq FirstOf(batch'[q], done'[q])
    <3>1. batch'[q] = batch[q] /\ queue'[q] = queue[q] /\ done'[q] = done[q] /\ refused'[q] = refused[q]
      BY <1>2, <2>2, Zenon
    <3>2. \A u \in Thread : ProcOf[u] = q => pc'[u] = pc[u] /\ receipt'[u] = receipt[u] /\ (Active(u)' <=> Active(u))
      BY <1>1, <2>2, Zenon DEF Active
    <3>3. InSeq(queue[q]) \cup InSeq(batch[q]) \subseteq Thread
      BY InSeqType, TypeParts, Zenon DEF GroupType
    <3> QED
      BY <3>1, <3>2, <3>3, Zenon DEF QueueInv
  <2>3. batch'[p] = <<>> /\ queue'[p] = <<>> /\ done'[p] = 0 /\ refused'[p] = {}
    BY <1>2, Zenon
  <2> QED
    BY <2>1, <2>2, <2>3, ZenonT(40) DEF QueueInv
<1> QED
  BY <1>4, <1>5, Zenon

LEMMA GroupInit == Init => BatonInv /\ QueueInv
<1> SUFFICES ASSUME Init PROVE BatonInv /\ QueueInv
  OBVIOUS
<1>1. \A x \in Thread : pc[x] = "idle" /\ leading[x] = FALSE /\ receipt[x] = "none"
  BY Zenon DEF Init
<1>2. \A q \in Process : draining[q] = FALSE /\ queue[q] = <<>> /\ batch[q] = <<>> /\ done[q] = 0 /\ refused[q] = {}
  BY Zenon DEF Init
<1>3. \A x \in Thread : ~ Holder(x)
  BY <1>1, SchedulingFacts, Zenon DEF Holder
<1> QED
  BY <1>1, <1>2, <1>3, InSeqEmpty, Zenon DEF BatonInv, QueueInv

(* The baton and the queue, over all steps. *)
LEMMA GroupStep == ASSUME TypeOK, BatonInv, QueueInv, [Next]_vars PROVE BatonInv' /\ QueueInv'
<1>1. ASSUME NEW t \in Thread, NEW op \in Op, NEW f \in Flow, Mutate(t, op, f) \/ MutateFails(t, op, f)
      PROVE  BatonInv' /\ QueueInv'
  BY <1>1, BatonSame, QueueSame, Zenon DEF Mutate, MutateFails, group
<1>2. ASSUME NEW t \in Thread, BeginFails(t) \/ Commit(t) \/ CommitFails(t) \/ InsertFails(t) \/ Reset(t)
      PROVE  BatonInv' /\ QueueInv'
  <2>1. "failed" \in Late /\ "publish" \in Late /\ "strand" \in Late /\ {"draining", "commit", "failed"} \subseteq Working
    BY Zenon DEF Late, Working
  <2>2. CASE BeginFails(t)
    BY <2>1, <2>2, MoveKeeps, Zenon DEF BeginFails
  <2>3. CASE Commit(t)
    BY <2>1, <2>3, MoveKeeps, Zenon DEF Commit
  <2>4. CASE CommitFails(t)
    BY <2>1, <2>4, MoveKeeps, Zenon DEF CommitFails
  <2>5. CASE InsertFails(t)
    BY <2>1, <2>5, MoveKeeps, Zenon DEF InsertFails, Validating
  <2>6. CASE Reset(t)
    BY <2>1, <2>6, MoveKeeps, Zenon DEF Reset
  <2> QED
    BY <1>2, <2>2, <2>3, <2>4, <2>5, <2>6, Zenon
<1>3. ASSUME NEW p \in Process, Read(p) \/ Close(p) PROVE BatonInv' /\ QueueInv'
  BY <1>3, BatonSame, QueueSame, Zenon DEF Read, Close, group, threads
<1>4. ASSUME UNCHANGED vars PROVE BatonInv' /\ QueueInv'
  BY <1>4, BatonSame, QueueSame, Zenon DEF vars, group, threads
<1>5. ASSUME NEW t \in Thread, Drain(t) PROVE BatonInv' /\ QueueInv'
  BY <1>2, <1>5, LeadGroup, BeginGroup, CountGroup, FinishGroup, ReturnGroup, Zenon DEF Drain
<1> QED
  BY <1>1, <1>3, <1>4, <1>5, SubmitGroup, CrashGroup, Zenon DEF Next
-----------------------------------------------------------------------------
(* The open transaction, and how far the views go. *)
LEMMA Grown ==
  ASSUME NEW v \in Seq(Event), NEW w \in Seq(Event)
  PROVE  /\ v \o w \in Seq(Event) /\ Len(v \o w) = Len(v) + Len(w) /\ Len(v) <= Len(v \o w)
         /\ \A n \in Nat : n <= Len(v) => SubSeq(v \o w, 1, n) = SubSeq(v, 1, n)
<1>1. v \o w \in Seq(Event) /\ Len(v \o w) = Len(v) + Len(w) /\ Len(v) <= Len(v \o w)
  OBVIOUS
<1>2. \A n \in Nat : n <= Len(v) => SubSeq(v \o w, 1, n) = SubSeq(v, 1, n)
  BY PrefixOfConcat, Zenon
<1> QED
  BY <1>1, <1>2, Zenon

LEMMA AppendIsConcat == ASSUME NEW v \in Seq(Event), NEW e \in Event PROVE Append(v, e) = v \o <<e>> /\ <<e>> \in Seq(Event)
  OBVIOUS

(* No step takes an event away. *)
LEMMA JournalGrows == ASSUME TypeOK, [Next]_vars PROVE \E w \in Seq(Event) : events' = events \o w
<1>0. events \in Seq(Event) /\ written \in Seq(Event) /\ <<>> \in Seq(Event) /\ events \o <<>> = events
  <2>1. events \in Seq(Event) /\ written \in Seq(Event)
    BY TypeParts, Zenon DEF DiskType
  <2> QED
    BY <2>1
<1>1. CASE events' = events
  BY <1>0, <1>1, Zenon
<1>2. ASSUME NEW t \in Thread, Commit(t) PROVE events' = events \o written
  BY <1>2, Zenon DEF Commit
<1>3. ASSUME NEW t \in Thread, NEW op \in Op, NEW f \in Flow, Mutate(t, op, f)
      PROVE  events' = events \o <<MutationOf(t, op, f)>> /\ <<MutationOf(t, op, f)>> \in Seq(Event)
  <2>1. MutationOf(t, op, f) \in Event /\ events' = Append(events, MutationOf(t, op, f))
    BY <1>3, MutationType, Zenon DEF Mutate
  <2> QED
    BY <1>0, <2>1, AppendIsConcat, Zenon
<1>4. events' = events \/ (\E t \in Thread : Commit(t)) \/ \E t \in Thread, op \in Op, f \in Flow : Mutate(t, op, f)
  <2>1. ASSUME NEW t \in Thread, Drain(t) PROVE events' = events \/ Commit(t)
    BY <2>1, Zenon DEF Drain, Lead, Begin, BeginFails, Insert, Refuse, InsertFails, CommitFails, Reset, Strand,
                       Publish, Return, disk
  <2>2. ASSUME NEW t \in Thread, NEW op \in Op, NEW f \in Flow, Submit(t, op, f) \/ MutateFails(t, op, f)
        PROVE  events' = events
    BY <2>2, Zenon DEF Submit, MutateFails, disk
  <2>3. ASSUME NEW p \in Process, Read(p) \/ Close(p) \/ Crash(p) PROVE events' = events
    BY <2>3, Zenon DEF Read, Close, Crash, disk
  <2>4. UNCHANGED vars => events' = events
    BY Zenon DEF vars, disk
  <2> QED
    BY <2>1, <2>2, <2>3, <2>4, Zenon DEF Next
<1> QED
  BY <1>0, <1>1, <1>2, <1>3, <1>4, Zenon

(* The journal keeps its prefixes. *)
LEMMA NothingLost ==
  ASSUME TypeOK, TypeOK', [Next]_vars
  PROVE  /\ Len(events) \in Nat /\ Len(events') \in Nat /\ Len(events) <= Len(events')
         /\ \A n \in Nat : n <= Len(events) => SubSeq(events', 1, n) = SubSeq(events, 1, n)
<1>1. PICK w \in Seq(Event) : events' = events \o w
  BY JournalGrows, Zenon
<1>2. events \in Seq(Event) /\ events' \in Seq(Event)
  BY TypeParts, Zenon DEF TypeOK, DiskType
<1>3. Len(events) \in Nat /\ Len(events') \in Nat
  BY <1>2
<1> QED
  BY <1>1, <1>2, <1>3, Grown, Zenon

(* A process whose threads and cut stay is as clean as before. *)
LEMMA CleanSame ==
  ASSUME NEW q \in Process, \A u \in Thread : ProcOf[u] = q => pc'[u] = pc[u], batch'[q] = batch[q]
  PROVE  Clean(q)' <=> Clean(q)
<1>1. CutFree(q)' <=> CutFree(q)
  BY Zenon DEF CutFree
<1>2. Poisoned(q)' <=> Poisoned(q)
  BY Zenon DEF Poisoned
<1> QED
  BY <1>1, <1>2, Zenon DEF Clean

(* Two threads of a process do not both work. *)
LEMMA WorksAlone ==
  ASSUME BatonInv, NEW t \in Thread, pc[t] \in Working, pc[t] # "failed"
  PROVE  ~ Poisoned(ProcOf[t])
<1>1. "failed" \in Working
  BY Zenon DEF Working
<1> QED
  BY <1>1, OneWorks, Zenon DEF Poisoned

(* When a view becomes one to rely on again. *)
Renewed(q) ==
  \/ Crash(q)
  \/ \E t \in Thread : ProcOf[t] = q /\ (Commit(t) \/ CommitFails(t) \/ Reset(t))

LEMMA CleanPc ==
  ASSUME NEW t \in Thread, NEW w, \A x \in Thread : pc'[x] = IF x = t THEN w ELSE pc[x], pc[t] \notin {"commit", "failed"},
         UNCHANGED batch, NEW q \in Process, Clean(q)'
  PROVE  Clean(q)
  BY Zenon DEF Clean, CutFree, Poisoned

(* A view is clean after a step if it was, or if the step renews it. *)
LEMMA CleanBack ==
  ASSUME TypeOK, BatonInv, QueueInv, [Next]_vars, NEW q \in Process, Clean(q)'
  PROVE  Clean(q) \/ Renewed(q)
<1>1. ASSUME NEW t \in Thread, NEW op \in Op, NEW f \in Flow, Submit(t, op, f) PROVE Clean(q)
  <2>1. pc[t] = "idle" /\ batch' = batch /\ \A x \in Thread : pc'[x] = IF x = t THEN "waiting" ELSE pc[x]
    BY <1>1, TypeParts, Zenon DEF Submit, ThreadType
  <2> QED
    BY <2>1, CleanPc, Zenon
<1>2. ASSUME UNCHANGED <<pc, batch>> PROVE Clean(q)
  BY <1>2, CleanSame, Zenon
<1>3. ASSUME NEW p \in Process, Crash(p) PROVE Clean(q) \/ Renewed(q)
  <2>1. CASE p = q
    BY <1>3, <2>1, Zenon DEF Renewed
  <2>2. CASE p # q
    <3>1. batch'[q] = batch[q] /\ \A u \in Thread : ProcOf[u] = q => pc'[u] = pc[u]
      BY <1>3, <2>2, TypeParts, Zenon DEF Crash, GroupType
    <3> QED
      BY <3>1, CleanSame, Zenon
  <2> QED
    BY <2>1, <2>2, Zenon
<1>4. ASSUME NEW t \in Thread, Lead(t) PROVE Clean(q)
  <2>1. pc[t] = "waiting" /\ batch' = batch /\ \A x \in Thread : pc'[x] = IF x = t THEN "draining" ELSE pc[x]
    BY <1>4, TypeParts, Zenon DEF Lead, ThreadType, group
  <2> QED
    BY <2>1, CleanPc, Zenon
<1>5. ASSUME NEW t \in Thread, Return(t) PROVE Clean(q)
  <2>1. pc[t] = "waiting" /\ batch' = batch /\ \A x \in Thread : pc'[x] = IF x = t THEN "idle" ELSE pc[x]
    BY <1>5, TypeParts, Zenon DEF Return, ThreadType, group
  <2> QED
    BY <2>1, CleanPc, Zenon
<1>6. ASSUME NEW t \in Thread, BeginFails(t) PROVE Clean(q)
  <2>1. pc[t] = "draining" /\ batch' = batch /\ \A x \in Thread : pc'[x] = IF x = t THEN "failed" ELSE pc[x]
    BY <1>6, TypeParts, Zenon DEF BeginFails, ThreadType, group
  <2> QED
    BY <2>1, CleanPc, Zenon
<1>7. ASSUME NEW t \in Thread, Begin(t) PROVE Clean(q)
  <2>1. \A x \in Thread : pc'[x] = IF x = t THEN "commit" ELSE pc[x]
    BY <1>7, TypeParts, Zenon DEF Begin, ThreadType
  <2>2. q # ProcOf[t]
    BY <2>1, Zenon DEF Clean, CutFree
  <2>3. batch'[q] = batch[q]
    BY <1>7, <2>2, TypeParts, Zenon DEF Begin, GroupType
  <2> QED
    BY <2>1, <2>2, <2>3, CleanSame, Zenon
<1>8. ASSUME NEW t \in Thread, InsertFails(t) PROVE Clean(q)
  <2>1. batch' = batch /\ \A x \in Thread : pc'[x] = IF x = t THEN "failed" ELSE pc[x]
    BY <1>8, TypeParts, Zenon DEF InsertFails, ThreadType, group
  <2>2. ProcOf[t] \in Process /\ done[ProcOf[t]] \in Nat /\ batch[ProcOf[t]] \in Seq(Thread) /\ done[ProcOf[t]] < Len(batch[ProcOf[t]])
    BY <1>8, SchedulingFacts, TypeParts, Zenon DEF InsertFails, Validating, GroupType
  <2>3. batch[ProcOf[t]] # <<>>
    BY <2>2, NextOf, Zenon
  <2>4. q # ProcOf[t]
    BY <2>1, <2>3, Zenon DEF Clean, Poisoned
  <2> QED
    BY <2>1, <2>4, CleanSame, Zenon
<1>9. ASSUME NEW t \in Thread, Commit(t) \/ CommitFails(t) \/ Reset(t) PROVE Clean(q) \/ Renewed(q)
  <2>1. CASE ProcOf[t] = q
    BY <1>9, <2>1, Zenon DEF Renewed
  <2>2. CASE ProcOf[t] # q
    <3>1. batch'[q] = batch[q] /\ \A u \in Thread : ProcOf[u] = q => pc'[u] = pc[u]
      BY <1>9, <2>2, TypeParts, Zenon DEF Commit, CommitFails, Reset, group, ThreadType
    <3> QED
      BY <3>1, CleanSame, Zenon
  <2> QED
    BY <2>1, <2>2, Zenon
<1>10. ASSUME NEW t \in Thread, Strand(t) \/ Publish(t) PROVE Clean(q)
  <2>1. /\ pc[t] \in {"strand", "publish"} /\ \A x \in Thread : pc'[x] = IF x = t THEN "waiting" ELSE pc[x]
        /\ \A p \in Process : p # ProcOf[t] => batch'[p] = batch[p]
    BY <1>10, SchedulingFacts, TypeParts, Zenon DEF Strand, Publish, ThreadType, GroupType
  <2>2. CASE q = ProcOf[t]
    <3>1. ~ Poisoned(q)
      BY <2>1, <2>2, WorksAlone, Zenon DEF Working
    <3> QED
      BY <2>1, <3>1, Zenon DEF Clean, CutFree
  <2>3. CASE q # ProcOf[t]
    BY <2>1, <2>3, CleanSame, Zenon
  <2> QED
    BY <2>2, <2>3, Zenon
<1>11. ASSUME NEW t \in Thread, Drain(t) PROVE Clean(q) \/ Renewed(q)
  <2>1. Insert(t) \/ Refuse(t) => UNCHANGED <<pc, batch>>
    BY Zenon DEF Insert, Refuse, threads
  <2> QED
    BY <1>2, <1>4, <1>5, <1>6, <1>7, <1>8, <1>9, <1>10, <1>11, <2>1, Zenon DEF Drain
<1>12. ASSUME NEW t \in Thread, NEW op \in Op, NEW f \in Flow, Mutate(t, op, f) \/ MutateFails(t, op, f) PROVE Clean(q)
  BY <1>2, <1>12, Zenon DEF Mutate, MutateFails, group
<1>13. ASSUME NEW p \in Process, Read(p) \/ Close(p) PROVE Clean(q)
  BY <1>2, <1>13, Zenon DEF Read, Close, group, threads
<1>14. ASSUME UNCHANGED vars PROVE Clean(q)
  BY <1>2, <1>14, Zenon DEF vars, group, threads
<1> QED
  BY <1>1, <1>3, <1>11, <1>12, <1>13, <1>14, Zenon DEF Next

-----------------------------------------------------------------------------
(* The thread has the write transaction open. *)
Committing(u) == pc[u] = "commit"

(* The transaction of every writer stays as it is. *)
LEMMA CommitSame ==
  ASSUME CommitInv, \A u \in Thread : Committing(u)' <=> Committing(u),
         UNCHANGED <<written, events>>,
         \A u \in Thread : Committing(u) => LET p == ProcOf[u] IN
           done'[p] = done[p] /\ batch'[p] = batch[p] /\ applied'[p] = applied[p]
  PROVE  CommitInv'
<1>1. \A t, u \in Thread : pc'[t] = "commit" /\ pc'[u] = "commit" => t = u
  BY Zenon DEF CommitInv, Committing
<1>2. (\A t \in Thread : pc'[t] # "commit") => written' = <<>>
  BY Zenon DEF CommitInv, Committing
<1>3. \A t \in Thread : pc'[t] = "commit" =>
       /\ Len(written') <= done'[ProcOf[t]] /\ done'[ProcOf[t]] <= Len(batch'[ProcOf[t]])
       /\ applied'[ProcOf[t]] = Len(events') + Len(written')
  BY Zenon DEF CommitInv, Committing
<1> QED
  BY <1>1, <1>2, <1>3, Zenon DEF CommitInv

(* No transaction is open after the step. *)
LEMMA CommitEnds ==
  ASSUME \A u \in Thread : ~ Committing(u)', written' = <<>>
  PROVE  CommitInv'
  BY Zenon DEF CommitInv, Committing

(* The process of a writer at work is caught up. *)
LEMMA CaughtToAll ==
  ASSUME TypeOK, BoundInv, NEW p \in Process, Clean(p)
  PROVE  CaughtTo(p) = Len(events) /\ StartOf(p) <= Len(events) /\ StartOf(p) >= applied[p]
<1>1. /\ checkpoint.seq \in Nat /\ applied[p] \in Nat /\ Len(events) \in Nat
  <2>1. checkpoint \in [seq : Nat, view : Seq(Event)] /\ applied \in [Process -> Nat] /\ events \in Seq(Event)
    BY TypeParts, Zenon DEF DiskType, MemoryType
  <2> QED
    BY <2>1
<1>2. checkpoint.seq <= Len(events) /\ applied[p] <= Len(events)
  BY Zenon DEF BoundInv
<1> QED
  BY <1>1, <1>2 DEF CaughtTo, StartOf, Ahead

(* The transaction begins caught up and without rows. *)
LEMMA BeginCommit ==
  ASSUME TypeOK, BatonInv, QueueInv, CommitInv, BoundInv, NEW t \in Thread, Begin(t)
  PROVE  CommitInv'
<1> DEFINE p == ProcOf[t]
<1>0. p \in Process /\ Clean(p) /\ (\A u \in Thread : pc[u] # "commit")
  BY SchedulingFacts, WorksAlone, Zenon DEF Begin, Clean, WriterFree
<1>1. /\ \A x \in Thread : pc'[x] = IF x = t THEN "commit" ELSE pc[x]
      /\ UNCHANGED <<events, written, done>> /\ applied'[p] = CaughtTo(p) /\ batch'[p] = queue[p]
  BY <1>0, TypeParts, Zenon DEF ThreadType, MemoryType, GroupType, Begin, disk
<1>2. done[p] = 0 /\ written = <<>> /\ CaughtTo(p) = Len(events)
  BY <1>0, NothingCaptured, CaughtToAll, Zenon DEF Begin, CommitInv
<1>3. \A x \in Thread : pc'[x] = "commit" <=> x = t
  BY <1>0, <1>1, Zenon
<1>4. Len(queue[p]) \in Nat /\ Len(events) \in Nat
  <2>1. queue[p] \in Seq(Thread) /\ events \in Seq(Event)
    BY <1>0, TypeParts, Zenon DEF GroupType, DiskType
  <2> QED
    BY <2>1
<1>5. /\ Len(written') <= done'[p] /\ done'[p] <= Len(batch'[p])
      /\ applied'[p] = Len(events') + Len(written')
  <2>1. written' = <<>> /\ done'[p] = 0 /\ batch'[p] = queue[p] /\ applied'[p] = Len(events) /\ events' = events
    BY <1>0, <1>1, <1>2, Zenon
  <2> HIDE DEF p
  <2> QED
    BY <1>4, <2>1
<1> QED
  BY <1>3, <1>5, Zenon DEF CommitInv

(* Validation moves on by one item, and by a row if it accepts. *)
LEMMA CountCommit ==
  ASSUME TypeOK, CommitInv, NEW t \in Thread, Insert(t) \/ Refuse(t)
  PROVE  CommitInv'
<1> DEFINE p == ProcOf[t]
<1>0. p \in Process /\ done[p] \in Nat /\ batch[p] \in Seq(Thread) /\ done[p] < Len(batch[p]) /\ pc[t] = "commit"
  BY SchedulingFacts, TypeParts, Zenon DEF Insert, Refuse, Validating, GroupType
<1>1. UNCHANGED <<pc, events, batch>> /\ done'[p] = done[p] + 1
  BY <1>0, TypeParts, Zenon DEF Insert, Refuse, GroupType, threads, disk
<1>2. Len(written) <= done[p] /\ applied[p] = Len(events) + Len(written)
  BY <1>0, Zenon DEF CommitInv
<1>3. \A x \in Thread : pc'[x] = "commit" <=> x = t
  BY <1>0, <1>1, Zenon DEF CommitInv
<1>4. events \in Seq(Event) /\ written \in Seq(Event) /\ Len(events) \in Nat /\ Len(written) \in Nat /\ Len(batch[p]) \in Nat
  <2>1. events \in Seq(Event) /\ written \in Seq(Event)
    BY TypeParts, Zenon DEF DiskType
  <2> QED
    BY <1>0, <2>1
<1>5. \/ written' = written /\ applied'[p] = applied[p]
      \/ Len(written') = Len(written) + 1 /\ applied'[p] = Len(events) + Len(written) + 1
  <2>1. CASE Refuse(t)
    BY <2>1, Zenon DEF Refuse, disk, memory
  <2>2. CASE Insert(t)
    <3>1. call[Item(p)] \in Event
      BY <2>2, ItemType, Zenon DEF Insert
    <3>2. written' = Append(written, call[Item(p)]) /\ applied'[p] = Len(events) + Len(written) + 1
      BY <1>0, <2>2, TypeParts, Zenon DEF Insert, MemoryType
    <3> QED
      BY <1>4, <3>1, <3>2
  <2> QED
    BY <2>1, <2>2, Zenon
<1> HIDE DEF p
<1>6. Len(written') <= done'[p] /\ done'[p] <= Len(batch[p]) /\ applied'[p] = Len(events) + Len(written')
  BY <1>0, <1>1, <1>2, <1>4, <1>5
<1> QED
  BY <1>1, <1>3, <1>6, Zenon DEF CommitInv, p

(* A crash rolls the transaction of its process back. *)
LEMMA CrashCommit == ASSUME TypeOK, CommitInv, NEW p \in Process, Crash(p) PROVE CommitInv'
<1>1. /\ \A x \in Thread : pc'[x] = IF ProcOf[x] = p THEN "idle" ELSE pc[x]
      /\ written' = (IF CutFree(p) THEN written ELSE <<>>) /\ events' = events
  BY Zenon DEF Crash
<1>2. \A q \in Process : q # p => done'[q] = done[q] /\ batch'[q] = batch[q] /\ applied'[q] = applied[q]
  BY TypeParts, Zenon DEF Crash, ResetView, GroupType, MemoryType
<1>3. CASE CutFree(p)
  <2>1. \A u \in Thread : Committing(u)' <=> Committing(u)
    BY <1>1, <1>3, Zenon DEF Committing, CutFree
  <2>2. \A u \in Thread : Committing(u) => ProcOf[u] # p /\ ProcOf[u] \in Process
    BY <1>3, SchedulingFacts, Zenon DEF Committing, CutFree
  <2> QED
    BY <1>1, <1>2, <1>3, <2>1, <2>2, CommitSame, Zenon
<1>4. CASE ~ CutFree(p)
  <2>1. PICK u \in Thread : ProcOf[u] = p /\ pc[u] = "commit"
    BY <1>4, Zenon DEF CutFree
  <2>2. \A x \in Thread : ~ Committing(x)'
    BY <1>1, <2>1, Zenon DEF Committing, CommitInv
  <2> QED
    BY <1>1, <1>4, <2>2, CommitEnds, Zenon
<1> QED
  BY <1>3, <1>4, Zenon

(* The write transaction, over all steps. *)
LEMMA CommitStep ==
  ASSUME TypeOK, BatonInv, QueueInv, CommitInv, BoundInv, [Next]_vars
  PROVE  CommitInv'
<1>1. ASSUME UNCHANGED <<pc, events, written, done, batch, applied>> PROVE CommitInv'
  BY <1>1, CommitSame, Zenon DEF Committing
<1>2. ASSUME NEW t \in Thread, NEW w, w # "commit", pc[t] # "commit", pc' = [pc EXCEPT ![t] = w],
             UNCHANGED <<events, written, done, batch, applied>>
      PROVE  CommitInv'
  <2>1. \A x \in Thread : pc'[x] = IF x = t THEN w ELSE pc[x]
    BY <1>2, TypeParts, Zenon DEF ThreadType
  <2>2. \A u \in Thread : Committing(u)' <=> Committing(u)
    BY <1>2, <2>1, Zenon DEF Committing
  <2> QED
    BY <1>2, <2>2, CommitSame, Zenon
<1>3. ASSUME NEW t \in Thread, NEW op \in Op, NEW f \in Flow, Submit(t, op, f) PROVE CommitInv'
  BY <1>2, <1>3, Zenon DEF Submit, disk, memory
<1>4. ASSUME NEW t \in Thread, NEW op \in Op, NEW f \in Flow, Mutate(t, op, f) \/ MutateFails(t, op, f) PROVE CommitInv'
  <2>1. (\A u \in Thread : pc[u] # "commit") /\ UNCHANGED <<pc, written>>
    BY <1>4, Zenon DEF Mutate, MutateFails, Mutation, WriterFree, disk
  <2> QED
    BY <2>1, CommitEnds, Zenon DEF Committing, CommitInv
<1>5. ASSUME NEW t \in Thread, Lead(t) \/ Return(t) \/ BeginFails(t) PROVE CommitInv'
  BY <1>2, <1>5, Zenon DEF Lead, Return, BeginFails, disk, memory, group
<1>6. ASSUME NEW t \in Thread, Commit(t) \/ CommitFails(t) \/ InsertFails(t) PROVE CommitInv'
  <2>1. written' = <<>> /\ pc[t] = "commit" /\ \E w : w # "commit" /\ pc' = [pc EXCEPT ![t] = w]
    BY <1>6, Zenon DEF Commit, CommitFails, InsertFails, Validating
  <2>2. \A x \in Thread : pc'[x] = "commit" => x # t /\ pc[x] = "commit"
    BY <2>1, TypeParts, Zenon DEF ThreadType
  <2>3. \A x \in Thread : ~ Committing(x)'
    BY <2>1, <2>2, Zenon DEF Committing, CommitInv
  <2> QED
    BY <2>1, <2>3, CommitEnds, Zenon
<1>7. ASSUME NEW t \in Thread, Reset(t) \/ Strand(t) \/ Publish(t) PROVE CommitInv'
  <2>1. /\ pc[t] # "commit" /\ pc[t] \in Working /\ UNCHANGED <<events, written>>
        /\ \E w : w # "commit" /\ pc' = [pc EXCEPT ![t] = w]
    BY <1>7, Zenon DEF Reset, Strand, Publish, Working, disk
  <2>2. \A u \in Thread : Committing(u)' <=> Committing(u)
    BY <2>1, TypeParts, Zenon DEF Committing, ThreadType
  <2>3. \A u \in Thread : Committing(u) => ProcOf[u] # ProcOf[t] /\ ProcOf[u] \in Process
    BY <2>1, OneWorks, SchedulingFacts, Zenon DEF Committing, Working
  <2>4. \A q \in Process : q # ProcOf[t] => done'[q] = done[q] /\ batch'[q] = batch[q] /\ applied'[q] = applied[q]
    <3>1. CASE Reset(t)
      BY <3>1, TypeParts, Zenon DEF Reset, ResetView, group, MemoryType
    <3>2. CASE Strand(t)
      BY <3>2, TypeParts, Zenon DEF Strand, memory, GroupType
    <3>3. CASE Publish(t)
      BY <3>3, TypeParts, Zenon DEF Publish, memory, GroupType
    <3> QED
      BY <1>7, <3>1, <3>2, <3>3, Zenon
  <2> QED
    BY <2>1, <2>2, <2>3, <2>4, CommitSame, Zenon
<1>8. ASSUME NEW p \in Process, Read(p) PROVE CommitInv'
  <2>1. UNCHANGED <<pc, events, written, done, batch>> /\ \A q \in Process : q # p => applied'[q] = applied[q]
    BY <1>8, TypeParts, Zenon DEF Read, MemoryType, group, threads, disk
  <2>2. \A u \in Thread : Committing(u) => ProcOf[u] # p /\ ProcOf[u] \in Process
    BY <1>8, SchedulingFacts, Zenon DEF Committing, CutFree, Read
  <2> QED
    BY <2>1, <2>2, CommitSame, Zenon DEF Committing
<1>9. ASSUME NEW p \in Process, Close(p) PROVE CommitInv'
  BY <1>1, <1>9, Zenon DEF Close, group, threads, disk, memory
<1>10. ASSUME UNCHANGED vars PROVE CommitInv'
  BY <1>1, <1>10, Zenon DEF vars, group, threads, disk, memory
<1>11. ASSUME NEW t \in Thread, Drain(t) PROVE CommitInv'
  BY <1>5, <1>6, <1>7, <1>11, BeginCommit, CountCommit, Zenon DEF Drain
<1> QED
  BY <1>3, <1>4, <1>8, <1>9, <1>10, <1>11, CrashCommit, Zenon DEF Next

-----------------------------------------------------------------------------
(* What a step does to the memory of a process whose view can be relied on after it. *)
LEMMA MemoryStep ==
  ASSUME TypeOK, BatonInv, QueueInv, [Next]_vars, NEW q \in Process, Clean(q)'
  PROVE  \/ Clean(q) /\ view'[q] = view[q] /\ applied'[q] = applied[q] /\ readAt'[q] = readAt[q]
         \/ view'[q] = <<>> /\ applied'[q] = 0 /\ readAt'[q] = Unread
         \/ /\ view'[q] = view[q] /\ applied'[q] = applied[q] /\ readAt'[q] = readAt[q]
            /\ \E t \in Thread : ProcOf[t] = q /\ (Commit(t) \/ CommitFails(t))
         \/ Clean(q) /\ \E t \in Thread, op \in Op, f \in Flow : ProcOf[t] = q /\ Mutate(t, op, f)
         \/ Clean(q) /\ Read(q)
<1> DEFINE Same == view'[q] = view[q] /\ applied'[q] = applied[q] /\ readAt'[q] = readAt[q]
           Fresh == view'[q] = <<>> /\ applied'[q] = 0 /\ readAt'[q] = Unread
<1>1. ASSUME NEW t \in Thread, Reset(t) PROVE IF ProcOf[t] = q THEN Fresh ELSE Same
  BY <1>1, TypeParts, Zenon DEF Reset, ResetView, MemoryType
<1>2. ASSUME NEW p \in Process, Crash(p) PROVE IF p = q THEN Fresh ELSE Same
  BY <1>2, TypeParts, Zenon DEF Crash, ResetView, MemoryType
<1>3. ASSUME NEW t \in Thread, NEW op \in Op, NEW f \in Flow, MutateFails(t, op, f)
      PROVE IF ProcOf[t] = q THEN Fresh ELSE Same
  BY <1>3, TypeParts, Zenon DEF MutateFails, ResetView, MemoryType
<1>4. ASSUME NEW t \in Thread, Commit(t) \/ CommitFails(t) \/ Lead(t) \/ BeginFails(t) \/ Refuse(t) \/ Strand(t)
                               \/ Publish(t) \/ Return(t)
      PROVE  Same
  BY <1>4, Zenon DEF Commit, CommitFails, Lead, BeginFails, Refuse, Strand, Publish, Return, memory
<1>5. ASSUME NEW t \in Thread, Begin(t) \/ Insert(t) \/ InsertFails(t) PROVE Same
  <2>1. ProcOf[t] # q
    <3>1. CASE Begin(t)
      <4>1. pc'[t] = "commit"
        BY <3>1, TypeParts, Zenon DEF Begin, ThreadType
      <4> QED
        BY <4>1, Zenon DEF Clean, CutFree
    <3>2. CASE Insert(t)
      <4>1. pc'[t] = "commit"
        BY <3>2, Zenon DEF Insert, Validating, threads
      <4> QED
        BY <4>1, Zenon DEF Clean, CutFree
    <3>3. CASE InsertFails(t)
      <4>1. batch' = batch /\ pc'[t] = "failed"
        BY <3>3, TypeParts, Zenon DEF InsertFails, ThreadType, group
      <4>2. ProcOf[t] \in Process /\ done[ProcOf[t]] \in Nat /\ batch[ProcOf[t]] \in Seq(Thread) /\ done[ProcOf[t]] < Len(batch[ProcOf[t]])
        BY <3>3, SchedulingFacts, TypeParts, Zenon DEF InsertFails, Validating, GroupType
      <4>3. batch[ProcOf[t]] # <<>>
        BY <4>2, NextOf, Zenon
      <4> QED
        BY <4>1, <4>3, Zenon DEF Clean, Poisoned
    <3> QED
      BY <1>5, <3>1, <3>2, <3>3, Zenon
  <2> QED
    BY <1>5, <2>1, TypeParts, Zenon DEF Begin, Insert, InsertFails, MemoryType
<1>6. ASSUME NEW t \in Thread, NEW op \in Op, NEW f \in Flow, Submit(t, op, f) PROVE Same
  BY <1>6, Zenon DEF Submit, memory
<1>7. ASSUME NEW t \in Thread, NEW op \in Op, NEW f \in Flow, Mutate(t, op, f)
      PROVE  (ProcOf[t] # q => Same) /\ UNCHANGED <<pc, batch>>
  BY <1>7, TypeParts, Zenon DEF Mutate, MemoryType, group
<1>8. ASSUME NEW p \in Process, Read(p) PROVE (p # q => Same) /\ UNCHANGED <<pc, batch>>
  BY <1>8, TypeParts, Zenon DEF Read, MemoryType, group, threads
<1>9. ASSUME NEW p \in Process, Close(p) PROVE Same
  BY <1>9, Zenon DEF Close, memory
<1>10. ASSUME UNCHANGED vars PROVE Same
  BY <1>10, Zenon DEF vars, memory
<1>11. UNCHANGED <<pc, batch>> => Clean(q)
  BY CleanSame, Zenon
<1>12. Clean(q) \/ Renewed(q)
  BY CleanBack, Zenon
<1>13. Renewed(q) => Fresh \/ (Same /\ \E t \in Thread : ProcOf[t] = q /\ (Commit(t) \/ CommitFails(t)))
  BY <1>1, <1>2, <1>4, Zenon DEF Renewed
<1>14. ASSUME NEW t \in Thread, Drain(t) PROVE Same \/ Fresh
  BY <1>1, <1>4, <1>5, <1>14, Zenon DEF Drain
<1>15. \/ Same \/ Fresh \/ (Clean(q) /\ Read(q))
       \/ Clean(q) /\ \E t \in Thread, op \in Op, f \in Flow : ProcOf[t] = q /\ Mutate(t, op, f)
  <2>1. ASSUME NEW t \in Thread, NEW op \in Op, NEW f \in Flow, Mutate(t, op, f), ~ Same
        PROVE  Clean(q) /\ ProcOf[t] = q
    BY <1>7, <1>11, <2>1, Zenon
  <2>2. ASSUME NEW p \in Process, Read(p), ~ Same PROVE Clean(q) /\ Read(q)
    BY <1>8, <1>11, <2>2, Zenon
  <2> QED
    BY <1>2, <1>3, <1>6, <1>9, <1>10, <1>14, <2>1, <2>2, Zenon DEF Next
<1> QED
  BY <1>12, <1>13, <1>15, Zenon

(* Who stores a checkpoint, and what is in it. *)
LEMMA CheckpointStep ==
  ASSUME [Next]_vars, checkpoint' # checkpoint
  PROVE  \/ \E t \in Thread : Commit(t) /\ checkpoint' = [seq |-> applied[ProcOf[t]], view |-> view[ProcOf[t]]]
         \/ \E t \in Thread, op \in Op, f \in Flow :
              /\ Mutate(t, op, f) /\ (Poisoned(ProcOf[t]) => spoilt')
              /\ checkpoint' = [seq |-> Len(events) + 1, view |-> Append(Caught(ProcOf[t]), MutationOf(t, op, f))]
<1>1. ASSUME NEW t \in Thread, Drain(t) PROVE Commit(t)
  BY <1>1, Zenon DEF Drain, Lead, Begin, BeginFails, Insert, Refuse, InsertFails, CommitFails, Reset, Strand,
                     Publish, Return, disk
<1>2. ASSUME NEW t \in Thread, Commit(t) PROVE checkpoint' = [seq |-> applied[ProcOf[t]], view |-> view[ProcOf[t]]]
  BY <1>2, Zenon DEF Commit, StoreCheckpoint
<1>3. ASSUME NEW t \in Thread, NEW op \in Op, NEW f \in Flow, Mutate(t, op, f)
      PROVE  /\ Poisoned(ProcOf[t]) => spoilt'
             /\ checkpoint' = [seq |-> Len(events) + 1, view |-> Append(Caught(ProcOf[t]), MutationOf(t, op, f))]
  BY <1>3, Zenon DEF Mutate, StoreCheckpoint
<1>4. ASSUME NEW t \in Thread, NEW op \in Op, NEW f \in Flow PROVE ~ Submit(t, op, f) /\ ~ MutateFails(t, op, f)
  BY Zenon DEF Submit, MutateFails, disk
<1>5. ASSUME NEW p \in Process PROVE ~ Read(p) /\ ~ Close(p) /\ ~ Crash(p)
  BY Zenon DEF Read, Close, Crash, disk
<1>6. ~ UNCHANGED vars
  BY Zenon DEF vars, disk
<1> QED
  BY <1>1, <1>2, <1>3, <1>4, <1>5, <1>6, Zenon DEF Next

(* What _mutation writes, and what it leaves in memory. *)
LEMMA MutateWrites ==
  ASSUME TypeOK, NEW t \in Thread, NEW op \in Op, NEW f \in Flow, Mutate(t, op, f)
  PROVE  /\ events' = Append(events, MutationOf(t, op, f)) /\ Len(events') = Len(events) + 1
         /\ view'[ProcOf[t]] = Append(Caught(ProcOf[t]), MutationOf(t, op, f))
         /\ applied'[ProcOf[t]] = Len(events) + 1 /\ readAt'[ProcOf[t]] = Len(events)
<1>1. /\ events' = Append(events, MutationOf(t, op, f))
      /\ view'[ProcOf[t]] = Append(Caught(ProcOf[t]), MutationOf(t, op, f))
      /\ applied'[ProcOf[t]] = Len(events) + 1 /\ readAt'[ProcOf[t]] = Len(events)
  BY SchedulingFacts, TypeParts, Zenon DEF Mutate, MemoryType
<1>2. events \in Seq(Event) /\ MutationOf(t, op, f) \in Event
  BY TypeParts, MutationType, Zenon DEF DiskType, Mutate
<1>3. Len(events') = Len(events) + 1
  BY <1>1, <1>2
<1> QED
  BY <1>1, <1>3, Zenon

(* The mutation and its event. *)
LEMMA MutateMemory ==
  ASSUME TypeOK, NEW t \in Thread, NEW op \in Op, NEW f \in Flow, Mutate(t, op, f)
  PROVE  LET p == ProcOf[t]
             e == MutationOf(t, op, f) IN
         /\ e \in Event /\ e.nr = calls + 1 /\ e.thread = t /\ e.flow = f /\ e.op = op
         /\ events' = Append(events, e) /\ Len(events') = Len(events) + 1 /\ written' = written
         /\ view'[p] = Append(Caught(p), e) /\ applied'[p] = Len(events) + 1 /\ readAt'[p] = Len(events)
<1> DEFINE p == ProcOf[t]
           e == MutationOf(t, op, f)
<1>1. e \in Event /\ e.nr = calls + 1 /\ e.thread = t /\ e.flow = f /\ e.op = op
  BY MutationType, Zenon DEF Mutate, MutationOf
<1>2. /\ events' = Append(events, e) /\ Len(events') = Len(events) + 1 /\ view'[p] = Append(Caught(p), e)
      /\ applied'[p] = Len(events) + 1 /\ readAt'[p] = Len(events)
  BY MutateWrites, Zenon
<1>3. written' = written
  BY Zenon DEF Mutate
<1> QED
  BY <1>1, <1>2, <1>3, Zenon

(* What _read_cut leaves in memory. *)
LEMMA ReadMemory ==
  ASSUME TypeOK, NEW p \in Process, Read(p)
  PROVE  \E n \in StartOf(p) .. CaughtTo(p) :
           /\ events' = events /\ view'[p] = CaughtUpTo(p, n) /\ applied'[p] = n
           /\ readAt'[p] = IF n < Len(events) THEN readAt[p] ELSE Len(events)
  BY TypeParts, Zenon DEF Read, MemoryType, disk

(* The commit makes the open transaction the journal. *)
LEMMA CommitMemory ==
  ASSUME TypeOK, CommitInv, NEW t \in Thread, Commit(t)
  PROVE  LET p == ProcOf[t] IN
         /\ events' = Journal /\ written' = <<>> /\ Journal \in Seq(Event) /\ Len(Journal) = applied[p] /\ Journal' = Journal
<1>1. events' = Journal /\ written' = <<>> /\ pc[t] = "commit"
  BY Zenon DEF Commit, Journal
<1>2. events \in Seq(Event) /\ written \in Seq(Event)
  BY TypeParts, Zenon DEF DiskType
<1>3. Journal \in Seq(Event) /\ Len(Journal) = Len(events) + Len(written)
  BY <1>2, Grown, Zenon DEF Journal
<1>4. Journal' = Journal
  BY <1>1, <1>3 DEF Journal
<1> QED
  BY <1>1, <1>3, <1>4, Zenon DEF CommitInv

(* A failed commit leaves a view to rely on only if there was nothing to commit. *)
LEMMA EmptyCommit ==
  ASSUME TypeOK, CommitInv, NEW t \in Thread, CommitFails(t), Clean(ProcOf[t])'
  PROVE  written = <<>> /\ applied[ProcOf[t]] = Len(events) /\ events' = events
<1> DEFINE p == ProcOf[t]
<1>1. pc[t] = "commit" /\ batch' = batch /\ events' = events /\ pc'[t] = "failed"
  BY TypeParts, Zenon DEF CommitFails, ThreadType, group
<1>2. batch[p] = <<>>
  BY <1>1, Zenon DEF Clean, Poisoned
<1>3. /\ Len(written) <= done[p] /\ done[p] <= Len(batch[p])
      /\ applied[p] = Len(events) + Len(written)
  BY <1>1, Zenon DEF CommitInv
<1>4. written \in Seq(Event) /\ events \in Seq(Event) /\ done[p] \in Nat
  BY SchedulingFacts, TypeParts, Zenon DEF DiskType, GroupType
<1> HIDE DEF p
<1>5. written = <<>> /\ applied[p] = Len(events)
  BY <1>2, <1>3, <1>4
<1> QED
  BY <1>1, <1>5, Zenon DEF p

(* How far checkpoint and views go, over all steps. *)
LEMMA BoundStep ==
  ASSUME TypeOK, TypeOK', BatonInv, QueueInv, CommitInv, BoundInv, [Next]_vars
  PROVE  BoundInv'
<1>0. /\ Len(events) \in Nat /\ Len(events') \in Nat /\ Len(events) <= Len(events')
      /\ checkpoint.seq \in Nat /\ \A p \in Process : applied[p] \in Nat
  <2>1. checkpoint \in [seq : Nat, view : Seq(Event)] /\ applied \in [Process -> Nat]
    BY TypeParts, Zenon DEF DiskType, MemoryType
  <2>2. checkpoint.seq \in Nat
    BY <2>1, Zenon
  <2> QED
    BY <2>1, <2>2, NothingLost, Zenon
<1>1. checkpoint'.seq <= Len(events')
  <2>1. CASE checkpoint' = checkpoint
    <3>1. checkpoint.seq <= Len(events)
      BY Zenon DEF BoundInv
    <3> QED
      BY <1>0, <2>1, <3>1
  <2>2. CASE checkpoint' # checkpoint
    <3>1. ASSUME NEW t \in Thread, Commit(t), checkpoint' = [seq |-> applied[ProcOf[t]], view |-> view[ProcOf[t]]]
          PROVE  checkpoint'.seq = Len(events')
      BY <3>1, CommitMemory, Zenon
    <3>2. ASSUME NEW t \in Thread, NEW op \in Op, NEW f \in Flow, Mutate(t, op, f),
                 checkpoint' = [seq |-> Len(events) + 1, view |-> Append(Caught(ProcOf[t]), MutationOf(t, op, f))]
          PROVE  checkpoint'.seq = Len(events')
      BY <3>2, MutateMemory, Zenon
    <3>3. checkpoint'.seq = Len(events')
      BY <2>2, <3>1, <3>2, CheckpointStep, Zenon
    <3> QED
      BY <1>0, <3>3
  <2> QED
    BY <2>1, <2>2, Zenon
<1>2. ASSUME NEW q \in Process, Clean(q)' PROVE applied'[q] <= Len(events')
  <2>1. CASE Clean(q) /\ applied'[q] = applied[q]
    <3>1. applied[q] <= Len(events)
      BY <2>1, Zenon DEF BoundInv
    <3> QED
      BY <1>0, <2>1, <3>1
  <2>2. CASE applied'[q] = 0
    BY <1>0, <2>2
  <2>3. ASSUME NEW t \in Thread, ProcOf[t] = q, Commit(t), applied'[q] = applied[q] PROVE applied'[q] <= Len(events')
    <3>1. applied'[q] = Len(events')
      BY <2>3, CommitMemory, Zenon
    <3> QED
      BY <1>0, <3>1
  <2>4. ASSUME NEW t \in Thread, ProcOf[t] = q, CommitFails(t), applied'[q] = applied[q] PROVE applied'[q] <= Len(events')
    <3>1. applied'[q] = Len(events')
      BY <1>2, <2>4, EmptyCommit, Zenon
    <3> QED
      BY <1>0, <3>1
  <2>5. ASSUME NEW t \in Thread, NEW op \in Op, NEW f \in Flow, ProcOf[t] = q, Mutate(t, op, f) PROVE applied'[q] <= Len(events')
    <3>1. applied'[q] = Len(events')
      BY <2>5, MutateMemory, Zenon
    <3> QED
      BY <1>0, <3>1
  <2>6. ASSUME Clean(q), Read(q) PROVE applied'[q] <= Len(events')
    <3>1. CaughtTo(q) = Len(events) /\ StartOf(q) \in Nat
      BY <2>6, CaughtToAll, StartType, Zenon
    <3>2. PICK n \in StartOf(q) .. CaughtTo(q) : events' = events /\ applied'[q] = n
      BY <2>6, ReadMemory, Zenon
    <3> QED
      BY <1>0, <3>1, <3>2
  <2> QED
    BY <1>2, <2>1, <2>2, <2>3, <2>4, <2>5, <2>6, MemoryStep, Zenon
<1> QED
  BY <1>1, <1>2, Zenon DEF BoundInv

-----------------------------------------------------------------------------
(* Calls, and the events that come of them. *)
LEMMA Newer ==
  ASSUME NEW c \in Nat, NEW n \in Nat, n <= c
  PROVE  n <= c + 1 /\ n # c + 1 /\ c + 1 # n /\ c + 1 <= c + 1
  OBVIOUS

(* Transition numbers are numbers. *)
LEMMA NumberTypes ==
  ASSUME TypeOK
  PROVE  /\ calls \in Nat /\ calls + 1 <= calls + 1 /\ \A x \in Thread : call[x] \in Event /\ call[x].nr \in Nat
         /\ \A a \in answered : a.event \in Event /\ a.event.nr \in Nat /\ a.ok \in BOOLEAN
<1>1. call \in [Thread -> Event] /\ calls \in 0..MaxCalls /\ answered \subseteq [event : Event, ok : BOOLEAN]
  BY TypeParts, Zenon DEF CallType
<1>2. calls \in Nat /\ calls + 1 <= calls + 1
  BY <1>1, SchedulingAssumption
<1>3. \A e \in Event : e.nr \in Nat
  BY Zenon DEF Event
<1>4. \A x \in Thread : call[x] \in Event
  BY <1>1, Zenon
<1>5. \A a \in answered : a.event \in Event /\ a.ok \in BOOLEAN
  BY <1>1, Zenon
<1> QED
  BY <1>2, <1>3, <1>4, <1>5, Zenon

(* Nobody calls and nobody is told. *)
LEMMA CallSame ==
  ASSUME CallInv, \A x \in Thread : Active(x)' <=> Active(x), UNCHANGED <<call, own, calls, answered>>
  PROVE  CallInv'
<1>1. \A t \in Thread : Active(t)' =>
       /\ call'[t].thread = t /\ call'[t].nr <= calls' /\ call'[t].op \in {"grant", "completion"}
       /\ call'[t].op = "completion" <=> call'[t].flow \in own'[t]
  BY Zenon DEF CallInv
<1>2. \A t, u \in Thread : Active(t)' /\ Active(u)' /\ call'[t].nr = call'[u].nr => t = u
  BY Zenon DEF CallInv
<1>3. \A a \in answered' : /\ a.event.nr <= calls'
                           /\ \A t \in Thread : Active(t)' => call'[t].nr # a.event.nr
  BY Zenon DEF CallInv
<1> QED
  BY <1>1, <1>2, <1>3, Zenon DEF CallInv

(* CallInv, for one thread. *)
LEMMA CallOf ==
  ASSUME CallInv, NEW x \in Thread, Active(x)
  PROVE  /\ call[x].thread = x /\ call[x].nr <= calls /\ call[x].op \in {"grant", "completion"}
         /\ call[x].op = "completion" <=> call[x].flow \in own[x]
  BY Zenon DEF CallInv

(* A new transition has a new number. *)
LEMMA SubmitCall ==
  ASSUME TypeOK, CallInv, NEW t \in Thread, NEW op \in Op, NEW f \in Flow, Submit(t, op, f)
  PROVE  CallInv'
<1> DEFINE e == [op |-> op, flow |-> f, thread |-> t, nr |-> calls + 1]
<1>1. /\ pc[t] = "idle" /\ op \in {"grant", "completion"} /\ (op = "completion" <=> f \in own[t])
      /\ calls' = calls + 1 /\ UNCHANGED <<own, answered>>
      /\ \A x \in Thread : pc'[x] = IF x = t THEN "waiting" ELSE pc[x]
  BY TypeParts, Zenon DEF Submit, ThreadType
<1>2. \A x \in Thread : call'[x] = IF x = t THEN e ELSE call[x]
  BY TypeParts, Zenon DEF Submit, CallType
<1>3. e.op = op /\ e.flow = f /\ e.thread = t /\ e.nr = calls + 1
  BY Zenon
<1> HIDE DEF e
<1>4. \A x \in Thread : Active(x)' <=> (x = t \/ Active(x))
  BY <1>1, Zenon DEF Active
<1>5. \A x \in Thread : Active(x) => x # t /\ call[x].nr <= calls + 1 /\ call[x].nr # calls + 1
  BY <1>1, CallOf, NumberTypes, Newer, Zenon DEF Active
<1>6. \A x \in Thread : Active(x)' =>
       /\ call'[x].thread = x /\ call'[x].nr <= calls' /\ call'[x].op \in {"grant", "completion"}
       /\ call'[x].op = "completion" <=> call'[x].flow \in own'[x]
  <2> SUFFICES ASSUME NEW x \in Thread, Active(x)'
               PROVE  /\ call'[x].thread = x /\ call'[x].nr <= calls' /\ call'[x].op \in {"grant", "completion"}
                      /\ call'[x].op = "completion" <=> call'[x].flow \in own'[x]
    BY Zenon
  <2>1. CASE x = t
    BY <1>1, <1>2, <1>3, <2>1, NumberTypes, Zenon
  <2>2. CASE x # t
    <3>1. Active(x) /\ call'[x] = call[x] /\ own' = own /\ calls' = calls + 1
      BY <1>1, <1>2, <1>4, <2>2, Zenon
    <3> QED
      BY <1>5, <3>1, CallOf, Zenon
  <2> QED
    BY <2>1, <2>2, Zenon
<1>7. \A x, u \in Thread : Active(x)' /\ Active(u)' /\ call'[x].nr = call'[u].nr => x = u
  <2> SUFFICES ASSUME NEW x \in Thread, NEW u \in Thread, Active(x)', Active(u)', call'[x].nr = call'[u].nr PROVE x = u
    BY Zenon
  <2>1. CASE x = t /\ u # t
    BY <1>2, <1>3, <1>4, <1>5, <2>1, Zenon
  <2>2. CASE x # t /\ u = t
    BY <1>2, <1>3, <1>4, <1>5, <2>2, Zenon
  <2>3. CASE x # t /\ u # t
    BY <1>2, <1>4, <2>3, Zenon DEF CallInv
  <2> QED
    BY <2>1, <2>2, <2>3, Zenon
<1>8. \A a \in answered' : /\ a.event.nr <= calls'
                           /\ \A x \in Thread : Active(x)' => call'[x].nr # a.event.nr
  <2> SUFFICES ASSUME NEW a \in answered, NEW x \in Thread
               PROVE  a.event.nr <= calls' /\ (Active(x)' => call'[x].nr # a.event.nr)
    BY <1>1, Zenon
  <2>1. a.event.nr <= calls /\ (Active(x) => call[x].nr # a.event.nr)
    BY Zenon DEF CallInv
  <2>2. a.event.nr <= calls + 1 /\ a.event.nr # calls + 1
    BY <2>1, NumberTypes, Newer, Zenon
  <2> QED
    BY <1>1, <1>2, <1>3, <1>4, <2>1, <2>2, Zenon
<1> QED
  BY <1>6, <1>7, <1>8, Zenon DEF CallInv

(* Being told changes what the told thread owns. *)
LEMMA TellOthers ==
  ASSUME TypeOK, NEW t \in Thread, NEW e, NEW ok, Tell(t, e, ok)
  PROVE  /\ answered' = answered \cup {[event |-> e, ok |-> ok]}
         /\ \A x \in Thread : x # t => own'[x] = own[x]
  BY TypeParts, Zenon DEF Tell, CallType

(* The receipt is told to its caller. *)
LEMMA ReturnCall == ASSUME TypeOK, CallInv, NEW t \in Thread, Return(t) PROVE CallInv'
<1>0. call[t] \in Event /\ (receipt[t] = "ok") \in BOOLEAN
  BY NumberTypes, Zenon
<1>1. /\ Active(t) /\ calls' = calls /\ \A x \in Thread : pc'[x] = IF x = t THEN "idle" ELSE pc[x]
      /\ \A x \in Thread : x # t => call'[x] = call[x]
  BY TypeParts, Zenon DEF Return, ThreadType, CallType, Active
<1>2. /\ answered' = answered \cup {[event |-> call[t], ok |-> (receipt[t] = "ok")]}
      /\ \A x \in Thread : x # t => own'[x] = own[x]
  <2>1. Tell(t, call[t], receipt[t] = "ok")
    BY Zenon DEF Return
  <2> QED
    BY <2>1, TellOthers, Zenon
<1>3. \A x \in Thread : Active(x)' <=> (x # t /\ Active(x))
  BY <1>1, Zenon DEF Active
<1>4. \A x \in Thread : Active(x)' =>
       /\ call'[x].thread = x /\ call'[x].nr <= calls' /\ call'[x].op \in {"grant", "completion"}
       /\ call'[x].op = "completion" <=> call'[x].flow \in own'[x]
  BY <1>1, <1>2, <1>3, CallOf, Zenon
<1>5. \A x, u \in Thread : Active(x)' /\ Active(u)' /\ call'[x].nr = call'[u].nr => x = u
  BY <1>1, <1>3, Zenon DEF CallInv
<1>6. \A a \in answered' : /\ a.event.nr <= calls'
                           /\ \A x \in Thread : Active(x)' => call'[x].nr # a.event.nr
  <2> SUFFICES ASSUME NEW a \in answered', NEW x \in Thread
               PROVE  a.event.nr <= calls /\ (Active(x)' => call[x].nr # a.event.nr)
    BY <1>1, <1>3, Zenon
  <2>1. CASE a \in answered
    BY <1>3, <2>1, Zenon DEF CallInv
  <2>2. CASE a = [event |-> call[t], ok |-> (receipt[t] = "ok")]
    <3>1. a.event = call[t]
      BY <2>2, Zenon
    <3> QED
      BY <1>1, <1>3, <3>1, CallOf, Zenon DEF CallInv
  <2> QED
    BY <1>2, <2>1, <2>2, Zenon
<1> QED
  BY <1>4, <1>5, <1>6, Zenon DEF CallInv

(* _mutation tells its caller at once. *)
LEMMA MutateCall ==
  ASSUME TypeOK, CallInv, NEW t \in Thread, NEW op \in Op, NEW f \in Flow, Mutate(t, op, f) \/ MutateFails(t, op, f)
  PROVE  CallInv'
<1> DEFINE e == MutationOf(t, op, f)
<1>1. /\ pc[t] = "idle" /\ calls' = calls + 1 /\ UNCHANGED <<pc, call>>
      /\ \E ok \in BOOLEAN : Tell(t, e, ok)
  BY Zenon DEF Mutate, MutateFails, Mutation
<1>2. e \in Event /\ e.nr = calls + 1
  BY MutationType, Zenon DEF Mutate, MutateFails, MutationOf
<1> HIDE DEF e
<1>3. PICK ok \in BOOLEAN : /\ answered' = answered \cup {[event |-> e, ok |-> ok]}
                            /\ \A x \in Thread : x # t => own'[x] = own[x]
  <2>1. PICK ok \in BOOLEAN : Tell(t, e, ok)
    BY <1>1, Zenon
  <2> QED
    BY <2>1, TellOthers, Zenon
<1>4. \A x \in Thread : (Active(x)' <=> Active(x)) /\ (Active(x) => x # t)
  BY <1>1, Zenon DEF Active
<1>5. \A x \in Thread : Active(x) => call[x].nr <= calls + 1 /\ call[x].nr # calls + 1
  BY CallOf, NumberTypes, Newer, Zenon
<1>6. \A x \in Thread : Active(x)' =>
       /\ call'[x].thread = x /\ call'[x].nr <= calls' /\ call'[x].op \in {"grant", "completion"}
       /\ call'[x].op = "completion" <=> call'[x].flow \in own'[x]
  BY <1>1, <1>3, <1>4, <1>5, CallOf, Zenon
<1>7. \A x, u \in Thread : Active(x)' /\ Active(u)' /\ call'[x].nr = call'[u].nr => x = u
  BY <1>1, <1>4, Zenon DEF CallInv
<1>8. \A a \in answered' : /\ a.event.nr <= calls'
                           /\ \A x \in Thread : Active(x)' => call'[x].nr # a.event.nr
  <2> SUFFICES ASSUME NEW a \in answered', NEW x \in Thread
               PROVE  a.event.nr <= calls + 1 /\ (Active(x) => call[x].nr # a.event.nr)
    BY <1>1, <1>4, Zenon
  <2>1. CASE a \in answered
    <3>1. a.event.nr <= calls /\ (Active(x) => call[x].nr # a.event.nr)
      BY <2>1, Zenon DEF CallInv
    <3> QED
      BY <2>1, <3>1, NumberTypes, Newer, Zenon
  <2>2. CASE a = [event |-> e, ok |-> ok]
    <3>1. a.event = e
      BY <2>2, Zenon
    <3> QED
      BY <1>2, <1>5, <3>1, NumberTypes, Zenon
  <2> QED
    BY <1>3, <2>1, <2>2, Zenon
<1> QED
  BY <1>6, <1>7, <1>8, Zenon DEF CallInv

(* The calls of a crashed process are gone. *)
LEMMA CrashCall == ASSUME TypeOK, CallInv, NEW p \in Process, Crash(p) PROVE CallInv'
<1>1. /\ \A x \in Thread : pc'[x] = IF ProcOf[x] = p THEN "idle" ELSE pc[x]
      /\ \A x \in Thread : ProcOf[x] # p => call'[x] = call[x] /\ own'[x] = own[x]
      /\ UNCHANGED <<calls, answered>>
  BY Zenon DEF Crash
<1>2. \A x \in Thread : Active(x)' <=> (ProcOf[x] # p /\ Active(x))
  BY <1>1, Zenon DEF Active
<1>3. \A x \in Thread : Active(x)' =>
       /\ call'[x].thread = x /\ call'[x].nr <= calls' /\ call'[x].op \in {"grant", "completion"}
       /\ call'[x].op = "completion" <=> call'[x].flow \in own'[x]
  BY <1>1, <1>2, CallOf, Zenon
<1>4. \A x, u \in Thread : Active(x)' /\ Active(u)' /\ call'[x].nr = call'[u].nr => x = u
  <2>1. \A x \in Thread : Active(x)' => Active(x) /\ call'[x] = call[x]
    BY <1>1, <1>2, Zenon
  <2> QED
    BY <2>1, Zenon DEF CallInv
<1>5. \A a \in answered' : /\ a.event.nr <= calls'
                           /\ \A x \in Thread : Active(x)' => call'[x].nr # a.event.nr
  <2>1. \A x \in Thread : Active(x)' => Active(x) /\ call'[x] = call[x]
    BY <1>1, <1>2, Zenon
  <2>2. \A a \in answered : a.event.nr <= calls /\ \A x \in Thread : Active(x) => call[x].nr # a.event.nr
    BY Zenon DEF CallInv
  <2>3. answered' = answered /\ calls' = calls
    BY <1>1, Zenon
  <2> QED
    BY <2>1, <2>2, <2>3, Zenon
<1> QED
  BY <1>3, <1>4, <1>5, Zenon DEF CallInv

(* Transition numbers, over all steps. *)
LEMMA CallStep == ASSUME TypeOK, CallInv, [Next]_vars PROVE CallInv'
<1>1. ASSUME NEW t \in Thread, NEW w, pc[t] # "idle", w # "idle", pc' = [pc EXCEPT ![t] = w],
             UNCHANGED <<call, own, calls, answered>>
      PROVE  CallInv'
  <2>1. \A x \in Thread : Active(x)' <=> Active(x)
    BY <1>1, TypeParts, Zenon DEF Active, ThreadType
  <2> QED
    BY <1>1, <2>1, CallSame, Zenon
<1>2. ASSUME UNCHANGED <<pc, call, own, calls, answered>> PROVE CallInv'
  BY <1>2, CallSame, Zenon DEF Active
<1>3. ASSUME NEW t \in Thread, Lead(t) \/ Begin(t) \/ BeginFails(t) \/ InsertFails(t) \/ Commit(t) \/ CommitFails(t)
                               \/ Reset(t) \/ Strand(t) \/ Publish(t)
      PROVE  CallInv'
  <2>1. pc[t] # "idle" /\ \E w : w # "idle" /\ pc' = [pc EXCEPT ![t] = w]
    BY <1>3, Zenon DEF Lead, Begin, BeginFails, InsertFails, Commit, CommitFails, Reset, Strand, Publish, Validating
  <2>2. UNCHANGED <<call, own, calls, answered>>
    BY <1>3, Zenon DEF Lead, Begin, BeginFails, InsertFails, Commit, CommitFails, Reset, Strand, Publish
  <2> QED
    BY <1>1, <2>1, <2>2, Zenon
<1>4. ASSUME NEW t \in Thread, Insert(t) \/ Refuse(t) PROVE CallInv'
  BY <1>2, <1>4, Zenon DEF Insert, Refuse, threads
<1>5. ASSUME NEW p \in Process, Read(p) \/ Close(p) PROVE CallInv'
  BY <1>2, <1>5, Zenon DEF Read, Close, threads
<1>6. ASSUME UNCHANGED vars PROVE CallInv'
  BY <1>2, <1>6, Zenon DEF vars, threads
<1> QED
  BY <1>3, <1>4, <1>5, <1>6, SubmitCall, ReturnCall, MutateCall, CrashCall, Zenon DEF Next, Drain
-----------------------------------------------------------------------------
(* Where the events of the calls are. *)
LEMMA Concatenated ==
  ASSUME NEW v \in Seq(Event), NEW w \in Seq(Event)
  PROVE  /\ \A i \in DOMAIN v : i \in DOMAIN (v \o w) /\ (v \o w)[i] = v[i]
         /\ \A j \in DOMAIN w : /\ Len(v) + j \in DOMAIN (v \o w) /\ (v \o w)[Len(v) + j] = w[j]
                                /\ Len(v) + j \notin DOMAIN v
         /\ w = <<>> => v \o w = v
  OBVIOUS

(* The journal with and without the open transaction. *)
LEMMA JournalParts ==
  ASSUME TypeOK
  PROVE  /\ events \in Seq(Event) /\ written \in Seq(Event) /\ Journal \in Seq(Event)
         /\ \A e : Has(events, e) \/ Has(written, e) => Has(Journal, e)
         /\ \A n : Occurs(events, n) => Occurs(Journal, n)
         /\ written = <<>> => Journal = events
         /\ \A c : Numbered(Journal, c) => Numbered(events, c)
         /\ \A c, e : Numbered(Journal, c) /\ Has(written, e) => ~ Occurs(events, e.nr)
<1>1. events \in Seq(Event) /\ written \in Seq(Event)
  BY TypeParts, Zenon DEF DiskType
<1>2. /\ \A i \in DOMAIN events : i \in DOMAIN Journal /\ Journal[i] = events[i]
      /\ \A j \in DOMAIN written : /\ Len(events) + j \in DOMAIN Journal /\ Journal[Len(events) + j] = written[j]
                                   /\ Len(events) + j \notin DOMAIN events
      /\ written = <<>> => Journal = events
  BY <1>1, Concatenated, Zenon DEF Journal
<1>3. Journal \in Seq(Event)
  BY <1>1, Grown, Zenon DEF Journal
<1>4. \A e : Has(events, e) \/ Has(written, e) => Has(Journal, e)
  BY <1>2, Zenon DEF Has
<1>5. \A n : Occurs(events, n) => Occurs(Journal, n)
  BY <1>2, Zenon DEF Occurs
<1>6. \A c : Numbered(Journal, c) => Numbered(events, c)
  <2> SUFFICES ASSUME NEW c, Numbered(Journal, c) PROVE Numbered(events, c)
    BY Zenon
  <2>1. \A i \in DOMAIN events : events[i].nr <= c
    BY <1>2, Zenon DEF Numbered
  <2>2. \A i, j \in DOMAIN events : events[i].nr = events[j].nr => i = j
    <3> SUFFICES ASSUME NEW i \in DOMAIN events, NEW j \in DOMAIN events, events[i].nr = events[j].nr PROVE i = j
      BY Zenon
    <3>1. i \in DOMAIN Journal /\ j \in DOMAIN Journal /\ Journal[i].nr = Journal[j].nr
      BY <1>2, Zenon
    <3> QED
      BY <3>1, Zenon DEF Numbered
  <2> QED
    BY <2>1, <2>2, Zenon DEF Numbered
<1>7. ASSUME NEW c, NEW e, Numbered(Journal, c), Has(written, e), Occurs(events, e.nr) PROVE FALSE
  <2>1. PICK j \in DOMAIN written : written[j] = e
    BY <1>7, Zenon DEF Has
  <2>2. PICK i \in DOMAIN events : events[i].nr = e.nr
    BY <1>7, Zenon DEF Occurs
  <2> DEFINE k == Len(events) + j
  <2>3. k \in DOMAIN Journal /\ Journal[k] = e /\ i \in DOMAIN Journal /\ Journal[i] = events[i]
    BY <1>2, <2>1, Zenon
  <2>4. k \notin DOMAIN events
    BY <1>2, Zenon
  <2> HIDE DEF k
  <2>5. k = i
    BY <1>7, <2>2, <2>3, Zenon DEF Numbered
  <2> QED
    BY <2>4, <2>5, Zenon
<1> QED
  BY <1>1, <1>2, <1>3, <1>4, <1>5, <1>6, <1>7, Zenon

LEMMA AppendedFacts ==
  ASSUME NEW v \in Seq(Event), NEW e \in Event
  PROVE  /\ \A x : Has(Append(v, e), x) <=> (Has(v, x) \/ x = e)
         /\ \A n : Occurs(Append(v, e), n) <=> (Occurs(v, n) \/ n = e.nr)
         /\ \A c : Numbered(v, c) /\ e.nr <= c /\ ~ Occurs(v, e.nr) => Numbered(Append(v, e), c)
<1> DEFINE w == Append(v, e)
           n == Len(v) + 1
<1>1. /\ DOMAIN w = DOMAIN v \cup {n} /\ n \notin DOMAIN v
      /\ w[n] = e /\ \A i \in DOMAIN v : w[i] = v[i]
  BY Appended
<1> HIDE DEF w, n
<1>2. \A x : Has(w, x) <=> (Has(v, x) \/ x = e)
  BY <1>1, Zenon DEF Has
<1>3. \A k : Occurs(w, k) <=> (Occurs(v, k) \/ k = e.nr)
  BY <1>1, Zenon DEF Occurs
<1>4. ASSUME NEW c, Numbered(v, c), e.nr <= c, ~ Occurs(v, e.nr) PROVE Numbered(w, c)
  <2>1. \A i \in DOMAIN w : w[i].nr <= c
    BY <1>1, <1>4, Zenon DEF Numbered
  <2>2. \A i \in DOMAIN v : v[i].nr # e.nr
    BY <1>4, Zenon DEF Occurs
  <2>3. \A i, j \in DOMAIN w : w[i].nr = w[j].nr => i = j
    BY <1>1, <1>4, <2>2, Zenon DEF Numbered
  <2> QED
    BY <2>1, <2>3, Zenon DEF Numbered
<1> QED
  BY <1>2, <1>3, <1>4, Zenon DEF w

(* The next number is a new one. *)
LEMMA NumberedMore ==
  ASSUME NEW v \in Seq(Event), NEW c \in Nat, Numbered(v, c)
  PROVE  Numbered(v, c + 1) /\ ~ Occurs(v, c + 1)
<1>1. \A i \in DOMAIN v : v[i].nr \in Nat
  <2>1. \A e \in Event : e.nr \in Nat
    BY Zenon DEF Event
  <2>2. \A i \in DOMAIN v : v[i] \in Event
    OBVIOUS
  <2> QED
    BY <2>1, <2>2, Zenon
<1>2. \A i \in DOMAIN v : v[i].nr <= c + 1 /\ v[i].nr # c + 1
  BY <1>1, Newer, Zenon DEF Numbered
<1> QED
  BY <1>2, Zenon DEF Numbered, Occurs

(* The ways in which a step changes the journal. *)
JournalStays == events' = events /\ Journal' = Journal
Inserts == \E t \in Thread : Insert(t) /\ events' = events /\ Journal' = Append(Journal, call[Item(ProcOf[t])])
Commits == \E t \in Thread : Commit(t) /\ events' = Journal /\ Journal' = Journal
RollsBack == events' = events /\ Journal' = events
Mutates == \E t \in Thread, op \in Op, f \in Flow :
             /\ Mutate(t, op, f) /\ Journal = events
             /\ events' = Append(events, MutationOf(t, op, f)) /\ Journal' = events'

(* The event of a mutation. *)
LEMMA MutationFacts ==
  ASSUME TypeOK, NEW t \in Thread, NEW op \in Op, NEW f \in Flow, Mutation(t, op, f)
  PROVE  /\ MutationOf(t, op, f) \in Event /\ MutationOf(t, op, f).nr = calls + 1
         /\ MutationOf(t, op, f).thread = t /\ MutationOf(t, op, f).flow = f /\ MutationOf(t, op, f).op = op
         /\ calls' = calls + 1 /\ pc[t] = "idle"
  BY MutationType, Zenon DEF Mutation, MutationOf

LEMMA MutateFacts ==
  ASSUME TypeOK, NEW t \in Thread, NEW op \in Op, NEW f \in Flow, Mutate(t, op, f) \/ MutateFails(t, op, f)
  PROVE  /\ MutationOf(t, op, f) \in Event /\ MutationOf(t, op, f).nr = calls + 1
         /\ MutationOf(t, op, f).thread = t /\ MutationOf(t, op, f).flow = f /\ MutationOf(t, op, f).op = op
         /\ calls' = calls + 1 /\ pc[t] = "idle"
<1>1. Mutation(t, op, f)
  BY Zenon DEF Mutate, MutateFails
<1> QED
  BY <1>1, MutationFacts, Zenon

(* Every step is one of them. *)
LEMMA JournalStep ==
  ASSUME TypeOK, CommitInv, [Next]_vars
  PROVE  JournalStays \/ Inserts \/ Commits \/ RollsBack \/ Mutates
<1>0. /\ events \in Seq(Event) /\ written \in Seq(Event) /\ events \o <<>> = events
      /\ written = <<>> => Journal = events
  <2>1. events \in Seq(Event) /\ written \in Seq(Event)
    BY TypeParts, Zenon DEF DiskType
  <2>2. events \o <<>> = events
    BY <2>1, WholePrefix, Zenon
  <2> QED
    BY <2>1, <2>2, Zenon DEF Journal
<1>1. ASSUME UNCHANGED <<events, written>> PROVE JournalStays
  BY <1>1, Zenon DEF JournalStays, Journal
<1>2. ASSUME events' = events, written' = <<>> PROVE RollsBack
  BY <1>0, <1>2, Zenon DEF RollsBack, Journal
<1>3. ASSUME NEW t \in Thread, Insert(t) PROVE Inserts
  <2>1. call[Item(ProcOf[t])] \in Event
    BY <1>3, ItemType, Zenon DEF Insert
  <2>2. events' = events /\ written' = Append(written, call[Item(ProcOf[t])])
    BY <1>3, Zenon DEF Insert
  <2>3. events \o Append(written, call[Item(ProcOf[t])]) = Append(events \o written, call[Item(ProcOf[t])])
    <3> DEFINE e == call[Item(ProcOf[t])]
    <3> HIDE DEF e
    <3>1. e \in Event
      BY <2>1, Zenon DEF e
    <3>2. events \o Append(written, e) = Append(events \o written, e)
      BY <1>0, <3>1, AppendLast
    <3> QED
      BY <3>2, Zenon DEF e
  <2>4. Journal' = Append(Journal, call[Item(ProcOf[t])])
    BY <2>2, <2>3, Zenon DEF Journal
  <2> QED
    BY <1>3, <2>2, <2>4, Zenon DEF Inserts
<1>4. ASSUME NEW t \in Thread, Commit(t) PROVE Commits
  BY <1>4, CommitMemory, Zenon DEF Commits
<1>5. ASSUME NEW t \in Thread, NEW op \in Op, NEW f \in Flow, Mutate(t, op, f) PROVE Mutates
  <2>1. written = <<>> /\ written' = <<>> /\ events' = Append(events, MutationOf(t, op, f))
    BY <1>5, Zenon DEF Mutate, Mutation, WriterFree, CommitInv
  <2>2. events' \in Seq(Event)
    <3> DEFINE e == MutationOf(t, op, f)
    <3>1. e \in Event
      BY <1>5, MutateFacts, Zenon
    <3> HIDE DEF e
    <3>2. Append(events, e) \in Seq(Event)
      BY <1>0, <3>1
    <3> QED
      BY <2>1, <3>2, Zenon DEF e
  <2>3. Journal' = events'
    BY <2>1, <2>2, WholePrefix, Zenon DEF Journal
  <2> QED
    BY <1>0, <1>5, <2>1, <2>3, Zenon DEF Mutates
<1>6. ASSUME NEW t \in Thread, Drain(t), ~ Insert(t), ~ Commit(t) PROVE JournalStays \/ RollsBack
  <2>1. UNCHANGED <<events, written>> \/ (events' = events /\ written' = <<>>)
    BY <1>6, Zenon DEF Drain, Lead, Begin, BeginFails, Refuse, InsertFails, CommitFails, Reset, Strand,
                       Publish, Return, disk
  <2> QED
    BY <1>1, <1>2, <2>1, Zenon
<1>7. ASSUME NEW t \in Thread, NEW op \in Op, NEW f \in Flow, Submit(t, op, f) \/ MutateFails(t, op, f) PROVE JournalStays
  BY <1>1, <1>7, Zenon DEF Submit, MutateFails, disk
<1>8. ASSUME NEW p \in Process, Read(p) \/ Close(p) PROVE JournalStays
  BY <1>1, <1>8, Zenon DEF Read, Close, disk
<1>9. ASSUME NEW p \in Process, Crash(p) PROVE JournalStays \/ RollsBack
  BY <1>1, <1>2, <1>9, Zenon DEF Crash
<1>10. UNCHANGED vars => JournalStays
  BY <1>1, Zenon DEF vars, disk
<1> QED
  BY <1>3, <1>4, <1>5, <1>6, <1>7, <1>8, <1>9, <1>10, Zenon DEF Next

LEMMA CallsGrow == ASSUME [Next]_vars PROVE calls' = calls \/ calls' = calls + 1
<1>1. ASSUME NEW t \in Thread, Drain(t) PROVE calls' = calls
  BY <1>1, Zenon DEF Drain, Lead, Begin, BeginFails, Insert, Refuse, InsertFails, Commit, CommitFails, Reset, Strand,
                     Publish, Return
<1>2. ASSUME NEW t \in Thread, NEW op \in Op, NEW f \in Flow, Submit(t, op, f) \/ Mutate(t, op, f) \/ MutateFails(t, op, f)
      PROVE  calls' = calls + 1
  BY <1>2, Zenon DEF Submit, MutateFails, Mutate, Mutation
<1>3. ASSUME NEW p \in Process, Read(p) \/ Close(p) \/ Crash(p) PROVE calls' = calls
  BY <1>3, Zenon DEF Read, Close, Crash
<1>4. UNCHANGED vars => calls' = calls
  BY Zenon DEF vars
<1> QED
  BY <1>1, <1>2, <1>3, <1>4, Zenon DEF Next

(* The transition that validation comes to is not in the journal. *)
LEMMA ItemFresh ==
  ASSUME TypeOK, QueueInv, PlaceInv, NEW t \in Thread, Validating(t)
  PROVE  LET p == ProcOf[t]
             x == Item(p) IN
         /\ x \in Thread /\ x \in InSeq(batch[p]) /\ x \notin FirstOf(batch[p], done[p])
         /\ FirstOf(batch[p], done[p] + 1) = FirstOf(batch[p], done[p]) \cup {x}
         /\ ProcOf[x] = p /\ Active(x) /\ receipt[x] = "none"
         /\ call[x] \in Event /\ ~ Occurs(Journal, call[x].nr)
<1> DEFINE p == ProcOf[t]
           x == Item(p)
<1>1. p \in Process /\ done[p] \in Nat /\ batch[p] \in Seq(Thread) /\ done[p] < Len(batch[p]) /\ pc[t] = "commit"
  BY SchedulingFacts, TypeParts, Zenon DEF Validating, GroupType
<1>2. x \in Thread /\ call[x] \in Event
  BY ItemType, Zenon
<1>3. Distinct(batch[p]) /\ \A y \in InSeq(batch[p]) : ProcOf[y] = p /\ Active(y) /\ receipt[y] = "none"
  BY <1>1, QueueOf, Zenon
<1>4. /\ x \in InSeq(batch[p]) /\ FirstOf(batch[p], done[p] + 1) = FirstOf(batch[p], done[p]) \cup {x}
      /\ x \notin FirstOf(batch[p], done[p])
  BY <1>1, <1>3, NextOf, Zenon DEF Item
<1>5. Placed(t, p, x)
  BY <1>4, Zenon DEF PlaceInv
<1>6. ~ Occurs(Journal, call[x].nr)
  BY <1>1, <1>4, <1>5, Zenon DEF Placed
<1> QED
  BY <1>2, <1>3, <1>4, <1>6, Zenon

(* No transition is in the journal twice, over all steps. *)
LEMMA JournalInvStep ==
  ASSUME TypeOK, QueueInv, CommitInv, CallInv, JournalInv, PlaceInv, [Next]_vars
  PROVE  JournalInv'
<1>0. Journal \in Seq(Event) /\ events \in Seq(Event) /\ calls \in Nat
  BY JournalParts, NumberTypes, Zenon
<1>1. /\ Numbered(Journal, calls) /\ Numbered(Journal, calls + 1) /\ ~ Occurs(Journal, calls + 1)
      /\ Numbered(events, calls) /\ Numbered(events, calls + 1)
  BY <1>0, NumberedMore, JournalParts, Zenon DEF JournalInv
<1>2. Numbered(Journal, calls') /\ Numbered(events, calls')
  BY <1>1, CallsGrow, Zenon
<1>3. CASE JournalStays \/ Commits \/ RollsBack
  BY <1>2, <1>3, Zenon DEF JournalStays, Commits, RollsBack, JournalInv
<1>4. CASE Inserts
  <2>1. PICK t \in Thread : Insert(t) /\ Journal' = Append(Journal, call[Item(ProcOf[t])])
    BY <1>4, Zenon DEF Inserts
  <2> DEFINE x == Item(ProcOf[t])
  <2>2. x \in Thread /\ Active(x) /\ call[x] \in Event /\ ~ Occurs(Journal, call[x].nr)
    BY <2>1, ItemFresh, Zenon DEF Insert
  <2>3. call[x].nr <= calls /\ calls' = calls
    BY <2>1, <2>2, CallOf, Zenon DEF Insert
  <2> HIDE DEF x
  <2>4. Numbered(Append(Journal, call[x]), calls)
    BY <1>0, <1>1, <2>2, <2>3, AppendedFacts, Zenon
  <2> QED
    BY <2>1, <2>3, <2>4, Zenon DEF JournalInv, x
<1>5. CASE Mutates
  <2>1. PICK t \in Thread, op \in Op, f \in Flow :
          Mutate(t, op, f) /\ Journal = events /\ Journal' = Append(events, MutationOf(t, op, f))
    BY <1>5, Zenon DEF Mutates
  <2> DEFINE e == MutationOf(t, op, f)
  <2>2. e \in Event /\ e.nr = calls + 1
    <3>1. Mutate(t, op, f)
      BY <2>1, Zenon
    <3> QED
      BY <3>1, MutateFacts
  <2>3. calls' = calls + 1 /\ calls + 1 <= calls + 1
    BY <2>1, NumberTypes, Zenon DEF Mutate, Mutation
  <2> HIDE DEF e
  <2>4. Journal' = Append(Journal, e)
    BY <2>1, Zenon DEF e
  <2>5. Numbered(Append(Journal, e), calls + 1)
    <3>1. e.nr <= calls + 1 /\ ~ Occurs(Journal, e.nr)
      BY <1>1, <2>2, <2>3, Zenon
    <3> QED
      BY <1>0, <1>1, <2>2, <3>1, AppendedFacts, Zenon
  <2> QED
    BY <2>3, <2>4, <2>5, Zenon DEF JournalInv
<1> QED
  BY <1>3, <1>4, <1>5, JournalStep, Zenon

(* What is committed stays, and what is not there does not come unasked. *)
LEMMA PlacesStay ==
  ASSUME TypeOK, CommitInv, CallInv, JournalInv, [Next]_vars
  PROVE  /\ \A e : Has(events, e) => Has(events', e)
         /\ \A n \in Nat : n <= calls /\ ~ Occurs(Journal, n) =>
              \/ ~ Occurs(Journal', n)
              \/ \E t \in Thread : Insert(t) /\ n = call[Item(ProcOf[t])].nr
<1>0. Journal \in Seq(Event) /\ events \in Seq(Event) /\ calls \in Nat
  BY JournalParts, NumberTypes, Zenon
<1>1. ASSUME NEW e, Has(events, e) PROVE Has(events', e)
  <2>1. Has(Journal, e)
    BY <1>1, JournalParts, Zenon
  <2>2. CASE Mutates
    <3>1. PICK t \in Thread, op \in Op, f \in Flow : Mutate(t, op, f) /\ events' = Append(events, MutationOf(t, op, f))
      BY <2>2, Zenon DEF Mutates
    <3>2. MutationOf(t, op, f) \in Event
      BY <3>1, MutateFacts, Zenon
    <3> QED
      BY <1>0, <1>1, <3>1, <3>2, AppendedFacts, Zenon
  <2> QED
    BY <1>1, <2>1, <2>2, JournalStep, Zenon DEF JournalStays, Inserts, Commits, RollsBack
<1>2. ASSUME NEW n \in Nat, n <= calls, ~ Occurs(Journal, n), Occurs(Journal', n)
      PROVE  \E t \in Thread : Insert(t) /\ n = call[Item(ProcOf[t])].nr
  <2>1. ~ JournalStays /\ ~ Commits /\ ~ RollsBack
    BY <1>2, JournalParts, Zenon DEF JournalStays, Commits, RollsBack
  <2>2. ~ Mutates
    <3> SUFFICES ASSUME NEW t \in Thread, NEW op \in Op, NEW f \in Flow,
                        Mutate(t, op, f), Journal = events, Journal' = Append(events, MutationOf(t, op, f))
                 PROVE  FALSE
      BY Zenon DEF Mutates
    <3>1. MutationOf(t, op, f) \in Event /\ MutationOf(t, op, f).nr = calls + 1
      BY MutateFacts
    <3>2. n # calls + 1
      BY <1>0, <1>2, Newer, Zenon
    <3> QED
      BY <1>0, <1>2, <3>1, <3>2, AppendedFacts, Zenon
  <2>3. PICK t \in Thread : Insert(t) /\ Journal' = Append(Journal, call[Item(ProcOf[t])])
    BY <2>1, <2>2, JournalStep, Zenon DEF Inserts
  <2>4. call[Item(ProcOf[t])] \in Event
    BY <2>3, ItemType, Zenon DEF Insert
  <2> QED
    BY <1>0, <1>2, <2>3, <2>4, AppendedFacts, Zenon
<1> QED
  BY <1>1, <1>2, Zenon

(* A thread keeps its transition until it is told. *)
LEMMA CallStays ==
  ASSUME TypeOK, [Next]_vars, NEW x \in Thread, Active(x), Active(x)'
  PROVE  call'[x] = call[x]
<1>1. ASSUME NEW t \in Thread, NEW op \in Op, NEW f \in Flow, Submit(t, op, f) PROVE call'[x] = call[x]
  <2>1. pc[t] = "idle"
    BY <1>1, Zenon DEF Submit
  <2>2. x # t
    BY <2>1, Zenon DEF Active
  <2> QED
    BY <1>1, <2>2, TypeParts, Zenon DEF Submit, CallType
<1>2. ASSUME NEW t \in Thread, Return(t) PROVE call'[x] = call[x]
  <2>1. pc'[t] = "idle"
    BY <1>2, TypeParts, Zenon DEF Return, ThreadType
  <2>2. x # t
    BY <2>1, Zenon DEF Active
  <2> QED
    BY <1>2, <2>2, TypeParts, Zenon DEF Return, CallType
<1>3. ASSUME NEW p \in Process, Crash(p) PROVE call'[x] = call[x]
  <2>1. ProcOf[x] # p
    BY <1>3, Zenon DEF Crash, Active
  <2> QED
    BY <1>3, <2>1, Zenon DEF Crash
<1>4. ASSUME NEW t \in Thread, Drain(t) PROVE call'[x] = call[x]
  <2>1. Return(t) \/ call' = call
    BY <1>4, Zenon DEF Drain, Lead, Begin, BeginFails, Insert, Refuse, InsertFails, Commit, CommitFails, Reset, Strand,
                       Publish, threads
  <2> QED
    BY <1>2, <2>1, Zenon
<1>5. ASSUME NEW t \in Thread, NEW op \in Op, NEW f \in Flow, Mutate(t, op, f) \/ MutateFails(t, op, f) PROVE call' = call
  BY <1>5, Zenon DEF Mutate, MutateFails
<1>6. ASSUME NEW p \in Process, Read(p) \/ Close(p) PROVE call' = call
  BY <1>6, Zenon DEF Read, Close, threads
<1>7. UNCHANGED vars => call' = call
  BY Zenon DEF vars, threads
<1> QED
  BY <1>1, <1>3, <1>4, <1>5, <1>6, <1>7, Zenon DEF Next

(* A transition that is not in the journal gets there only as the item of an
   insertion. *)
LEMMA StaysOut ==
  ASSUME TypeOK, QueueInv, CommitInv, CallInv, JournalInv, PlaceInv, [Next]_vars,
         NEW x \in Thread, Active(x), Active(x)', ~ Occurs(Journal, call[x].nr)
  PROVE  \/ ~ Occurs(Journal', call'[x].nr)
         \/ \E t \in Thread : Insert(t) /\ x = Item(ProcOf[t])
<1>1. call'[x] = call[x]
  BY CallStays, Zenon
<1>2. call[x].nr \in Nat /\ call[x].nr <= calls
  BY CallOf, NumberTypes, Zenon
<1>3. ASSUME NEW t \in Thread, Insert(t), call[x].nr = call[Item(ProcOf[t])].nr PROVE x = Item(ProcOf[t])
  <2> DEFINE y == Item(ProcOf[t])
  <2>1. y \in Thread /\ Active(y)
    BY <1>3, ItemFresh, Zenon DEF Insert
  <2>2. call[x].nr = call[y].nr
    BY <1>3, Zenon
  <2> HIDE DEF y
  <2>3. x = y
    BY <2>1, <2>2, Zenon DEF CallInv
  <2> QED
    BY <2>3, Zenon DEF y
<1>4. ~ Occurs(Journal', call[x].nr) \/ \E t \in Thread : Insert(t) /\ call[x].nr = call[Item(ProcOf[t])].nr
  BY <1>2, PlacesStay, Zenon
<1> QED
  BY <1>1, <1>3, <1>4, Zenon

(* Who gets a receipt. *)
LEMMA ReceiptStep ==
  ASSUME TypeOK, [Next]_vars, NEW x \in Thread, receipt'[x] # "none"
  PROVE  \/ receipt'[x] = receipt[x]
         \/ \E t \in Thread : Publish(t) /\ x \in InSeq(batch[ProcOf[t]]) /\ receipt'[x] = ReceiptOf(ProcOf[t], x)
         \/ \E t \in Thread : Strand(t) /\ x \in Stranded(ProcOf[t]) /\ receipt'[x] = "failed"
<1>1. ASSUME NEW t \in Thread, Return(t) PROVE receipt'[x] = receipt[x]
  BY <1>1, TypeParts, Zenon DEF Return, ThreadType
<1>2. ASSUME NEW p \in Process, Crash(p) PROVE receipt'[x] = receipt[x]
  BY <1>2, Zenon DEF Crash
<1>3. ASSUME NEW t \in Thread, Publish(t)
      PROVE  receipt'[x] = receipt[x] \/ (x \in InSeq(batch[ProcOf[t]]) /\ receipt'[x] = ReceiptOf(ProcOf[t], x))
  BY <1>3, Zenon DEF Publish
<1>4. ASSUME NEW t \in Thread, Strand(t)
      PROVE  receipt'[x] = receipt[x] \/ (x \in Stranded(ProcOf[t]) /\ receipt'[x] = "failed")
  BY <1>4, Zenon DEF Strand
<1>5. ASSUME NEW t \in Thread, Drain(t), receipt' # receipt PROVE Return(t) \/ Publish(t) \/ Strand(t)
  BY <1>5, Zenon DEF Drain, Lead, Begin, BeginFails, Insert, Refuse, InsertFails, Commit, CommitFails, Reset, threads
<1>6. ASSUME NEW t \in Thread, NEW op \in Op, NEW f \in Flow, Submit(t, op, f) \/ Mutate(t, op, f) \/ MutateFails(t, op, f)
      PROVE  receipt' = receipt
  BY <1>6, Zenon DEF Submit, Mutate, MutateFails
<1>7. ASSUME NEW p \in Process, Read(p) \/ Close(p) PROVE receipt' = receipt
  BY <1>7, Zenon DEF Read, Close, threads
<1>8. UNCHANGED vars => receipt' = receipt
  BY Zenon DEF vars, threads
<1> QED
  BY <1>1, <1>2, <1>3, <1>4, <1>5, <1>6, <1>7, <1>8, Zenon DEF Next

(* Who comes into the queue. *)
LEMMA QueueStep ==
  ASSUME TypeOK, [Next]_vars, NEW p \in Process, NEW x \in InSeq(queue'[p])
  PROVE  \/ x \in InSeq(queue[p])
         \/ \E op \in Op, f \in Flow : x \in Thread /\ Submit(x, op, f)
<1>1. ASSUME NEW t \in Thread, NEW op \in Op, NEW f \in Flow, Submit(t, op, f), x \notin InSeq(queue[p]) PROVE x = t
  <2>1. queue[p] \in Seq(Thread)
    BY TypeParts, Zenon DEF GroupType
  <2>2. queue'[p] = IF p = ProcOf[t] THEN Append(queue[p], t) ELSE queue[p]
    BY <1>1, TypeParts, Zenon DEF Submit, GroupType
  <2>3. InSeq(Append(queue[p], t)) = InSeq(queue[p]) \cup {t}
    BY <2>1, InSeqAppend
  <2>4. queue'[p] # queue[p]
    BY <1>1, Zenon
  <2>5. InSeq(queue'[p]) = InSeq(queue[p]) \cup {t}
    BY <2>2, <2>3, <2>4, Zenon
  <2> QED
    BY <1>1, <2>5, Zenon
<1>2. ASSUME NEW t \in Thread, Drain(t) PROVE queue' = queue \/ queue' = [queue EXCEPT ![ProcOf[t]] = <<>>]
  BY <1>2, Zenon DEF Drain, Lead, Begin, BeginFails, Insert, Refuse, InsertFails, Commit, CommitFails, Reset, Strand,
                     Publish, Return, group
<1>3. ASSUME NEW q \in Process, Read(q) \/ Close(q) \/ Crash(q) PROVE queue' = queue \/ queue' = [queue EXCEPT ![q] = <<>>]
  BY <1>3, Zenon DEF Read, Close, Crash, group
<1>4. ASSUME NEW t \in Thread, NEW op \in Op, NEW f \in Flow, Mutate(t, op, f) \/ MutateFails(t, op, f) PROVE queue' = queue
  BY <1>4, Zenon DEF Mutate, MutateFails, group
<1>5. UNCHANGED vars => queue' = queue
  BY Zenon DEF vars, group
<1>6. ASSUME NEW q, queue' = [queue EXCEPT ![q] = <<>>] PROVE x \in InSeq(queue[p])
  <2>1. queue'[p] = <<>> \/ queue'[p] = queue[p]
    BY <1>6, TypeParts, Zenon DEF GroupType
  <2> QED
    BY <2>1, InSeqEmpty, Zenon
<1> QED
  BY <1>1, <1>2, <1>3, <1>4, <1>5, <1>6, Zenon DEF Next

(* Who is told what. *)
LEMMA AnsweredStep ==
  ASSUME TypeOK, [Next]_vars, NEW a \in answered'
  PROVE  \/ a \in answered
         \/ \E t \in Thread : Return(t) /\ a = [event |-> call[t], ok |-> (receipt[t] = "ok")]
         \/ \E t \in Thread, op \in Op, f \in Flow : Mutate(t, op, f) /\ a = [event |-> MutationOf(t, op, f), ok |-> TRUE]
         \/ \E t \in Thread, op \in Op, f \in Flow : MutateFails(t, op, f) /\ a = [event |-> MutationOf(t, op, f), ok |-> FALSE]
<1>1. ASSUME NEW t \in Thread, Return(t) PROVE a \in answered \/ a = [event |-> call[t], ok |-> (receipt[t] = "ok")]
  BY <1>1, Zenon DEF Return, Tell
<1>2. ASSUME NEW t \in Thread, NEW op \in Op, NEW f \in Flow, Mutate(t, op, f)
      PROVE  a \in answered \/ a = [event |-> MutationOf(t, op, f), ok |-> TRUE]
  BY <1>2, Zenon DEF Mutate, Tell
<1>3. ASSUME NEW t \in Thread, NEW op \in Op, NEW f \in Flow, MutateFails(t, op, f)
      PROVE  a \in answered \/ a = [event |-> MutationOf(t, op, f), ok |-> FALSE]
  BY <1>3, Zenon DEF MutateFails, Tell
<1>4. ASSUME NEW t \in Thread, Drain(t) PROVE answered' = answered \/ Return(t)
  BY <1>4, Zenon DEF Drain, Lead, Begin, BeginFails, Insert, Refuse, InsertFails, Commit, CommitFails, Reset, Strand,
                     Publish
<1>5. ASSUME NEW t \in Thread, NEW op \in Op, NEW f \in Flow, Submit(t, op, f) PROVE answered' = answered
  BY <1>5, Zenon DEF Submit
<1>6. ASSUME NEW p \in Process, Read(p) \/ Close(p) \/ Crash(p) PROVE answered' = answered
  BY <1>6, Zenon DEF Read, Close, Crash
<1>7. UNCHANGED vars => answered' = answered
  BY Zenon DEF vars
<1> QED
  BY <1>1, <1>2, <1>3, <1>4, <1>5, <1>6, <1>7, Zenon DEF Next

(* What a group's writer keeps, when it does not take the step itself. *)
LEMMA LateStep ==
  ASSUME TypeOK, BatonInv, CommitInv, [Next]_vars, NEW t \in Thread, pc'[t] \in Late
  PROVE  LET p == ProcOf[t] IN
         \/ /\ pc'[t] = pc[t] /\ batch'[p] = batch[p] /\ done'[p] = done[p] /\ refused'[p] = refused[p]
            /\ ~ Insert(t) /\ (pc[t] = "commit" => written' = written)
         \/ Begin(t) \/ BeginFails(t) \/ Insert(t) \/ Refuse(t) \/ Commit(t) \/ InsertFails(t) \/ CommitFails(t) \/ Reset(t)
<1> DEFINE p == ProcOf[t]
           Kept == /\ pc'[t] = pc[t] /\ batch'[p] = batch[p] /\ done'[p] = done[p] /\ refused'[p] = refused[p]
                   /\ ~ Insert(t) /\ (pc[t] = "commit" => written' = written)
<1>0. p \in Process /\ (~ Insert(t) \/ Insert(t))
  BY SchedulingFacts, Zenon
<1> SUFFICES ASSUME ~ Insert(t) PROVE Kept \/ Begin(t) \/ BeginFails(t) \/ Refuse(t) \/ Commit(t) \/ InsertFails(t) \/ CommitFails(t) \/ Reset(t)
  BY Zenon
<1>1. ASSUME NEW u \in Thread, NEW op \in Op, NEW f \in Flow, Submit(u, op, f) PROVE Kept
  <2>1. /\ pc'[t] = IF t = u THEN "waiting" ELSE pc[t]
        /\ UNCHANGED <<batch, done, refused, written>>
    BY <1>1, TypeParts, Zenon DEF Submit, ThreadType, disk
  <2> QED
    BY <2>1, SchedulingFacts, Zenon
<1>2. ASSUME NEW u \in Thread, NEW op \in Op, NEW f \in Flow, Mutate(u, op, f) \/ MutateFails(u, op, f) PROVE Kept
  BY <1>2, Zenon DEF Mutate, MutateFails, group, disk
<1>3. ASSUME NEW q \in Process, Read(q) \/ Close(q) PROVE Kept
  BY <1>3, Zenon DEF Read, Close, group, disk, threads
<1>4. ASSUME NEW q \in Process, Crash(q) PROVE Kept
  <2>1. pc'[t] = IF ProcOf[t] = q THEN "idle" ELSE pc[t]
    BY <1>4, Zenon DEF Crash
  <2>2. q # p /\ pc'[t] = pc[t]
    BY <2>1, SchedulingFacts, Zenon
  <2>3. batch'[p] = batch[p] /\ done'[p] = done[p] /\ refused'[p] = refused[p]
    BY <1>0, <1>4, <2>2, TypeParts, Zenon DEF Crash, GroupType
  <2>4. ASSUME pc[t] = "commit" PROVE written' = written
    <3>1. CutFree(q)
      BY <2>2, <2>4, Zenon DEF CommitInv, CutFree
    <3> QED
      BY <1>4, <3>1, Zenon DEF Crash
  <2> QED
    BY <2>2, <2>3, <2>4, Zenon
<1>5. UNCHANGED vars => Kept
  BY Zenon DEF vars, group, disk, threads
<1>6. ASSUME NEW u \in Thread, Drain(u), u # t PROVE Kept
  <2>1. pc'[t] = pc[t]
    <3>1. pc' = pc \/ \E w : pc' = [pc EXCEPT ![u] = w]
      BY <1>6, Zenon DEF Drain, Lead, Begin, BeginFails, Insert, Refuse, InsertFails, Commit, CommitFails, Reset, Strand,
                         Publish, Return, threads
    <3> QED
      BY <1>6, <3>1, TypeParts, Zenon DEF ThreadType
  <2>2. pc[t] \in Working
    BY <2>1, SchedulingFacts, Zenon
  <2>3. pc[u] \in Working => ProcOf[u] # p
    BY <1>6, <2>2, OneWorks, Zenon
  <2>4. pc[u] \in Working \/ Lead(u) \/ Return(u)
    BY <1>6, Zenon DEF Drain, Begin, BeginFails, Insert, Refuse, InsertFails, Commit, CommitFails, Reset, Strand,
                       Publish, Validating, Working
  <2>5. Lead(u) \/ Return(u) => UNCHANGED <<batch, done, refused, written>>
    BY Zenon DEF Lead, Return, group, disk
  <2>6. ASSUME ProcOf[u] # p PROVE batch'[p] = batch[p] /\ done'[p] = done[p] /\ refused'[p] = refused[p]
    <3>1. CASE Begin(u) \/ Insert(u) \/ Refuse(u) \/ Strand(u) \/ Publish(u)
      BY <1>0, <2>6, <3>1, TypeParts, Zenon DEF Begin, Insert, Refuse, Strand, Publish, GroupType
    <3>2. CASE ~ (Begin(u) \/ Insert(u) \/ Refuse(u) \/ Strand(u) \/ Publish(u))
      BY <1>6, <3>2, Zenon DEF Drain, Lead, BeginFails, InsertFails, Commit, CommitFails, Reset, Return, group
    <3> QED
      BY <3>1, <3>2, Zenon
  <2>7. ASSUME pc[t] = "commit" PROVE written' = written
    <3>1. pc[u] # "commit"
      BY <1>6, <2>7, Zenon DEF CommitInv
    <3>2. Lead(u) \/ Begin(u) \/ BeginFails(u) \/ Reset(u) \/ Strand(u) \/ Publish(u) \/ Return(u)
      BY <1>6, <3>1, Zenon DEF Drain, Insert, Refuse, InsertFails, Commit, CommitFails, Validating
    <3> QED
      BY <3>2, Zenon DEF Lead, Begin, BeginFails, Reset, Strand, Publish, Return, disk
  <2> QED
    BY <2>1, <2>3, <2>4, <2>5, <2>6, <2>7, Zenon
<1>7. ASSUME Lead(t) \/ Strand(t) \/ Publish(t) \/ Return(t) PROVE FALSE
  <2>1. pc'[t] \in {"draining", "waiting", "idle"}
    BY <1>7, TypeParts, Zenon DEF Lead, Strand, Publish, Return, ThreadType
  <2> QED
    BY <2>1, SchedulingFacts, Zenon
<1>8. ASSUME Drain(t)
      PROVE  Begin(t) \/ BeginFails(t) \/ Refuse(t) \/ Commit(t) \/ InsertFails(t) \/ CommitFails(t) \/ Reset(t)
  BY <1>7, <1>8, Zenon DEF Drain
<1> QED
  BY <1>1, <1>2, <1>3, <1>4, <1>5, <1>6, <1>8, Zenon DEF Next

LEMMA JournalSame == UNCHANGED disk => events' = events /\ written' = written /\ Journal' = Journal
  BY Zenon DEF disk, Journal

LEMMA PlacedNow ==
  ASSUME PlaceInv, NEW t \in Thread, NEW x \in InSeq(batch[ProcOf[t]])
  PROVE  Placed(t, ProcOf[t], x)
  BY Zenon DEF PlaceInv

(* A receipt is true when it is given and stays true until it is told. *)
LEMMA ReceiptPlace ==
  ASSUME TypeOK, BatonInv, QueueInv, CommitInv, CallInv, JournalInv, PlaceInv, BatonInv', [Next]_vars, NEW x \in Thread
  PROVE  /\ receipt'[x] = "ok" => Has(events', call'[x])
         /\ receipt'[x] \in {"rejected", "failed"} => ~ Occurs(Journal', call'[x].nr)
<1> SUFFICES ASSUME receipt'[x] # "none"
             PROVE  /\ receipt'[x] = "ok" => Has(events', call'[x])
                    /\ receipt'[x] \in {"rejected", "failed"} => ~ Occurs(Journal', call'[x].nr)
  BY Zenon
<1>1. CASE receipt'[x] = receipt[x]
  <2>1. Active(x) /\ Active(x)'
    <3>1. pc[x] = "waiting"
      BY <1>1, Zenon DEF BatonInv
    <3>2. pc'[x] = "waiting"
      BY Zenon DEF BatonInv
    <3> QED
      BY <3>1, <3>2, Zenon DEF Active
  <2>2. call'[x] = call[x]
    BY <2>1, CallStays, Zenon
  <2>3. ASSUME receipt[x] = "ok" PROVE Has(events', call'[x])
    <3>1. Has(events, call[x])
      BY <2>3, Zenon DEF PlaceInv
    <3> QED
      BY <2>2, <3>1, PlacesStay, Zenon
  <2>4. ASSUME receipt[x] \in {"rejected", "failed"} PROVE ~ Occurs(Journal', call'[x].nr)
    <3>1. ~ Occurs(Journal, call[x].nr)
      BY <2>4, Zenon DEF PlaceInv
    <3>2. ASSUME NEW t \in Thread, Insert(t), x = Item(ProcOf[t]) PROVE FALSE
      <4>1. Validating(t)
        BY <3>2, Zenon DEF Insert
      <4>2. receipt[Item(ProcOf[t])] = "none"
        BY <4>1, ItemFresh, Zenon
      <4> QED
        BY <2>4, <3>2, <4>2, Zenon
    <3> QED
      BY <2>1, <3>1, <3>2, StaysOut, Zenon
  <2> QED
    BY <1>1, <2>3, <2>4, Zenon
<1>2. ASSUME NEW t \in Thread, Publish(t), x \in InSeq(batch[ProcOf[t]]), receipt'[x] = ReceiptOf(ProcOf[t], x)
      PROVE  /\ receipt'[x] = "ok" => Has(events', call'[x])
             /\ receipt'[x] \in {"rejected", "failed"} => ~ Occurs(Journal', call'[x].nr)
  <2>1. Placed(t, ProcOf[t], x) /\ pc[t] = "publish" /\ call' = call /\ UNCHANGED disk
    BY <1>2, PlacedNow, Zenon DEF Publish
  <2>2. IF x \notin refused[ProcOf[t]] THEN Has(events, call[x]) ELSE ~ Occurs(Journal, call[x].nr)
    BY <2>1, Zenon DEF Placed
  <2>3. events' = events /\ Journal' = Journal
    BY <2>1, JournalSame, Zenon
  <2> QED
    BY <1>2, <2>1, <2>2, <2>3, Zenon DEF ReceiptOf
<1>3. ASSUME NEW t \in Thread, Strand(t), x \in Stranded(ProcOf[t]), receipt'[x] = "failed"
      PROVE  ~ Occurs(Journal', call'[x].nr)
  <2>1. pc[t] = "strand" /\ call' = call /\ UNCHANGED disk /\ ProcOf[t] \in Process
    BY <1>3, SchedulingFacts, Zenon DEF Strand
  <2>2. Journal' = Journal
    BY <2>1, JournalSame, Zenon
  <2>3. CASE x \in InSeq(batch[ProcOf[t]])
    BY <2>1, <2>2, <2>3, PlacedNow, Zenon DEF Placed
  <2>4. CASE x \in InSeq(queue[ProcOf[t]])
    BY <2>1, <2>2, <2>4, Zenon DEF PlaceInv
  <2> QED
    BY <1>3, <2>3, <2>4, Zenon DEF Stranded
<1> QED
  BY <1>1, <1>2, <1>3, ReceiptStep, Zenon

(* A queued transition is in no journal. *)
LEMMA QueuePlace ==
  ASSUME TypeOK, QueueInv, CommitInv, CallInv, JournalInv, PlaceInv, TypeOK', QueueInv', [Next]_vars,
         NEW p \in Process, NEW x \in InSeq(queue'[p])
  PROVE  ~ Occurs(Journal', call'[x].nr)
<1>1. CASE x \in InSeq(queue[p])
  <2>1. Active(x) /\ x \in Thread /\ ProcOf[x] = p /\ x \notin InSeq(batch[p])
    BY <1>1, QueueOf, Zenon
  <2>2. Active(x)'
    BY Zenon DEF QueueInv
  <2>3. ~ Occurs(Journal, call[x].nr)
    BY <1>1, Zenon DEF PlaceInv
  <2>4. ASSUME NEW t \in Thread, Insert(t), x = Item(ProcOf[t]) PROVE FALSE
    <3>1. Validating(t)
      BY <2>4, Zenon DEF Insert
    <3>2. Item(ProcOf[t]) \in InSeq(batch[ProcOf[t]]) /\ ProcOf[Item(ProcOf[t])] = ProcOf[t]
      BY <3>1, ItemFresh, Zenon
    <3> QED
      BY <2>1, <2>4, <3>2, Zenon
  <2> QED
    BY <2>1, <2>2, <2>3, <2>4, StaysOut, Zenon
<1>2. ASSUME NEW op \in Op, NEW f \in Flow, x \in Thread, Submit(x, op, f) PROVE ~ Occurs(Journal', call'[x].nr)
  <2>1. UNCHANGED disk /\ call'[x] = [op |-> op, flow |-> f, thread |-> x, nr |-> calls + 1]
    BY <1>2, TypeParts, Zenon DEF Submit, CallType
  <2>2. call'[x].nr = calls + 1
    BY <2>1
  <2>3. Journal' = Journal /\ Journal \in Seq(Event) /\ calls \in Nat
    BY <2>1, JournalSame, JournalParts, NumberTypes, Zenon
  <2> QED
    BY <2>2, <2>3, NumberedMore, Zenon DEF JournalInv
<1> QED
  BY <1>1, <1>2, QueueStep, Zenon

(* The writer's own steps. *)
LEMMA BeginPlace ==
  ASSUME TypeOK, BatonInv, QueueInv, PlaceInv, NEW t \in Thread, Begin(t), NEW x \in InSeq(batch'[ProcOf[t]])
  PROVE  Placed(t, ProcOf[t], x)'
<1> DEFINE p == ProcOf[t]
<1>1. /\ p \in Process /\ pc'[t] = "commit" /\ batch'[p] = queue[p] /\ done' = done /\ call' = call /\ UNCHANGED disk
      /\ pc[t] = "draining"
  BY SchedulingFacts, TypeParts, Zenon DEF Begin, ThreadType, GroupType
<1>2. done[p] = 0
  BY <1>1, NothingCaptured, Zenon
<1>3. queue[p] \in Seq(Thread)
  BY <1>1, TypeParts, Zenon DEF GroupType
<1>4. FirstOf(queue[p], 0) = {}
  BY <1>3, AllOf, Zenon
<1>5. ~ Occurs(Journal, call[x].nr)
  BY <1>1, Zenon DEF PlaceInv
<1>6. Journal' = Journal
  BY <1>1, JournalSame, Zenon
<1>7. x \notin FirstOf(batch'[p], done'[p])
  BY <1>1, <1>2, <1>4, Zenon
<1>8. ~ Occurs(Journal', call'[x].nr)
  BY <1>1, <1>5, <1>6, Zenon
<1> QED
  BY <1>1, <1>7, <1>8, Zenon DEF Placed

LEMMA InsertPlace ==
  ASSUME TypeOK, BatonInv, QueueInv, CommitInv, CallInv, JournalInv, PlaceInv, TypeOK', QueueInv', [Next]_vars,
         NEW t \in Thread, Insert(t), NEW x \in InSeq(batch'[ProcOf[t]])
  PROVE  Placed(t, ProcOf[t], x)'
<1> DEFINE p == ProcOf[t]
           y == Item(p)
<1>0. p \in Process /\ Validating(t)
  BY SchedulingFacts, Zenon DEF Insert
<1>1. /\ UNCHANGED <<pc, batch, refused, call>> /\ pc[t] = "commit"
      /\ done'[p] = done[p] + 1 /\ written' = Append(written, call[y])
  BY <1>0, TypeParts, Zenon DEF Insert, Validating, GroupType, threads
<1>2. /\ y \in Thread /\ y \notin FirstOf(batch[p], done[p]) /\ FirstOf(batch[p], done[p] + 1) = FirstOf(batch[p], done[p]) \cup {y}
      /\ call[y] \in Event
  BY <1>0, ItemFresh, Zenon
<1>3. y \notin refused[p]
  BY <1>0, <1>2, Zenon DEF QueueInv
<1>4. x \in InSeq(batch[p]) /\ x \in Thread /\ Active(x) /\ Active(x)' /\ ProcOf[x] = p
  <2>1. x \in InSeq(batch[p])
    BY <1>1, Zenon
  <2>2. x \in Thread /\ Active(x) /\ ProcOf[x] = p
    BY <1>0, <2>1, QueueOf, Zenon
  <2> QED
    BY <1>1, <2>1, <2>2, Zenon DEF Active
<1>5. IF x \in FirstOf(batch[p], done[p]) /\ x \notin refused[p] THEN Has(written, call[x]) ELSE ~ Occurs(Journal, call[x].nr)
  BY <1>1, <1>4, PlacedNow, Zenon DEF Placed
<1>6. written \in Seq(Event)
  BY JournalParts, Zenon
<1> HIDE DEF y
<1>7. Has(written', call[y]) /\ (Has(written, call[x]) => Has(written', call[x]))
  BY <1>1, <1>2, <1>6, AppendedFacts, Zenon
<1>8. ASSUME x # y, ~ Occurs(Journal, call[x].nr) PROVE ~ Occurs(Journal', call'[x].nr)
  <2>1. ASSUME NEW u \in Thread, Insert(u), x = Item(ProcOf[u]) PROVE FALSE
    <3>1. Validating(u)
      BY <2>1, Zenon DEF Insert
    <3>2. ProcOf[Item(ProcOf[u])] = ProcOf[u]
      BY <3>1, ItemFresh, Zenon
    <3> QED
      BY <1>4, <1>8, <2>1, <3>2, Zenon DEF y
  <2> QED
    BY <1>4, <1>8, <2>1, StaysOut, Zenon
<1>9. FirstOf(batch'[p], done'[p]) = FirstOf(batch[p], done[p]) \cup {y}
  BY <1>1, <1>2, Zenon
<1>10. CASE x = y
  BY <1>1, <1>3, <1>7, <1>9, <1>10, Zenon DEF Placed
<1>11. CASE x # y
  <2>1. IF x \in FirstOf(batch'[p], done'[p]) /\ x \notin refused'[p]
        THEN Has(written', call'[x]) ELSE ~ Occurs(Journal', call'[x].nr)
    BY <1>1, <1>5, <1>7, <1>8, <1>9, <1>11, Zenon
  <2> QED
    BY <1>1, <2>1, Zenon DEF Placed
<1> QED
  BY <1>10, <1>11, Zenon

LEMMA RefusePlace ==
  ASSUME TypeOK, BatonInv, QueueInv, PlaceInv, NEW t \in Thread, Refuse(t), NEW x \in InSeq(batch'[ProcOf[t]])
  PROVE  Placed(t, ProcOf[t], x)'
<1> DEFINE p == ProcOf[t]
           y == Item(p)
<1>0. p \in Process /\ Validating(t)
  BY SchedulingFacts, Zenon DEF Refuse
<1>1. /\ UNCHANGED <<pc, batch, call>> /\ pc[t] = "commit" /\ UNCHANGED disk
      /\ done'[p] = done[p] + 1 /\ refused'[p] = refused[p] \cup {y}
  BY <1>0, TypeParts, Zenon DEF Refuse, Validating, GroupType, threads
<1>2. /\ FirstOf(batch[p], done[p] + 1) = FirstOf(batch[p], done[p]) \cup {y}
      /\ ~ Occurs(Journal, call[y].nr)
  BY <1>0, ItemFresh, Zenon
<1>3. IF x \in FirstOf(batch[p], done[p]) /\ x \notin refused[p] THEN Has(written, call[x]) ELSE ~ Occurs(Journal, call[x].nr)
  BY <1>1, PlacedNow, Zenon DEF Placed
<1>4. written' = written /\ Journal' = Journal
  BY <1>1, JournalSame, Zenon
<1> HIDE DEF y
<1>5. FirstOf(batch'[p], done'[p]) = FirstOf(batch[p], done[p]) \cup {y}
  BY <1>1, <1>2, Zenon
<1>6. IF x \in FirstOf(batch'[p], done'[p]) /\ x \notin refused'[p]
      THEN Has(written', call'[x]) ELSE ~ Occurs(Journal', call'[x].nr)
  <2>1. CASE x = y
    BY <1>1, <1>2, <1>4, <2>1, Zenon
  <2>2. CASE x # y
    BY <1>1, <1>3, <1>4, <1>5, <2>2, Zenon
  <2> QED
    BY <2>1, <2>2, Zenon
<1> QED
  BY <1>1, <1>6, Zenon DEF Placed

LEMMA CommitPlace ==
  ASSUME TypeOK, CommitInv, PlaceInv, NEW t \in Thread, Commit(t), NEW x \in InSeq(batch'[ProcOf[t]])
  PROVE  Placed(t, ProcOf[t], x)'
<1> DEFINE p == ProcOf[t]
<1>1. /\ UNCHANGED <<batch, call, refused>> /\ pc[t] = "commit" /\ pc'[t] = "publish" /\ ~ (done[p] < Len(batch[p]))
  BY TypeParts, Zenon DEF Commit, Validating, ThreadType, group
<1>2. done[p] \in Nat /\ batch[p] \in Seq(Thread)
  BY SchedulingFacts, TypeParts, Zenon DEF GroupType
<1>3. FirstOf(batch[p], done[p]) = InSeq(batch[p])
  <2>1. Len(batch[p]) \in Nat
    BY <1>2
  <2>2. done[p] >= Len(batch[p])
    BY <1>1, <1>2, <2>1
  <2> QED
    BY <1>2, <2>2, AllOf, Zenon
<1>4. IF x \in FirstOf(batch[p], done[p]) /\ x \notin refused[p] THEN Has(written, call[x]) ELSE ~ Occurs(Journal, call[x].nr)
  BY <1>1, PlacedNow, Zenon DEF Placed
<1>5. events' = Journal /\ Journal' = Journal
  BY CommitMemory, Zenon
<1>6. Has(written, call[x]) => Has(Journal, call[x])
  BY JournalParts, Zenon
<1>7. IF x \notin refused'[p] THEN Has(events', call'[x]) ELSE ~ Occurs(Journal', call'[x].nr)
  BY <1>1, <1>3, <1>4, <1>5, <1>6, Zenon
<1> QED
  BY <1>1, <1>7, Zenon DEF Placed

LEMMA FailPlace ==
  ASSUME TypeOK, TypeOK', JournalInv, PlaceInv, NEW t \in Thread, InsertFails(t) \/ CommitFails(t), NEW x \in InSeq(batch'[ProcOf[t]])
  PROVE  Placed(t, ProcOf[t], x)'
<1> DEFINE p == ProcOf[t]
<1>1. /\ UNCHANGED <<batch, call, events>> /\ pc[t] = "commit" /\ pc'[t] = "failed" /\ written' = <<>>
  BY TypeParts, Zenon DEF InsertFails, CommitFails, Validating, ThreadType, group
<1>2. Has(written, call[x]) \/ ~ Occurs(Journal, call[x].nr)
  BY <1>1, PlacedNow, Zenon DEF Placed
<1>3. ~ Occurs(events, call[x].nr)
  BY <1>2, JournalParts, Zenon DEF JournalInv
<1>4. Journal' = events
  <2>1. events \in Seq(Event)
    BY JournalParts, Zenon
  <2>2. events \o <<>> = events
    BY <2>1, WholePrefix, Zenon
  <2> QED
    BY <1>1, <2>2, Zenon DEF Journal
<1> QED
  BY <1>1, <1>3, <1>4, Zenon DEF Placed

LEMMA ResetPlace ==
  ASSUME TypeOK, PlaceInv, NEW t \in Thread, Reset(t), NEW x \in InSeq(batch'[ProcOf[t]])
  PROVE  Placed(t, ProcOf[t], x)'
<1>1. UNCHANGED <<batch, call>> /\ pc[t] = "failed" /\ pc'[t] = "strand" /\ UNCHANGED disk
  BY TypeParts, Zenon DEF Reset, ThreadType, group
<1>2. ~ Occurs(Journal, call[x].nr)
  BY <1>1, PlacedNow, Zenon DEF Placed
<1>3. Journal' = Journal
  BY <1>1, JournalSame, Zenon
<1> QED
  BY <1>1, <1>2, <1>3, Zenon DEF Placed

(* The captured items, over all steps. *)
LEMMA BatchPlace ==
  ASSUME TypeOK, BatonInv, QueueInv, CommitInv, CallInv, JournalInv, PlaceInv, TypeOK', QueueInv', [Next]_vars,
         NEW t \in Thread, NEW x \in InSeq(batch'[ProcOf[t]])
  PROVE  Placed(t, ProcOf[t], x)'
<1> DEFINE p == ProcOf[t]
<1>0. p \in Process
  BY SchedulingFacts, Zenon
<1>1. CASE pc'[t] \notin Late
  BY <1>1, Zenon DEF Placed, Late
<1>2. ASSUME pc'[t] \in Late, pc'[t] = pc[t], batch'[p] = batch[p], done'[p] = done[p], refused'[p] = refused[p],
             ~ Insert(t), pc[t] = "commit" => written' = written
      PROVE  Placed(t, p, x)'
  <2>1. x \in InSeq(batch[p])
    BY <1>2, Zenon
  <2>2. x \in Thread /\ Active(x) /\ ProcOf[x] = p
    BY <1>0, <2>1, QueueOf, Zenon
  <2>3. Active(x)'
    BY <1>0, Zenon DEF QueueInv
  <2>4. call'[x] = call[x]
    BY <2>2, <2>3, CallStays, Zenon
  <2>5. ASSUME ~ Occurs(Journal, call[x].nr) PROVE ~ Occurs(Journal', call'[x].nr)
    <3>1. ASSUME NEW u \in Thread, Insert(u), x = Item(ProcOf[u]) PROVE FALSE
      <4>1. Validating(u)
        BY <3>1, Zenon DEF Insert
      <4>2. ProcOf[Item(ProcOf[u])] = ProcOf[u]
        BY <4>1, ItemFresh, Zenon
      <4>3. ProcOf[u] = p /\ pc[u] \in Working /\ pc[t] \in Working /\ u # t
        BY <1>2, <2>2, <3>1, <4>1, <4>2, SchedulingFacts, Zenon DEF Validating, Working
      <4> QED
        BY <4>3, OneWorks, Zenon
    <3> QED
      BY <2>2, <2>3, <2>5, <3>1, StaysOut, Zenon
  <2>6. Has(events, call[x]) => Has(events', call'[x])
    BY <2>4, PlacesStay, Zenon
  <2>7. pc[t] = "commit" /\ Has(written, call[x]) => Has(written', call'[x])
    BY <1>2, <2>4, Zenon
  <2>8. Placed(t, p, x)
    BY <2>1, PlacedNow, Zenon
  <2>9. pc'[t] = "commit" => IF x \in FirstOf(batch'[p], done'[p]) /\ x \notin refused'[p]
                             THEN Has(written', call'[x]) ELSE ~ Occurs(Journal', call'[x].nr)
    BY <1>2, <2>5, <2>7, <2>8, Zenon DEF Placed
  <2>10. pc'[t] = "publish" => IF x \notin refused'[p] THEN Has(events', call'[x]) ELSE ~ Occurs(Journal', call'[x].nr)
    BY <1>2, <2>5, <2>6, <2>8, Zenon DEF Placed
  <2>11. pc'[t] \in {"failed", "strand"} => ~ Occurs(Journal', call'[x].nr)
    BY <1>2, <2>5, <2>8, Zenon DEF Placed
  <2> QED
    BY <2>9, <2>10, <2>11, Zenon DEF Placed
<1>3. ~ BeginFails(t)
  <2> SUFFICES ASSUME BeginFails(t) PROVE FALSE
    BY Zenon
  <2>1. pc[t] = "draining" /\ batch' = batch
    BY Zenon DEF BeginFails, group
  <2> QED
    BY <2>1, NothingCaptured, InSeqEmpty, Zenon
<1> QED
  BY <1>1, <1>2, <1>3, LateStep, BeginPlace, InsertPlace, RefusePlace, CommitPlace, FailPlace, ResetPlace, Zenon

(* What was told stays true. *)
LEMMA AnsweredPlace ==
  ASSUME TypeOK, BatonInv, QueueInv, CommitInv, CallInv, JournalInv, PlaceInv, [Next]_vars, NEW a \in answered'
  PROVE  IF a.ok THEN Has(events', a.event) ELSE ~ Occurs(Journal', a.event.nr)
<1>1. CASE a \in answered
  <2>1. IF a.ok THEN Has(events, a.event) ELSE ~ Occurs(Journal, a.event.nr)
    BY <1>1, Zenon DEF PlaceInv
  <2>2. a.event.nr \in Nat /\ a.event.nr <= calls /\ \A x \in Thread : Active(x) => call[x].nr # a.event.nr
    BY <1>1, NumberTypes, Zenon DEF CallInv
  <2>3. ASSUME NEW t \in Thread, Insert(t) PROVE a.event.nr # call[Item(ProcOf[t])].nr
    <3>1. Validating(t)
      BY <2>3, Zenon DEF Insert
    <3>2. Item(ProcOf[t]) \in Thread /\ Active(Item(ProcOf[t]))
      BY <3>1, ItemFresh, Zenon
    <3> QED
      BY <2>2, <3>2, Zenon
  <2> QED
    BY <2>1, <2>2, <2>3, PlacesStay, Zenon
<1>2. ASSUME NEW t \in Thread, Return(t), a = [event |-> call[t], ok |-> (receipt[t] = "ok")]
      PROVE  IF a.ok THEN Has(events', a.event) ELSE ~ Occurs(Journal', a.event.nr)
  <2>1. a.event = call[t] /\ a.ok = (receipt[t] = "ok")
    BY <1>2, Zenon
  <2>2. events' = events /\ Journal' = Journal /\ receipt[t] # "none"
    BY <1>2, JournalSame, Zenon DEF Return
  <2>3. receipt[t] = "ok" \/ receipt[t] \in {"rejected", "failed"}
    <3>1. receipt[t] \in Receipt
      BY TypeParts, Zenon DEF ThreadType
    <3> QED
      BY <2>2, <3>1, Zenon DEF Receipt
  <2>4. IF receipt[t] = "ok" THEN Has(events, call[t]) ELSE ~ Occurs(Journal, call[t].nr)
    BY <2>3, Zenon DEF PlaceInv
  <2> QED
    BY <2>1, <2>2, <2>4, Zenon
<1>3. ASSUME NEW t \in Thread, NEW op \in Op, NEW f \in Flow, Mutate(t, op, f), a = [event |-> MutationOf(t, op, f), ok |-> TRUE]
      PROVE  a.ok /\ Has(events', a.event)
  <2> DEFINE e == MutationOf(t, op, f)
  <2>1. a.event = e /\ a.ok
    BY <1>3, Zenon
  <2>2. e \in Event
    BY <1>3, MutateFacts, Zenon
  <2>3. events' = Append(events, e)
    BY <1>3, Zenon DEF Mutate
  <2> HIDE DEF e
  <2> QED
    BY <2>1, <2>2, <2>3, JournalParts, AppendedFacts, Zenon
<1>4. ASSUME NEW t \in Thread, NEW op \in Op, NEW f \in Flow, MutateFails(t, op, f), a = [event |-> MutationOf(t, op, f), ok |-> FALSE]
      PROVE  ~ a.ok /\ ~ Occurs(Journal', a.event.nr)
  <2> DEFINE e == MutationOf(t, op, f)
  <2>1. a.event = e /\ ~ a.ok
    BY <1>4, Zenon
  <2>2. e.nr = calls + 1
    BY <1>4, MutateFacts
  <2>3. UNCHANGED disk
    BY <1>4, Zenon DEF MutateFails
  <2> HIDE DEF e
  <2>4. Journal' = Journal /\ Journal \in Seq(Event) /\ calls \in Nat
    BY <2>3, JournalSame, JournalParts, NumberTypes, Zenon
  <2>5. ~ Occurs(Journal, calls + 1)
    BY <2>4, NumberedMore, Zenon DEF JournalInv
  <2> QED
    BY <2>1, <2>2, <2>4, <2>5, Zenon
<1> QED
  BY <1>1, <1>2, <1>3, <1>4, AnsweredStep, Zenon

(* Every transition is where its caller is told it is, over all steps. *)
LEMMA PlaceStep ==
  ASSUME TypeOK, BatonInv, QueueInv, CommitInv, CallInv, JournalInv, PlaceInv, TypeOK', BatonInv', QueueInv', [Next]_vars
  PROVE  PlaceInv'
<1>1. \A t \in Thread : receipt'[t] = "ok" => Has(events', call'[t])
  BY ReceiptPlace, Zenon
<1>2. \A t \in Thread : receipt'[t] \in {"rejected", "failed"} => ~ Occurs(Journal', call'[t].nr)
  BY ReceiptPlace, Zenon
<1>3. \A p \in Process : \A x \in InSeq(queue'[p]) : ~ Occurs(Journal', call'[x].nr)
  BY QueuePlace, Zenon
<1>4. \A t \in Thread : \A x \in InSeq(batch'[ProcOf[t]]) : Placed(t, ProcOf[t], x)'
  BY BatchPlace, Zenon
<1>5. \A a \in answered' : IF a.ok THEN Has(events', a.event) ELSE ~ Occurs(Journal', a.event.nr)
  BY AnsweredPlace, Zenon
<1> QED
  BY <1>1, <1>2, <1>3, <1>4, <1>5, Zenon DEF PlaceInv
-----------------------------------------------------------------------------
(* What the views say. *)
LEMMA PrefixStep ==
  ASSUME NEW v \in Seq(Event), NEW w \in Seq(Event), NEW i \in DOMAIN v
  PROVE  SubSeq(v \o w, 1, i - 1) = SubSeq(v, 1, i - 1) /\ (v \o w)[i] = v[i] /\ i \in DOMAIN (v \o w)
<1>1. i - 1 \in Nat /\ i - 1 <= Len(v)
  OBVIOUS
<1>2. SubSeq(v \o w, 1, i - 1) = SubSeq(v, 1, i - 1)
  BY <1>1, PrefixOfConcat, Zenon
<1> QED
  BY <1>2, Concatenated, Zenon

(* A prefix of a journal that replays does. *)
LEMMA ReplayablePrefix ==
  ASSUME NEW v \in Seq(Event), NEW w \in Seq(Event), Replayable(v \o w)
  PROVE  Replayable(v)
<1> SUFFICES ASSUME NEW i \in DOMAIN v PROVE Accepts(SubSeq(v, 1, i - 1), v[i])
  BY Zenon DEF Replayable
<1>1. i \in DOMAIN (v \o w) /\ SubSeq(v \o w, 1, i - 1) = SubSeq(v, 1, i - 1) /\ (v \o w)[i] = v[i]
  BY PrefixStep, Zenon
<1>2. Accepts(SubSeq(v \o w, 1, i - 1), (v \o w)[i])
  BY <1>1, Zenon DEF Replayable
<1> QED
  BY <1>1, <1>2, Zenon

(* So does a journal with an event more that validation accepts. *)
LEMMA ReplayableAppend ==
  ASSUME NEW v \in Seq(Event), NEW e \in Event, Replayable(v), Accepts(v, e)
  PROVE  Replayable(Append(v, e))
<1> DEFINE w == Append(v, e)
<1>0. w = v \o <<e>> /\ <<e>> \in Seq(Event) /\ Len(v) \in Nat /\ (Len(v) + 1) - 1 = Len(v)
  <2>1. Len(v) \in Nat
    OBVIOUS
  <2> QED
    BY <2>1, AppendIsConcat
<1>1. DOMAIN w = DOMAIN v \cup {Len(v) + 1} /\ w[Len(v) + 1] = e
  BY Appended, Zenon
<1>2. SubSeq(w, 1, Len(v)) = v
  <2>1. SubSeq(w, 1, Len(v)) = SubSeq(v, 1, Len(v))
    BY <1>0, PrefixOfAppend
  <2> QED
    BY <2>1, WholePrefix, Zenon
<1> HIDE DEF w
<1> SUFFICES ASSUME NEW i \in DOMAIN w PROVE Accepts(SubSeq(w, 1, i - 1), w[i])
  BY Zenon DEF Replayable, w
<1>3. CASE i \in DOMAIN v
  <2>1. SubSeq(w, 1, i - 1) = SubSeq(v, 1, i - 1) /\ w[i] = v[i]
    BY <1>0, <1>3, PrefixStep, Zenon
  <2>2. Accepts(SubSeq(v, 1, i - 1), v[i])
    BY <1>3, Zenon DEF Replayable
  <2> QED
    BY <2>1, <2>2, Zenon
<1>4. CASE i = Len(v) + 1
  <2>1. SubSeq(w, 1, i - 1) = v /\ w[i] = e
    BY <1>0, <1>1, <1>2, <1>4, Zenon
  <2> QED
    BY <2>1, Zenon
<1> QED
  BY <1>1, <1>3, <1>4, Zenon

(* A spoilt checkpoint stays. *)
LEMMA SpoiltStays == ASSUME TypeOK, [Next]_vars, ~ spoilt' PROVE ~ spoilt
<1>1. ASSUME NEW t \in Thread, Drain(t) PROVE spoilt' = spoilt
  BY <1>1, Zenon DEF Drain, Lead, Begin, BeginFails, Insert, Refuse, InsertFails, Commit, CommitFails, Reset, Strand,
                     Publish, Return, disk
<1>2. ASSUME NEW t \in Thread, NEW op \in Op, NEW f \in Flow, Mutate(t, op, f) PROVE ~ spoilt
  BY <1>2, Zenon DEF Mutate
<1>3. ASSUME NEW t \in Thread, NEW op \in Op, NEW f \in Flow, Submit(t, op, f) \/ MutateFails(t, op, f) PROVE spoilt' = spoilt
  BY <1>3, Zenon DEF Submit, MutateFails, disk
<1>4. ASSUME NEW p \in Process, Read(p) \/ Close(p) \/ Crash(p) PROVE spoilt' = spoilt
  BY <1>4, Zenon DEF Read, Close, Crash, disk
<1>5. UNCHANGED vars => spoilt' = spoilt
  BY Zenon DEF vars, disk
<1> QED
  BY <1>1, <1>2, <1>3, <1>4, <1>5, Zenon DEF Next

(* A clean view catches up to the journal's own prefix. *)
LEMMA CaughtClean ==
  ASSUME TypeOK, BoundInv, ViewInv, NEW p \in Process, Clean(p)
  PROVE  /\ \A n \in StartOf(p) .. Len(events) : CaughtUpTo(p, n) = SubSeq(events, 1, n)
         /\ Caught(p) = events
<1>0. /\ events \in Seq(Event) /\ StartOf(p) \in Nat /\ StartOf(p) <= Len(events) /\ Len(events) \in Nat
  <2>1. events \in Seq(Event)
    BY JournalParts, Zenon
  <2>2. Len(events) \in Nat
    BY <2>1
  <2> QED
    BY <2>1, <2>2, CaughtToAll, StartType, Zenon
<1>1. (IF Ahead(p) THEN checkpoint.view ELSE view[p]) = SubSeq(events, 1, StartOf(p))
  BY Zenon DEF StartOf, ViewInv, CheckpointIsProjection
<1>2. ASSUME NEW n \in StartOf(p) .. Len(events) PROVE CaughtUpTo(p, n) = SubSeq(events, 1, n)
  <2>1. n \in Nat /\ StartOf(p) <= n /\ n <= Len(events)
    BY <1>0
  <2>2. SubSeq(events, 1, StartOf(p)) \o SubSeq(events, StartOf(p) + 1, n) = SubSeq(events, 1, n)
    BY <1>0, <2>1, PrefixAndRest, Zenon
  <2>3. CaughtUpTo(p, n) = (IF Ahead(p) THEN checkpoint.view ELSE view[p]) \o SubSeq(events, StartOf(p) + 1, n)
    BY Zenon DEF CaughtUpTo
  <2> QED
    BY <1>1, <2>2, <2>3, Zenon
<1>3. Len(events) \in StartOf(p) .. Len(events)
  BY <1>0
<1>4. SubSeq(events, 1, Len(events)) = events
  BY <1>0, WholePrefix, Zenon
<1>5. Caught(p) = events
  BY <1>2, <1>3, <1>4, Zenon DEF Caught
<1> QED
  BY <1>2, <1>5, Zenon

(* _maybe_checkpoint stores a prefix of the journal. *)
LEMMA StoredView ==
  ASSUME TypeOK, TypeOK', CommitInv, BoundInv, ViewInv, [Next]_vars, ~ spoilt'
  PROVE  CheckpointIsProjection'
<1>0. events' \in Seq(Event) /\ checkpoint.seq \in Nat
  <2>1. checkpoint \in [seq : Nat, view : Seq(Event)]
    BY TypeParts, Zenon DEF DiskType
  <2>2. checkpoint.seq \in Nat
    BY <2>1, Zenon
  <2>3. events' \in Seq(Event)
    BY Zenon DEF TypeOK
  <2> QED
    BY <2>2, <2>3, Zenon
<1>1. CASE checkpoint' = checkpoint
  <2>1. checkpoint.seq <= Len(events) /\ checkpoint.view = SubSeq(events, 1, checkpoint.seq)
    BY Zenon DEF ViewInv, CheckpointIsProjection
  <2>2. checkpoint.seq <= Len(events')
    <3>1. Len(events) \in Nat /\ Len(events') \in Nat /\ Len(events) <= Len(events')
      BY NothingLost, Zenon
    <3> QED
      BY <1>0, <2>1, <3>1
  <2>3. SubSeq(events', 1, checkpoint.seq) = SubSeq(events, 1, checkpoint.seq)
    BY <1>0, <2>1, NothingLost, Zenon
  <2> QED
    BY <1>1, <2>1, <2>2, <2>3, Zenon DEF CheckpointIsProjection
<1>2. ASSUME checkpoint'.seq = Len(events'), checkpoint'.view = events' PROVE CheckpointIsProjection'
  <2>1. SubSeq(events', 1, Len(events')) = events' /\ Len(events') <= Len(events')
    <3>1. Len(events') \in Nat
      BY <1>0
    <3> QED
      BY <1>0, <3>1, WholePrefix
  <2> QED
    BY <1>2, <2>1, Zenon DEF CheckpointIsProjection
<1>3. ASSUME NEW t \in Thread, Commit(t), checkpoint' = [seq |-> applied[ProcOf[t]], view |-> view[ProcOf[t]]]
      PROVE  CheckpointIsProjection'
  <2>1. checkpoint'.seq = applied[ProcOf[t]] /\ checkpoint'.view = view[ProcOf[t]]
    BY <1>3, Zenon
  <2>2. events' = Journal /\ Len(Journal) = applied[ProcOf[t]]
    BY <1>3, CommitMemory, Zenon
  <2>3. view[ProcOf[t]] = Journal
    BY <1>3, Zenon DEF Commit, ViewInv
  <2> QED
    BY <1>2, <2>1, <2>2, <2>3, Zenon
<1>4. ASSUME NEW t \in Thread, NEW op \in Op, NEW f \in Flow, Mutate(t, op, f), Poisoned(ProcOf[t]) => spoilt',
             checkpoint' = [seq |-> Len(events) + 1, view |-> Append(Caught(ProcOf[t]), MutationOf(t, op, f))]
      PROVE  CheckpointIsProjection'
  <2>1. checkpoint'.seq = Len(events) + 1 /\ checkpoint'.view = Append(Caught(ProcOf[t]), MutationOf(t, op, f))
    BY <1>4, Zenon
  <2>2. CutFree(ProcOf[t]) /\ ProcOf[t] \in Process
    BY <1>4, SchedulingFacts, Zenon DEF Mutate, Mutation
  <2>3. Caught(ProcOf[t]) = events
    BY <1>4, <2>2, CaughtClean, Zenon DEF Clean
  <2>4. events' = Append(events, MutationOf(t, op, f)) /\ Len(events') = Len(events) + 1
    BY <1>4, MutateWrites, Zenon
  <2> QED
    BY <1>2, <2>1, <2>3, <2>4, Zenon
<1> QED
  BY <1>1, <1>3, <1>4, CheckpointStep, Zenon

(* Clean views are prefixes, over all steps. *)
LEMMA CleanViews ==
  ASSUME TypeOK, TypeOK', BatonInv, QueueInv, CommitInv, BoundInv, ViewInv, [Next]_vars, NEW q \in Process, Clean(q)'
  PROVE  applied'[q] <= Len(events') /\ view'[q] = SubSeq(events', 1, applied'[q]) /\ readAt'[q] <= applied'[q]
<1> DEFINE Good == applied'[q] <= Len(events') /\ view'[q] = SubSeq(events', 1, applied'[q]) /\ readAt'[q] <= applied'[q]
<1>0. /\ events \in Seq(Event) /\ events' \in Seq(Event) /\ Len(events) \in Nat /\ Len(events') \in Nat
      /\ Len(events) <= Len(events') /\ applied[q] \in Nat /\ readAt[q] \in Nat \cup {Unread}
  <2>1. events \in Seq(Event) /\ applied[q] \in Nat /\ readAt[q] \in Nat \cup {Unread}
    BY TypeParts, Zenon DEF DiskType, MemoryType
  <2>2. events' \in Seq(Event)
    BY Zenon DEF TypeOK
  <2> QED
    BY <2>1, <2>2, NothingLost, Zenon
<1>1. ASSUME Clean(q), view'[q] = view[q], applied'[q] = applied[q], readAt'[q] = readAt[q] PROVE Good
  <2>1. applied[q] <= Len(events) /\ view[q] = SubSeq(events, 1, applied[q]) /\ readAt[q] <= applied[q]
    BY <1>1, Zenon DEF ViewInv
  <2>2. applied[q] <= Len(events')
    BY <1>0, <2>1
  <2>3. SubSeq(events', 1, applied[q]) = SubSeq(events, 1, applied[q])
    BY <1>0, <2>1, NothingLost, Zenon
  <2> QED
    BY <1>1, <2>1, <2>2, <2>3, Zenon
<1>2. ASSUME view'[q] = <<>>, applied'[q] = 0, readAt'[q] = Unread PROVE Good
  <2>1. SubSeq(events', 1, 0) = <<>>
    BY <1>0, WholePrefix, Zenon
  <2>2. 0 <= Len(events') /\ Unread <= 0
    BY <1>0 DEF Unread
  <2> QED
    BY <1>2, <2>1, <2>2, Zenon
<1>3. ASSUME view'[q] = events', applied'[q] = Len(events'), readAt'[q] \in Nat \cup {Unread}, readAt'[q] <= Len(events) PROVE Good
  <2>1. SubSeq(events', 1, Len(events')) = events'
    BY <1>0, WholePrefix, Zenon
  <2>2. Len(events') <= Len(events') /\ readAt'[q] <= Len(events')
    BY <1>0, <1>3 DEF Unread
  <2> QED
    BY <1>3, <2>1, <2>2, Zenon
<1>4. ASSUME NEW t \in Thread, ProcOf[t] = q, Commit(t), view'[q] = view[q], applied'[q] = applied[q], readAt'[q] = readAt[q]
      PROVE  Good
  <2>1. events' = Journal /\ Len(Journal) = applied[q]
    BY <1>4, CommitMemory, Zenon
  <2>2. view[q] = Journal /\ readAt[q] <= Len(events)
    BY <1>4, Zenon DEF Commit, ViewInv
  <2> QED
    BY <1>0, <1>3, <1>4, <2>1, <2>2, Zenon
<1>5. ASSUME NEW t \in Thread, ProcOf[t] = q, CommitFails(t), view'[q] = view[q], applied'[q] = applied[q], readAt'[q] = readAt[q]
      PROVE  Good
  <2>1. written = <<>> /\ applied[q] = Len(events) /\ events' = events
    BY <1>5, EmptyCommit, Zenon
  <2>2. view[q] = Journal /\ readAt[q] <= Len(events)
    BY <1>5, Zenon DEF CommitFails, ViewInv
  <2>3. Journal = events
    BY <2>1, JournalParts, Zenon
  <2> QED
    BY <1>0, <1>3, <1>5, <2>1, <2>2, <2>3, Zenon
<1>6. ASSUME Clean(q), NEW t \in Thread, NEW op \in Op, NEW f \in Flow, ProcOf[t] = q, Mutate(t, op, f) PROVE Good
  <2>1. /\ events' = Append(events, MutationOf(t, op, f)) /\ Len(events') = Len(events) + 1
        /\ view'[q] = Append(Caught(q), MutationOf(t, op, f)) /\ applied'[q] = Len(events) + 1 /\ readAt'[q] = Len(events)
    <3>1. /\ events' = Append(events, MutationOf(t, op, f)) /\ Len(events') = Len(events) + 1
          /\ view'[ProcOf[t]] = Append(Caught(ProcOf[t]), MutationOf(t, op, f))
          /\ applied'[ProcOf[t]] = Len(events) + 1 /\ readAt'[ProcOf[t]] = Len(events)
      <4>1. Mutate(t, op, f)
        BY <1>6, Zenon
      <4> QED
        BY <4>1, MutateWrites, Zenon
    <3> QED
      BY <1>6, <3>1, Zenon
  <2>2. Caught(q) = events
    BY <1>6, CaughtClean, Zenon
  <2>3. Len(events) <= Len(events)
    BY <1>0
  <2>4. readAt'[q] \in Nat \cup {Unread}
    BY <1>0, <2>1, Zenon
  <2> QED
    BY <1>3, <2>1, <2>2, <2>3, <2>4, Zenon
<1>7. ASSUME Clean(q), Read(q) PROVE Good
  <2>1. CaughtTo(q) = Len(events) /\ StartOf(q) \in Nat /\ StartOf(q) >= applied[q]
    BY <1>7, CaughtToAll, StartType, Zenon
  <2>2. PICK n \in StartOf(q) .. CaughtTo(q) :
           /\ events' = events /\ view'[q] = CaughtUpTo(q, n) /\ applied'[q] = n
           /\ readAt'[q] = IF n < Len(events) THEN readAt[q] ELSE Len(events)
    BY <1>7, ReadMemory, Zenon
  <2>3. n \in StartOf(q) .. Len(events)
    BY <2>1, <2>2, Zenon
  <2>4. CaughtUpTo(q, n) = SubSeq(events, 1, n)
    BY <1>7, <2>3, CaughtClean, Zenon
  <2>5. readAt[q] <= applied[q]
    BY <1>7, Zenon DEF ViewInv
  <2>6. n <= Len(events) /\ (IF n < Len(events) THEN readAt[q] ELSE Len(events)) <= n
    BY <1>0, <2>1, <2>3, <2>5 DEF Unread
  <2> QED
    BY <2>2, <2>4, <2>6, Zenon
<1> QED
  BY <1>1, <1>2, <1>4, <1>5, <1>6, <1>7, MemoryStep, Zenon

(* The transaction of a thread, and the view that its group is in. *)
LEMMA WriterStep ==
  ASSUME TypeOK, BatonInv, CommitInv, [Next]_vars, NEW t \in Thread, pc'[t] = "commit"
  PROVE  \/ Begin(t) \/ Insert(t)
         \/ /\ pc[t] = "commit" /\ UNCHANGED <<events, written>>
            /\ view'[ProcOf[t]] = view[ProcOf[t]] /\ readAt'[ProcOf[t]] = readAt[ProcOf[t]]
<1> DEFINE p == ProcOf[t]
           Kept == /\ pc[t] = "commit" /\ UNCHANGED <<events, written>>
                   /\ view'[p] = view[p] /\ readAt'[p] = readAt[p]
<1>0. p \in Process
  BY SchedulingFacts, Zenon
<1>1. ASSUME pc[t] # "commit" PROVE Begin(t)
  <2>1. pc'[t] # pc[t] /\ pc'[t] \in Late
    BY <1>1, Zenon DEF Late
  <2>2. Begin(t) \/ BeginFails(t) \/ Reset(t)
    BY <1>1, <2>1, LateStep, Zenon DEF Insert, Refuse, Commit, InsertFails, CommitFails, Validating
  <2>3. BeginFails(t) => pc'[t] = "failed"
    BY TypeParts, Zenon DEF BeginFails, ThreadType
  <2>4. Reset(t) => pc'[t] = "strand"
    BY TypeParts, Zenon DEF Reset, ThreadType
  <2> QED
    BY <2>2, <2>3, <2>4, Zenon
<1> SUFFICES ASSUME pc[t] = "commit" PROVE Kept \/ Insert(t)
  BY <1>1, Zenon
<1>2. \A u \in Thread : pc[u] = "commit" => u = t
  BY Zenon DEF CommitInv
<1>3. ~ CutFree(p) /\ ~ WriterFree
  BY Zenon DEF CutFree, WriterFree
<1>4. ASSUME NEW u \in Thread, NEW op \in Op, NEW f \in Flow, Submit(u, op, f) \/ Mutate(u, op, f) \/ MutateFails(u, op, f)
      PROVE  Kept
  BY <1>3, <1>4, Zenon DEF Submit, Mutate, MutateFails, Mutation, disk, memory
<1>5. ASSUME NEW q \in Process, Read(q) PROVE Kept
  <2>1. q # p
    BY <1>3, <1>5, Zenon DEF Read
  <2> QED
    BY <1>0, <1>5, <2>1, TypeParts, Zenon DEF Read, MemoryType, disk
<1>6. ASSUME NEW q \in Process, Crash(q) PROVE Kept
  <2>1. q # p
    BY <1>6, Zenon DEF Crash
  <2>2. CutFree(q)
    BY <1>2, <2>1, Zenon DEF CutFree
  <2> QED
    BY <1>0, <1>6, <2>1, <2>2, TypeParts, Zenon DEF Crash, ResetView, MemoryType
<1>7. ASSUME NEW q \in Process, Close(q) PROVE Kept
  BY <1>7, Zenon DEF Close, disk, memory
<1>8. UNCHANGED vars => Kept
  BY Zenon DEF vars, disk, memory
<1>9. ASSUME NEW u \in Thread, Reset(u) PROVE Kept
  <2>1. ProcOf[u] # p
    BY <1>3, <1>9, Zenon DEF Reset
  <2> QED
    BY <1>0, <1>9, <2>1, TypeParts, Zenon DEF Reset, ResetView, MemoryType, disk
<1>10. ASSUME NEW u \in Thread, Commit(u) \/ CommitFails(u) \/ InsertFails(u) PROVE FALSE
  <2>1. u = t
    BY <1>2, <1>10, Zenon DEF Commit, CommitFails, InsertFails, Validating
  <2>2. pc'[u] # "commit"
    BY <1>10, TypeParts, Zenon DEF Commit, CommitFails, InsertFails, ThreadType
  <2> QED
    BY <2>1, <2>2, Zenon
<1>11. ASSUME NEW u \in Thread, Lead(u) \/ BeginFails(u) \/ Refuse(u) \/ Strand(u) \/ Publish(u) \/ Return(u) PROVE Kept
  BY <1>11, Zenon DEF Lead, BeginFails, Refuse, Strand, Publish, Return, disk, memory
<1>12. ASSUME NEW u \in Thread, Begin(u) PROVE FALSE
  BY <1>3, <1>12, Zenon DEF Begin
<1>13. ASSUME NEW u \in Thread, Insert(u) PROVE Insert(t)
  <2>1. pc[u] = "commit"
    BY <1>13, Zenon DEF Insert, Validating
  <2> QED
    BY <1>2, <1>13, <2>1, Zenon
<1>14. ASSUME NEW u \in Thread, Drain(u) PROVE Kept \/ Insert(t)
  BY <1>9, <1>10, <1>11, <1>12, <1>13, <1>14, Zenon DEF Drain
<1> QED
  BY <1>4, <1>5, <1>6, <1>7, <1>8, <1>14, Zenon DEF Next

LEMMA InsertView ==
  ASSUME TypeOK, ViewInv, NEW t \in Thread, Insert(t)
  PROVE  LET p == ProcOf[t]
             e == call[Item(p)] IN
         /\ e \in Event /\ view[p] = Journal /\ view'[p] = Append(Journal, e) /\ Journal' = Append(Journal, e)
         /\ Accepts(Journal, e) /\ readAt' = readAt /\ events' = events
<1> DEFINE p == ProcOf[t]
           e == call[Item(p)]
<1>1. p \in Process /\ Validating(t) /\ pc[t] = "commit" /\ readAt' = readAt /\ events' = events /\ written' = Append(written, e)
  BY SchedulingFacts, Zenon DEF Insert, Validating
<1>2. e \in Event
  BY <1>1, ItemType, Zenon
<1>3. view[p] = Journal
  BY <1>1, Zenon DEF ViewInv
<1>4. Accepts(view[p], e) /\ view'[p] = Append(view[p], e)
  BY <1>1, TypeParts, Zenon DEF Insert, MemoryType
<1>5. events \in Seq(Event) /\ written \in Seq(Event)
  BY JournalParts, Zenon
<1> HIDE DEF e
<1>6. events \o Append(written, e) = Append(events \o written, e)
  BY <1>2, <1>5, AppendLast
<1>7. Journal' = Append(Journal, e)
  BY <1>1, <1>6, Zenon DEF Journal
<1> QED
  BY <1>1, <1>2, <1>3, <1>4, <1>7, Zenon DEF e

(* The writer validates with the journal and its own rows. *)
LEMMA WriterViews ==
  ASSUME TypeOK, TypeOK', BatonInv, QueueInv, CommitInv, BoundInv, ViewInv, [Next]_vars, NEW t \in Thread, pc'[t] = "commit"
  PROVE  view'[ProcOf[t]] = Journal' /\ readAt'[ProcOf[t]] <= Len(events')
<1> DEFINE p == ProcOf[t]
<1>0. p \in Process
  BY SchedulingFacts, Zenon
<1>1. ASSUME pc[t] = "commit", UNCHANGED <<events, written>>, view'[p] = view[p], readAt'[p] = readAt[p]
      PROVE  view'[p] = Journal' /\ readAt'[p] <= Len(events')
  BY <1>1, Zenon DEF ViewInv, Journal
<1>2. ASSUME Insert(t) PROVE view'[p] = Journal' /\ readAt'[p] <= Len(events')
  <2>1. pc[t] = "commit"
    BY <1>2, Zenon DEF Insert, Validating
  <2>2. readAt[p] <= Len(events)
    BY <2>1, Zenon DEF ViewInv
  <2> QED
    BY <1>2, <2>2, InsertView, Zenon
<1>3. ASSUME Begin(t) PROVE view'[p] = Journal' /\ readAt'[p] <= Len(events')
  <2>1. Clean(p) /\ (\A u \in Thread : pc[u] # "commit")
    BY <1>3, WorksAlone, SchedulingFacts, Zenon DEF Begin, Clean, WriterFree
  <2>2. view'[p] = Caught(p) /\ readAt'[p] = Len(events) /\ UNCHANGED disk
    BY <1>0, <1>3, TypeParts, Zenon DEF Begin, MemoryType
  <2>3. Caught(p) = events
    BY <1>0, <2>1, CaughtClean, Zenon
  <2>4. written = <<>>
    BY <2>1, Zenon DEF CommitInv
  <2>5. Journal' = events /\ events' = events
    BY <2>2, <2>4, JournalParts, JournalSame, Zenon
  <2>6. Len(events) <= Len(events)
    <3>1. events \in Seq(Event)
      BY JournalParts, Zenon
    <3> QED
      BY <3>1
  <2> QED
    BY <2>2, <2>3, <2>5, <2>6, Zenon
<1> QED
  BY <1>1, <1>2, <1>3, WriterStep, Zenon
-----------------------------------------------------------------------------
(* What threads own is matched by grants. *)
NextOwes(w, t, f) ==
  \/ f \in own'[t] /\ ~ (pc'[t] # "idle" /\ call'[t].flow = f /\ Has(w, call'[t]))
  \/ pc'[t] # "idle" /\ call'[t].op = "grant" /\ call'[t].flow = f /\ Has(w, call'[t])

NextDebts(w) == {d \in Thread \X Flow : NextOwes(w, d[1], d[2])}

(* The debts after a step. *)
LEMMA NextDebtsAre == Debts(events)' = NextDebts(events') /\ Debts(Journal)' = NextDebts(Journal')
  BY Zenon DEF Debts, NextDebts, Owes, NextOwes, Active

LEMMA MatchedNext ==
  ASSUME NEW w, NEW D, Matched(w, D), \A t \in Thread, f \in Flow : NextOwes(w, t, f) => <<t, f>> \in D
  PROVE  Matched(w, NextDebts(w))
<1>1. NextDebts(w) \cap (Thread \X Flow) \subseteq D
  <2> SUFFICES ASSUME NEW d \in Thread \X Flow, NextOwes(w, d[1], d[2]) PROVE d \in D
    BY Zenon DEF NextDebts
  <2>1. PICK t \in Thread, f \in Flow : d = <<t, f>>
    OBVIOUS
  <2>2. d[1] = t /\ d[2] = f
    BY <2>1, Zenon
  <2> QED
    BY <2>1, <2>2, Zenon
<1> QED
  BY <1>1, MatchedLess, Zenon

(* Membership in Debts. *)
LEMMA InDebts ==
  ASSUME NEW v, NEW t \in Thread, NEW f \in Flow
  PROVE  <<t, f>> \in Debts(v) <=> Owes(v, t, f)
  BY Zenon DEF Debts

(* A thread that the step leaves alone owes what it owed. *)
LEMMA OwesSame ==
  ASSUME NEW v, NEW w, NEW x, own'[x] = own[x], Active(x)' <=> Active(x),
         Active(x) => call'[x] = call[x] /\ (Has(w, call[x]) <=> Has(v, call[x])),
         NEW f, NextOwes(w, x, f)
  PROVE  Owes(v, x, f)
  BY Zenon DEF NextOwes, Owes, Active

(* v is the journal with or without the rows of the open transaction. *)
Between(v) == /\ \A e : Has(events, e) => Has(v, e)
              /\ \A n : Occurs(v, n) => Occurs(Journal, n)

LEMMA BetweenBoth == ASSUME TypeOK PROVE Between(events) /\ Between(Journal)
  BY JournalParts, Zenon DEF Between

(* An event in a sequence occurs with its number. *)
LEMMA HasOccurs == ASSUME NEW v, NEW e, Has(v, e) PROVE Occurs(v, e.nr)
  BY Zenon DEF Has, Occurs

(* A queued transition changes no debt. *)
LEMMA SubmitDebts ==
  ASSUME TypeOK, JournalInv, NEW t \in Thread, NEW op \in Op, NEW f \in Flow, Submit(t, op, f),
         NEW v, Between(v), NEW x \in Thread, NEW g \in Flow, NextOwes(v, x, g)
  PROVE  Owes(v, x, g)
<1> DEFINE e == [op |-> op, flow |-> f, thread |-> t, nr |-> calls + 1]
<1>1. pc[t] = "idle" /\ own' = own /\ pc'[x] = IF x = t THEN "waiting" ELSE pc[x]
  BY TypeParts, Zenon DEF Submit, ThreadType
<1>2. call'[x] = IF x = t THEN e ELSE call[x]
  BY TypeParts, Zenon DEF Submit, CallType
<1>3. e.nr = calls + 1
  OBVIOUS
<1> HIDE DEF e
<1>4. ~ Occurs(Journal, calls + 1)
  BY JournalParts, NumberTypes, NumberedMore, Zenon DEF JournalInv
<1>5. ~ Has(v, e)
  BY <1>3, <1>4, HasOccurs, Zenon DEF Between
<1>6. CASE x = t
  BY <1>1, <1>2, <1>5, <1>6, Zenon DEF NextOwes, Owes, Active
<1>7. CASE x # t
  BY <1>1, <1>2, <1>7, OwesSame, Zenon DEF Active
<1> QED
  BY <1>6, <1>7, Zenon

(* Telling the caller moves a debt, from the transition to what it owns. *)
LEMMA ReturnDebts ==
  ASSUME TypeOK, BatonInv, CallInv, PlaceInv, NEW t \in Thread, Return(t),
         NEW v, Between(v), NEW x \in Thread, NEW g \in Flow, NextOwes(v, x, g)
  PROVE  Owes(v, x, g)
<1> DEFINE c == call[t]
           ok == receipt[t] = "ok"
<1>1. /\ pc[t] = "waiting" /\ receipt[t] # "none" /\ Tell(t, c, ok) /\ pc'[x] = (IF x = t THEN "idle" ELSE pc[x])
      /\ x # t => call'[x] = call[x]
  BY TypeParts, Zenon DEF Return, ThreadType, CallType
<1>2. Active(t) /\ c \in Event /\ c.op \in {"grant", "completion"} /\ ok \in BOOLEAN
  BY <1>1, CallOf, NumberTypes, Zenon DEF Active
<1>3. /\ ok => Has(v, c)
      /\ ~ ok => ~ Has(v, c)
  <2>1. receipt[t] = "ok" \/ receipt[t] \in {"rejected", "failed"}
    <3>1. receipt[t] \in Receipt
      BY TypeParts, Zenon DEF ThreadType
    <3> QED
      BY <1>1, <3>1, Zenon DEF Receipt
  <2>2. ok => Has(events, c)
    BY Zenon DEF PlaceInv
  <2>3. ~ ok => ~ Occurs(Journal, c.nr)
    BY <2>1, Zenon DEF PlaceInv
  <2> HIDE DEF c, ok
  <2> QED
    BY <2>2, <2>3, HasOccurs, Zenon DEF Between
<1>4. CASE x # t
  <2>1. own'[x] = own[x]
    BY <1>1, <1>4, TellOthers, Zenon
  <2>2. Active(x)' <=> Active(x)
    BY <1>1, <1>4, Zenon DEF Active
  <2> QED
    BY <1>1, <1>4, <2>1, <2>2, OwesSame, Zenon
<1>5. CASE x = t
  <2>1. own'[t] = CASE ok /\ c.op = "grant" -> own[t] \cup {c.flow}
                    [] ok /\ c.op \in {"completion", "rollback"} -> own[t] \ {c.flow}
                    [] OTHER -> own[t]
    BY <1>1, TypeParts, Zenon DEF Tell, CallType
  <2>2. g \in own'[t]
    BY <1>1, <1>5, Zenon DEF NextOwes
  <2>3. CASE ok /\ c.op = "grant"
    <3>1. own'[t] = own[t] \cup {c.flow}
      BY <2>1, <2>3, Zenon
    <3> QED
      BY <1>2, <1>3, <1>5, <2>2, <2>3, <3>1, Zenon DEF Owes
  <2>4. CASE ok /\ c.op = "completion"
    <3>1. own'[t] = own[t] \ {c.flow}
      BY <2>1, <2>4, Zenon
    <3> QED
      BY <1>2, <1>3, <1>5, <2>2, <2>4, <3>1, Zenon DEF Owes
  <2>5. CASE ~ ok
    <3>1. own'[t] = own[t]
      BY <2>1, <2>5, Zenon
    <3> QED
      BY <1>2, <1>3, <1>5, <2>2, <2>5, <3>1, Zenon DEF Owes
  <2> QED
    BY <1>2, <2>3, <2>4, <2>5, Zenon
<1> QED
  BY <1>4, <1>5, Zenon

(* No step but a mutation lets a thread owe more of the same journal. *)
LEMMA KeepsDebts ==
  ASSUME TypeOK, BatonInv, CallInv, JournalInv, PlaceInv, [Next]_vars,
         \A t \in Thread, op \in Op, f \in Flow : ~ Mutate(t, op, f),
         NEW v, Between(v), NEW x \in Thread, NEW g \in Flow, NextOwes(v, x, g)
  PROVE  Owes(v, x, g)
<1>1. ASSUME UNCHANGED <<own, call>>, Active(x)' <=> Active(x) PROVE Owes(v, x, g)
  BY <1>1, OwesSame, Zenon
<1>2. ASSUME NEW t \in Thread, NEW op \in Op, NEW f \in Flow, MutateFails(t, op, f) PROVE Owes(v, x, g)
  <2>1. own' = own
    <3> DEFINE e == MutationOf(t, op, f)
    <3>1. Tell(t, e, FALSE)
      BY <1>2, Zenon DEF MutateFails
    <3> HIDE DEF e
    <3>2. own' = [own EXCEPT ![t] = own[t]]
      BY <3>1, Zenon DEF Tell
    <3>3. own \in [Thread -> SUBSET Flow]
      BY TypeParts, Zenon DEF CallType
    <3> QED
      BY <3>2, <3>3, Zenon
  <2>2. UNCHANGED <<pc, call>>
    BY <1>2, Zenon DEF MutateFails
  <2> QED
    BY <1>1, <2>1, <2>2, Zenon DEF Active
<1>3. ASSUME NEW p \in Process, Crash(p) PROVE Owes(v, x, g)
  <2>1. CASE ProcOf[x] = p
    BY <1>3, <2>1, Zenon DEF Crash, NextOwes
  <2>2. CASE ProcOf[x] # p
    <3>1. own'[x] = own[x] /\ call'[x] = call[x] /\ pc'[x] = pc[x]
      BY <1>3, <2>2, Zenon DEF Crash
    <3> QED
      BY <3>1, OwesSame, Zenon DEF Active
  <2> QED
    BY <2>1, <2>2, Zenon
<1>4. ASSUME NEW t \in Thread, Lead(t) \/ Begin(t) \/ BeginFails(t) \/ InsertFails(t) \/ Commit(t) \/ CommitFails(t)
                               \/ Reset(t) \/ Strand(t) \/ Publish(t)
      PROVE  Owes(v, x, g)
  <2>1. pc[t] # "idle" /\ \E w : w # "idle" /\ pc' = [pc EXCEPT ![t] = w]
    BY <1>4, Zenon DEF Lead, Begin, BeginFails, InsertFails, Commit, CommitFails, Reset, Strand, Publish, Validating
  <2>2. UNCHANGED <<call, own>>
    BY <1>4, Zenon DEF Lead, Begin, BeginFails, InsertFails, Commit, CommitFails, Reset, Strand, Publish
  <2>3. Active(x)' <=> Active(x)
    BY <2>1, TypeParts, Zenon DEF Active, ThreadType
  <2> QED
    BY <1>1, <2>2, <2>3, Zenon
<1>5. ASSUME NEW t \in Thread, Insert(t) \/ Refuse(t) PROVE Owes(v, x, g)
  BY <1>1, <1>5, Zenon DEF Insert, Refuse, threads, Active
<1>6. ASSUME NEW p \in Process, Read(p) \/ Close(p) PROVE Owes(v, x, g)
  BY <1>1, <1>6, Zenon DEF Read, Close, threads, Active
<1>7. ASSUME UNCHANGED vars PROVE Owes(v, x, g)
  BY <1>1, <1>7, Zenon DEF vars, threads, Active
<1>8. ASSUME NEW t \in Thread, Drain(t) PROVE Owes(v, x, g)
  BY <1>4, <1>5, <1>8, ReturnDebts, Zenon DEF Drain
<1> QED
  BY <1>2, <1>3, <1>6, <1>7, <1>8, SubmitDebts, Zenon DEF Next

LEMMA MatchedSame ==
  ASSUME TypeOK, BatonInv, CallInv, JournalInv, PlaceInv, [Next]_vars,
         \A t \in Thread, op \in Op, f \in Flow : ~ Mutate(t, op, f),
         NEW v, Between(v), Matched(v, Debts(v))
  PROVE  Matched(v, NextDebts(v))
<1>1. \A t \in Thread, f \in Flow : NextOwes(v, t, f) => <<t, f>> \in Debts(v)
  BY KeepsDebts, InDebts, Zenon
<1> QED
  BY <1>1, MatchedNext, Zenon

LEMMA MatchedInsert ==
  ASSUME TypeOK, QueueInv, CallInv, PlaceInv, NEW t \in Thread, Insert(t), Matched(Journal, Debts(Journal))
  PROVE  LET w == Append(Journal, call[Item(ProcOf[t])]) IN Matched(w, NextDebts(w))
<1> DEFINE y == Item(ProcOf[t])
           c == call[y]
           w == Append(Journal, c)
           D == Debts(Journal)
<1>0. Journal \in Seq(Event)
  BY JournalParts, Zenon
<1>1. y \in Thread /\ Active(y) /\ c \in Event /\ ~ Occurs(Journal, c.nr)
  BY ItemFresh, Zenon DEF Insert
<1>2. UNCHANGED <<pc, call, own>>
  BY Zenon DEF Insert, threads
<1>3. c.thread = y /\ c.op \in {"grant", "completion"} /\ (c.op = "completion" <=> c.flow \in own[y]) /\ c.flow \in Flow
  <2>1. c.thread = y /\ c.op \in {"grant", "completion"} /\ (c.op = "completion" <=> c.flow \in own[y])
    BY <1>1, CallOf, Zenon
  <2> HIDE DEF c
  <2>2. c.flow \in Flow
    BY <1>1, Zenon DEF Event
  <2> QED
    BY <2>1, <2>2, Zenon
<1>4. ~ Has(Journal, c)
  BY <1>1, HasOccurs, Zenon
<1>5. ASSUME NEW x \in Thread, x # y, Active(x) PROVE call[x] # c
  BY <1>1, <1>5, Zenon DEF CallInv
<1> HIDE DEF y, c
<1>6. \A e : Has(w, e) <=> (Has(Journal, e) \/ e = c)
  BY <1>0, <1>1, AppendedFacts, Zenon
<1> HIDE DEF w
<1>7. ASSUME NEW x \in Thread, x # y, NEW f \in Flow, NextOwes(w, x, f) PROVE <<x, f>> \in D
  <2>1. Active(x) => (Has(w, call[x]) <=> Has(Journal, call[x]))
    BY <1>5, <1>6, <1>7, Zenon
  <2>2. Owes(Journal, x, f)
    BY <1>2, <1>7, <2>1, OwesSame, Zenon DEF Active
  <2> QED
    BY <2>2, InDebts, Zenon
<1>8. call[y] = c /\ Has(w, c)
  BY <1>6, Zenon DEF c
<1>9. ASSUME NEW f \in Flow, NextOwes(w, y, f) PROVE (f \in own[y] /\ f # c.flow) \/ (c.op = "grant" /\ f = c.flow)
  BY <1>1, <1>2, <1>8, <1>9, Zenon DEF NextOwes, Active
<1>10. ASSUME NEW f \in Flow, f \in own[y] PROVE <<y, f>> \in D
  BY <1>1, <1>4, <1>8, <1>10, InDebts, Zenon DEF Owes
<1>11. CASE c.op = "grant"
  <2> DEFINE E == D \cup {<<c.thread, c.flow>>}
  <2>1. Matched(w, E)
    BY <1>0, <1>1, <1>11, MatchedAppend, Zenon DEF w
  <2>2. \A x \in Thread, f \in Flow : NextOwes(w, x, f) => <<x, f>> \in E
    BY <1>3, <1>7, <1>9, <1>10, Zenon
  <2> HIDE DEF E
  <2>3. Matched(w, NextDebts(w))
    BY <2>1, <2>2, MatchedNext, Zenon
  <2> QED
    BY <2>3, Zenon DEF w, c, y
<1>12. CASE c.op = "completion"
  <2> DEFINE E == D \ {<<c.thread, c.flow>>}
  <2>0. <<c.thread, c.flow>> \in D
    BY <1>3, <1>10, <1>12, Zenon
  <2>1. Matched(w, E)
    BY <1>0, <1>1, <1>12, <2>0, MatchedAppend, Zenon DEF w
  <2>2. ASSUME NEW x \in Thread, NEW f \in Flow, NextOwes(w, x, f) PROVE <<x, f>> \in E
    <3>1. <<x, f>> \in D
      BY <1>7, <1>9, <1>10, <1>12, <2>2, Zenon
    <3>2. x = y => f # c.flow
      BY <1>9, <1>12, <2>2, Zenon
    <3>3. <<x, f>> # <<c.thread, c.flow>>
      BY <1>3, <3>2, Zenon
    <3> QED
      BY <3>1, <3>3, Zenon
  <2> HIDE DEF E
  <2>3. Matched(w, NextDebts(w))
    BY <2>1, <2>2, MatchedNext, Zenon
  <2> QED
    BY <2>3, Zenon DEF w, c, y
<1> QED
  BY <1>3, <1>11, <1>12, Zenon

LEMMA MatchedMutate ==
  ASSUME TypeOK, CallInv, NEW t \in Thread, NEW op \in Op, NEW f \in Flow, Mutate(t, op, f), Matched(events, Debts(events))
  PROVE  LET w == Append(events, MutationOf(t, op, f)) IN Matched(w, NextDebts(w))
<1> DEFINE e == MutationOf(t, op, f)
           w == Append(events, e)
           D == Debts(events)
<1>0. events \in Seq(Event)
  BY JournalParts, Zenon
<1>1. e \in Event /\ e.nr = calls + 1 /\ e.thread = t /\ e.flow = f /\ e.op = op /\ pc[t] = "idle"
  BY MutateFacts
<1>2. /\ UNCHANGED <<pc, call>> /\ Tell(t, e, TRUE) /\ op \in {"rollback", "release_flow", "release_resource"}
      /\ op = "rollback" => f \in own[t]
  BY Zenon DEF Mutate, Mutation
<1> HIDE DEF e
<1>3. ASSUME NEW x \in Thread, Active(x) PROVE call[x] # e
  <2>1. call[x].nr # calls + 1
    BY <1>3, CallOf, NumberTypes, Newer, Zenon
  <2> QED
    BY <1>1, <2>1, Zenon
<1>4. \A c : Has(w, c) <=> (Has(events, c) \/ c = e)
  BY <1>0, <1>1, AppendedFacts, Zenon
<1> HIDE DEF w
<1>5. ASSUME NEW x \in Thread, x # t, NEW g \in Flow, NextOwes(w, x, g) PROVE <<x, g>> \in D
  <2>1. Active(x) => (Has(w, call[x]) <=> Has(events, call[x]))
    BY <1>3, <1>4, Zenon
  <2>2. own'[x] = own[x]
    BY <1>2, <1>5, TellOthers, Zenon
  <2>3. Owes(events, x, g)
    BY <1>2, <1>5, <2>1, <2>2, OwesSame, Zenon DEF Active
  <2> QED
    BY <2>3, InDebts, Zenon
<1>6. ASSUME NEW g \in Flow, NextOwes(w, t, g) PROVE g \in own'[t]
  BY <1>1, <1>2, <1>6, Zenon DEF NextOwes
<1>7. ASSUME NEW g \in Flow, g \in own[t] PROVE <<t, g>> \in D
  BY <1>1, <1>7, InDebts, Zenon DEF Owes, Active
<1>8. own'[t] = IF op = "rollback" THEN own[t] \ {f} ELSE own[t]
  <2>1. own'[t] = CASE e.op = "grant" -> own[t] \cup {e.flow}
                    [] e.op \in {"completion", "rollback"} -> own[t] \ {e.flow}
                    [] OTHER -> own[t]
    BY <1>2, TypeParts, Zenon DEF Tell, CallType
  <2> QED
    BY <1>1, <1>2, <2>1, Zenon
<1>9. CASE op # "rollback"
  <2>0. e.op \notin {"grant", "completion", "rollback"}
    BY <1>1, <1>2, <1>9, Zenon
  <2>1. Matched(w, D)
    BY <1>0, <1>1, <2>0, MatchedAppend, Zenon DEF w
  <2>2. \A x \in Thread, g \in Flow : NextOwes(w, x, g) => <<x, g>> \in D
    BY <1>5, <1>6, <1>7, <1>8, <1>9, Zenon
  <2>3. Matched(w, NextDebts(w))
    BY <2>1, <2>2, MatchedNext, Zenon
  <2> QED
    BY <2>3, Zenon DEF w, e
<1>10. CASE op = "rollback"
  <2> DEFINE E == D \ {<<e.thread, e.flow>>}
  <2>0. <<e.thread, e.flow>> \in D /\ e.op \in {"completion", "rollback"}
    BY <1>1, <1>2, <1>7, <1>10, Zenon
  <2>1. Matched(w, E)
    BY <1>0, <1>1, <2>0, MatchedAppend, Zenon DEF w
  <2>2. ASSUME NEW x \in Thread, NEW g \in Flow, NextOwes(w, x, g) PROVE <<x, g>> \in E
    <3>1. x = t => g \in own[t] /\ g # f
      BY <1>6, <1>8, <1>10, <2>2, Zenon
    <3>2. <<x, g>> \in D
      BY <1>5, <1>7, <2>2, <3>1, Zenon
    <3>3. <<x, g>> # <<e.thread, e.flow>>
      BY <1>1, <3>1, Zenon
    <3> QED
      BY <3>2, <3>3, Zenon
  <2> HIDE DEF E
  <2>3. Matched(w, NextDebts(w))
    BY <2>1, <2>2, MatchedNext, Zenon
  <2> QED
    BY <2>3, Zenon DEF w, e
<1> QED
  BY <1>9, <1>10, Zenon

(* Owned grants are matched, over all steps. *)
LEMMA MatchedStep ==
  ASSUME TypeOK, BatonInv, QueueInv, CommitInv, CallInv, JournalInv, PlaceInv, [Next]_vars,
         Matched(events, Debts(events)), Matched(Journal, Debts(Journal))
  PROVE  Matched(events', Debts(events)') /\ Matched(Journal', Debts(Journal)')
<1> SUFFICES Matched(events', NextDebts(events')) /\ Matched(Journal', NextDebts(Journal'))
  BY NextDebtsAre, Zenon
<1>1. CASE Mutates
  <2>1. PICK t \in Thread, op \in Op, f \in Flow :
          Mutate(t, op, f) /\ events' = Append(events, MutationOf(t, op, f)) /\ Journal' = events'
    BY <1>1, Zenon DEF Mutates
  <2>2. Matched(Append(events, MutationOf(t, op, f)), NextDebts(Append(events, MutationOf(t, op, f))))
    BY <2>1, MatchedMutate, Zenon
  <2> QED
    BY <2>1, <2>2, Zenon
<1>2. CASE ~ Mutates
  <2>1. \A t \in Thread, op \in Op, f \in Flow : ~ Mutate(t, op, f)
    <3> SUFFICES ASSUME NEW t \in Thread, NEW op \in Op, NEW f \in Flow, Mutate(t, op, f) PROVE Mutates
      BY <1>2, Zenon
    <3>1. ~ Inserts /\ ~ Commits
      BY Zenon DEF Inserts, Commits, Insert, Commit, Validating, Mutate, Mutation, WriterFree
    <3>2. events' # events
      <4>1. events \in Seq(Event) /\ Len(events') = Len(events) + 1
        BY JournalParts, MutateWrites, Zenon
      <4>2. Len(events) \in Nat
        BY <4>1
      <4> QED
        BY <4>1, <4>2
    <3> QED
      BY <3>1, <3>2, JournalStep, Zenon DEF JournalStays, RollsBack
  <2>2. Matched(events, NextDebts(events)) /\ Matched(Journal, NextDebts(Journal))
    BY <2>1, MatchedSame, BetweenBoth, Zenon
  <2>3. CASE JournalStays \/ Commits \/ RollsBack
    BY <2>2, <2>3, Zenon DEF JournalStays, Commits, RollsBack
  <2>4. CASE Inserts
    <3>1. PICK t \in Thread : Insert(t) /\ events' = events /\ Journal' = Append(Journal, call[Item(ProcOf[t])])
      BY <2>4, Zenon DEF Inserts
    <3>2. Matched(Append(Journal, call[Item(ProcOf[t])]), NextDebts(Append(Journal, call[Item(ProcOf[t])])))
      BY <3>1, MatchedInsert, Zenon
    <3> QED
      BY <2>2, <3>1, <3>2, Zenon
  <2> QED
    BY <1>2, <2>3, <2>4, JournalStep, Zenon
<1> QED
  BY <1>1, <1>2, Zenon

(* The initial state. *)
LEMMA EmptySequence ==
  /\ DOMAIN (<<>>) = {} /\ Len(<<>>) = 0 /\ <<>> \o <<>> = <<>> /\ SubSeq(<<>>, 1, 0) = <<>>
  /\ 0 <= 0 /\ Unread <= 0
  BY DEF Unread

LEMMA InitMatched ==
  ASSUME Init
  PROVE  Matched(<<>>, Debts(<<>>))
<1>1. \A t \in Thread, f \in Flow : <<t, f>> \notin Debts(<<>>)
  <2>1. \A t \in Thread, f \in Flow : ~ Owes(<<>>, t, f)
    BY Zenon DEF Init, Owes, Active
  <2> QED
    BY <2>1, InDebts, Zenon
<1> SUFFICES ASSUME NEW f \in Flow PROVE \E m : Matches(<<>>, f, m, Debts(<<>>))
  BY Zenon DEF Matched
<1>2. Returns(<<>>, f) = {} /\ Grants(<<>>, f) = {}
  BY EmptySequence, Zenon DEF Returns, Grants
<1>3. [i \in {} |-> i] \in [{} -> {}]
  BY Zenon
<1>4. Matches(<<>>, f, [i \in {} |-> i], Debts(<<>>))
  BY <1>1, <1>2, <1>3, Zenon DEF Matches
<1> QED
  BY <1>4, Zenon

(* A new authority on an empty database. *)
LEMMA InitInv == Init => IInv
<1> SUFFICES ASSUME Init PROVE IInv
  OBVIOUS
<1>1. /\ events = <<>> /\ written = <<>> /\ Journal = <<>>
      /\ checkpoint.seq = 0 /\ checkpoint.view = <<>> /\ answered = {}
  <2>1. events = <<>> /\ written = <<>> /\ answered = {} /\ checkpoint = [seq |-> 0, view |-> <<>>]
    BY Zenon DEF Init
  <2> QED
    BY <2>1 DEF Journal
<1>2. \A t \in Thread : pc[t] = "idle" /\ receipt[t] = "none"
  BY Zenon DEF Init
<1>3. \A p \in Process : /\ applied[p] = 0 /\ view[p] = <<>> /\ readAt[p] = Unread
                         /\ queue[p] = <<>> /\ batch[p] = <<>>
  BY Zenon DEF Init
<1>4. CommitInv /\ BoundInv /\ CallInv
  <2>1. CommitInv
    BY <1>1, <1>2, Zenon DEF CommitInv
  <2>2. BoundInv
    BY <1>1, <1>3, EmptySequence, Zenon DEF BoundInv
  <2>3. CallInv
    BY <1>1, <1>2, Zenon DEF CallInv, Active
  <2> QED
    BY <2>1, <2>2, <2>3, Zenon
<1>5. JournalInv
  BY <1>1, EmptySequence, Zenon DEF JournalInv, Numbered
<1>6. PlaceInv
  <2>1. \A p \in Process : InSeq(queue[p]) = {} /\ InSeq(batch[p]) = {}
    BY <1>3, EmptySequence, Zenon DEF InSeq
  <2>2. \A t \in Thread : ProcOf[t] \in Process
    BY SchedulingAssumption, Zenon
  <2> QED
    BY <1>1, <1>2, <2>1, <2>2, Zenon DEF PlaceInv
<1>7. ViewInv
  <2>1. CheckpointIsProjection
    BY <1>1, EmptySequence, Zenon DEF CheckpointIsProjection
  <2>2. Replayable(Journal)
    BY <1>1, EmptySequence, Zenon DEF Replayable
  <2> QED
    BY <1>1, <1>2, <1>3, <2>1, <2>2, EmptySequence, Zenon DEF ViewInv
<1>8. Matched(events, Debts(events)) /\ Matched(Journal, Debts(Journal))
  BY <1>1, InitMatched, Zenon
<1> QED
  BY <1>4, <1>5, <1>6, <1>7, <1>8, InitType, GroupInit, Zenon DEF IInv

-----------------------------------------------------------------------------
(* Counting. *)
INSTANCE FiniteSetTheorems

(* What a thread owes is in flight: the returns leave its grant over. *)
LEMMA OwedInFlight ==
  ASSUME NEW v \in Seq(Event), NEW D, Matched(v, D), NEW t \in Thread, NEW f \in Flow, <<t, f>> \in D
  PROVE  InFlight(v, f) > 0
<1>1. PICK m : Matches(v, f, m, D)
  BY Zenon DEF Matched
<1>2. PICK g \in Grants(v, f) : \A i \in Returns(v, f) : m[i] # g
  BY <1>1, Zenon DEF Matches
<1>3. IsFiniteSet(Grants(v, f)) /\ IsFiniteSet(Returns(v, f))
  <2>1. DOMAIN v = 1..Len(v) /\ 1 \in Int /\ Len(v) \in Int
    OBVIOUS
  <2>2. IsFiniteSet(DOMAIN v)
    BY <2>1, FS_Interval, Zenon
  <2>3. Grants(v, f) \in SUBSET DOMAIN v /\ Returns(v, f) \in SUBSET DOMAIN v
    BY Zenon DEF Grants, Returns
  <2> QED
    BY <2>2, <2>3, FS_Subset, Zenon
<1>4. m \in Injection(Returns(v, f), Grants(v, f) \ {g})
  <2>1. m \in [Returns(v, f) -> Grants(v, f) \ {g}]
    BY <1>1, <1>2, Zenon DEF Matches
  <2> QED
    BY <1>1, <2>1, Zenon DEF Matches, Injection, IsInjective
<1>5. IsFiniteSet(Grants(v, f) \ {g}) /\ Cardinality(Grants(v, f) \ {g}) = Cardinality(Grants(v, f)) - 1
  BY <1>3, FS_RemoveElement, Zenon
<1>6. Cardinality(Returns(v, f)) <= Cardinality(Grants(v, f) \ {g})
  BY <1>4, <1>5, FS_Injection, Zenon
<1>7. Cardinality(Returns(v, f)) \in Nat /\ Cardinality(Grants(v, f)) \in Nat
  BY <1>3, FS_CardinalityType, Zenon
<1>8. InFlight(v, f) = Cardinality(Grants(v, f)) - Cardinality(Returns(v, f))
  BY Zenon DEF InFlight, Count, Grants, Returns
<1> QED
  BY <1>5, <1>6, <1>7, <1>8, GrantOver, Zenon

(* Replay accepts what _mutation wrote, whatever view it was validated with. *)
LEMMA MutationReplays ==
  ASSUME TypeOK, Matched(events, Debts(events)), NEW t \in Thread, NEW op \in Op, NEW f \in Flow, Mutation(t, op, f)
  PROVE  Accepts(events, MutationOf(t, op, f))
<1> DEFINE e == MutationOf(t, op, f)
<1>1. e.op = op /\ e.flow = f /\ op \in {"rollback", "release_flow", "release_resource"} /\ pc[t] = "idle"
  BY Zenon DEF MutationOf, Mutation
<1>2. CASE op = "rollback"
  <2>1. f \in own[t]
    BY <1>2, Zenon DEF Mutation
  <2>2. Owes(events, t, f)
    BY <1>1, <2>1, Zenon DEF Owes, Active
  <2>3. <<t, f>> \in Debts(events)
    BY <2>2, Zenon DEF Debts
  <2>4. events \in Seq(Event)
    BY JournalParts, Zenon
  <2>5. InFlight(events, f) > 0
    BY <2>3, <2>4, OwedInFlight, Zenon
  <2> QED
    BY <1>1, <1>2, <2>5, Zenon DEF Accepts
<1>3. CASE op # "rollback"
  <2>1. e.op \notin {"grant", "completion", "rollback"}
    BY <1>1, <1>3, Zenon
  <2> HIDE DEF e
  <2>2. Accepts(events, e)
    BY <2>1, Zenon DEF Accepts
  <2> QED
    BY <2>2, Zenon DEF e
<1> QED
  BY <1>2, <1>3, Zenon

(* Every step keeps the journal replayable. *)
LEMMA JournalReplays ==
  ASSUME TypeOK, CommitInv, ViewInv, Matched(events, Debts(events)), [Next]_vars
  PROVE  Replayable(Journal')
<1>0. Replayable(Journal) /\ Journal \in Seq(Event) /\ events \in Seq(Event) /\ written \in Seq(Event)
  BY JournalParts, Zenon DEF ViewInv
<1>1. Replayable(events)
  BY <1>0, ReplayablePrefix, Zenon DEF Journal
<1>2. CASE JournalStays \/ Commits \/ RollsBack
  BY <1>0, <1>1, <1>2, Zenon DEF JournalStays, Commits, RollsBack
<1>3. CASE Inserts
  <2>1. PICK t \in Thread : Insert(t)
    BY <1>3, Zenon DEF Inserts
  <2> DEFINE e == call[Item(ProcOf[t])]
  <2>2. e \in Event /\ Journal' = Append(Journal, e) /\ Accepts(Journal, e)
    BY <2>1, InsertView, Zenon
  <2> HIDE DEF e
  <2> QED
    BY <1>0, <2>2, ReplayableAppend, Zenon
<1>4. CASE Mutates
  <2>1. PICK t \in Thread, op \in Op, f \in Flow :
          Mutate(t, op, f) /\ Journal' = Append(events, MutationOf(t, op, f))
    BY <1>4, Zenon DEF Mutates
  <2> DEFINE e == MutationOf(t, op, f)
  <2>2. Mutation(t, op, f)
    <3>1. Mutate(t, op, f)
      BY <2>1, Zenon
    <3> QED
      BY <3>1, Zenon DEF Mutate
  <2>3. e \in Event /\ Accepts(events, e)
    BY <2>2, MutationFacts, MutationReplays, Zenon
  <2> HIDE DEF e
  <2>4. Journal' = Append(events, e)
    BY <2>1, Zenon DEF e
  <2> QED
    BY <1>0, <1>1, <2>3, <2>4, ReplayableAppend, Zenon
<1> QED
  BY <1>2, <1>3, <1>4, JournalStep, Zenon

(* The views and the checkpoint, over all steps. *)
LEMMA ViewStep ==
  ASSUME TypeOK, TypeOK', BatonInv, QueueInv, CommitInv, BoundInv, spoilt \/ ViewInv, Matched(events, Debts(events)),
         [Next]_vars
  PROVE  (spoilt \/ ViewInv)'
<1> SUFFICES ASSUME ~ spoilt' PROVE ViewInv'
  BY Zenon
<1>1. ViewInv
  BY SpoiltStays, Zenon
<1>2. CheckpointIsProjection'
  BY <1>1, StoredView, Zenon
<1>3. \A p \in Process : Clean(p)' =>
       applied'[p] <= Len(events') /\ view'[p] = SubSeq(events', 1, applied'[p]) /\ readAt'[p] <= applied'[p]
  BY <1>1, CleanViews, Zenon
<1>4. \A t \in Thread : pc'[t] = "commit" => view'[ProcOf[t]] = Journal' /\ readAt'[ProcOf[t]] <= Len(events')
  BY <1>1, WriterViews, Zenon
<1>5. Replayable(Journal')
  BY <1>1, JournalReplays, Zenon
<1> QED
  BY <1>2, <1>3, <1>4, <1>5, Zenon DEF ViewInv, Replayable

(* The invariant is inductive. *)
LEMMA InvStep == IInv /\ [Next]_vars => IInv'
<1> SUFFICES ASSUME IInv, [Next]_vars PROVE IInv'
  OBVIOUS
<1>1. /\ TypeOK /\ BatonInv /\ QueueInv /\ CommitInv /\ BoundInv /\ CallInv /\ JournalInv /\ PlaceInv
      /\ (spoilt \/ ViewInv) /\ Matched(events, Debts(events)) /\ Matched(Journal, Debts(Journal))
  BY Zenon DEF IInv
<1>2. TypeOK'
  BY <1>1, TypeStep, Zenon
<1>3. BatonInv' /\ QueueInv'
  BY <1>1, GroupStep, Zenon
<1>4. CommitInv'
  BY <1>1, CommitStep, Zenon
<1>5. BoundInv'
  BY <1>1, <1>2, BoundStep, Zenon
<1>6. CallInv'
  BY <1>1, CallStep, Zenon
<1>7. JournalInv'
  BY <1>1, JournalInvStep, Zenon
<1>8. PlaceInv'
  BY <1>1, <1>2, <1>3, PlaceStep, Zenon
<1>9. (spoilt \/ ViewInv)'
  BY <1>1, <1>2, ViewStep, Zenon
<1>10. Matched(events', Debts(events)') /\ Matched(Journal', Debts(Journal)')
  BY <1>1, MatchedStep, Zenon
<1> QED
  BY <1>2, <1>3, <1>4, <1>5, <1>6, <1>7, <1>8, <1>9, <1>10, Zenon DEF IInv

-----------------------------------------------------------------------------
(* What the invariant says of the baton ... *)
LEMMA InvBaton == ASSUME TypeOK, BatonInv PROVE OneBaton
<1> SUFFICES ASSUME NEW p \in Process
             PROVE  /\ Cardinality(Holders(p)) = IF draining[p] THEN 1 ELSE 0
                    /\ queue[p] # <<>> => draining[p]
  BY Zenon DEF OneBaton
<1>1. queue[p] # <<>> => draining[p]
  BY Zenon DEF BatonInv
<1>2. Holders(p) = {t \in Thread : ProcOf[t] = p /\ Holder(t)}
  BY Zenon DEF Holders, Holder
<1>3. CASE draining[p]
  <2>1. PICK t \in Thread : ProcOf[t] = p /\ Holder(t)
    BY <1>3, Zenon DEF BatonInv
  <2>2. Holders(p) = {t}
    <3>1. \A u \in Thread : ProcOf[u] = p /\ Holder(u) => u = t
      BY <2>1, Zenon DEF BatonInv
    <3> QED
      BY <1>2, <2>1, <3>1, Zenon
  <2> QED
    BY <1>1, <1>3, <2>2, FS_Singleton, Zenon
<1>4. CASE ~ draining[p]
  <2>1. Holders(p) = {}
    <3>1. \A u \in Thread : ProcOf[u] = p => ~ Holder(u)
      <4>1. \A u \in Thread : Holder(u) => draining[ProcOf[u]]
        BY Zenon DEF BatonInv
      <4> QED
        BY <1>4, <4>1, Zenon
    <3> QED
      BY <1>2, <3>1, Zenon
  <2> QED
    BY <1>1, <1>4, <2>1, FS_EmptySet, Zenon
<1> QED
  BY <1>3, <1>4, Zenon

(* ... of receipts ... *)
LEMMA InvReceipts == ASSUME TypeOK, JournalInv, PlaceInv PROVE ReceiptsTrue
<1> SUFFICES ASSUME NEW a \in answered
             PROVE  Cardinality({i \in DOMAIN events : events[i] = a.event}) = IF a.ok THEN 1 ELSE 0
  BY Zenon DEF ReceiptsTrue
<1> DEFINE N == {i \in DOMAIN events : events[i] = a.event}
<1>1. IF a.ok THEN Has(events, a.event) ELSE ~ Occurs(Journal, a.event.nr)
  BY Zenon DEF PlaceInv
<1>2. CASE a.ok
  <2>1. PICK i \in DOMAIN events : events[i] = a.event
    BY <1>1, <1>2, Zenon DEF Has
  <2>2. Numbered(events, calls)
    BY JournalParts, Zenon DEF JournalInv
  <2>3. N = {i}
    BY <2>1, <2>2, Zenon DEF Numbered
  <2> QED
    BY <1>2, <2>3, FS_Singleton, Zenon
<1>3. CASE ~ a.ok
  <2>1. ~ Occurs(events, a.event.nr)
    BY <1>1, <1>3, JournalParts, Zenon
  <2>2. N = {}
    BY <2>1, Zenon DEF Occurs
  <2> QED
    BY <1>3, <2>2, FS_EmptySet, Zenon
<1> QED
  BY <1>2, <1>3, Zenon

(* ... of the journal as a whole ... *)
LEMMA InvJournal == IInv => JournalSound
<1> SUFFICES ASSUME IInv PROVE JournalSound
  OBVIOUS
<1>1. TypeOK /\ BatonInv /\ JournalInv /\ PlaceInv /\ (spoilt \/ ViewInv)
  BY Zenon DEF IInv
<1>2. ASSUME ViewInv PROVE ReplayAccepted
  <2>1. Replayable(events)
    BY <1>1, <1>2, JournalParts, ReplayablePrefix, Zenon DEF ViewInv, Journal
  <2> QED
    BY <2>1, Zenon DEF Replayable, ReplayAccepted
<1> QED
  BY <1>1, <1>2, InvBaton, InvReceipts, Zenon DEF JournalSound

(* ... of owned grants ... *)
LEMMA InvOwned ==
  ASSUME TypeOK, BoundInv, PlaceInv, ViewInv, Matched(events, Debts(events))
  PROVE  OwnedInFlight
<1> SUFFICES ASSUME NEW t \in Thread, NEW f \in own[t], CutFree(ProcOf[t]), ~ Poisoned(ProcOf[t]),
                    pc[t] = "idle" \/ t \in InSeq(queue[ProcOf[t]])
             PROVE  InFlight(Caught(ProcOf[t]), f) > 0
  BY Zenon DEF OwnedInFlight
<1>1. ProcOf[t] \in Process /\ f \in Flow
  BY TypeParts, SchedulingAssumption, Zenon DEF CallType
<1>2. Caught(ProcOf[t]) = events
  <2>1. Clean(ProcOf[t])
    BY Zenon DEF Clean
  <2> QED
    BY <1>1, <2>1, CaughtClean, Zenon
<1>3. Owes(events, t, f)
  <2>1. CASE pc[t] = "idle"
    BY <2>1, Zenon DEF Owes, Active
  <2>2. CASE t \in InSeq(queue[ProcOf[t]])
    <3>1. ~ Occurs(Journal, call[t].nr)
      BY <1>1, <2>2, Zenon DEF PlaceInv
    <3>2. ~ Has(events, call[t])
      BY <3>1, JournalParts, HasOccurs, Zenon
    <3> QED
      BY <3>2, Zenon DEF Owes
  <2> QED
    BY <2>1, <2>2, Zenon
<1>4. <<t, f>> \in Debts(events)
  BY <1>1, <1>3, InDebts, Zenon
<1>5. InFlight(events, f) > 0
  BY <1>1, <1>4, JournalParts, OwedInFlight, Zenon
<1> QED
  BY <1>2, <1>5, Zenon

(* ... and of views and checkpoint. *)
LEMMA InvViews == IInv => ViewsSound
<1> SUFFICES ASSUME IInv, ~ spoilt PROVE CheckpointIsProjection /\ ViewCommitted /\ OwnedInFlight
  BY Zenon DEF ViewsSound
<1>1. TypeOK /\ BoundInv /\ PlaceInv /\ ViewInv /\ Matched(events, Debts(events))
  BY Zenon DEF IInv
<1>2. ViewCommitted
  <2> SUFFICES ASSUME NEW p \in Process, CutFree(p), ~ Poisoned(p)
               PROVE  /\ applied[p] <= Len(events) /\ view[p] = SubSeq(events, 1, applied[p])
                      /\ readAt[p] = Len(events) => applied[p] = Len(events)
    BY Zenon DEF ViewCommitted
  <2>1. applied[p] <= Len(events) /\ view[p] = SubSeq(events, 1, applied[p]) /\ readAt[p] <= applied[p]
    BY <1>1, Zenon DEF ViewInv, Clean
  <2>2. applied[p] \in Nat /\ events \in Seq(Event)
    BY <1>1, TypeParts, Zenon DEF MemoryType, DiskType
  <2>3. Len(events) \in Nat
    BY <2>2
  <2>4. readAt[p] = Len(events) => applied[p] = Len(events)
    BY <2>1, <2>2, <2>3, BoundsMeet, Zenon
  <2> QED
    BY <2>1, <2>4, Zenon
<1> QED
  BY <1>1, <1>2, InvOwned, Zenon DEF ViewInv

(* The invariant of the durable authority: baton, queue, transaction, transition
   numbers, places of transitions, views and matched grants agree in every
   reachable state. *)
THEOREM SchedulingInvariant == Spec => []IInv
<1> QED
  BY InitInv, InvStep, PTL DEF Spec

(* _group_transition and _drain_transition_cut, with any number of processes,
   threads, crashes and SQLite failures: the writer baton is neither lost nor
   doubled, every receipt is true of the journal, and every replay accepts the
   journal until a view with a failed group in it is stored. *)
THEOREM JournalIsSound == Spec => []JournalSound
<1> QED
  BY InvJournal, SchedulingInvariant, PTL

(* _catch_up, _mutation, _read_cut and _maybe_checkpoint: until a view with a
   failed group in it is stored, the checkpoint and the view of whoever takes the
   cut lock are prefixes of the journal, current when the reader's version is,
   and no owned grant is refused as an underflow. *)
THEOREM ViewsAreSound == Spec => []ViewsSound
<1> QED
  BY InvViews, SchedulingInvariant, PTL
=============================================================================
