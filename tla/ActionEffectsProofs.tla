------------------------- MODULE ActionEffectsProofs -------------------------
(***************************************************************************)
(* For any number of callers, actions and faults: the handler of an action *)
(* starts at most once, and what callers are told of it is true.           *)
(***************************************************************************)
EXTENDS ActionEffects, TLAPS

-----------------------------------------------------------------------------
(* The types. *)
JournalType == record \in [Id -> Record \cup {None}] /\ events \in [Id -> Seq(Record)]

InCall == [at : At, id : Id, effect : {None} \cup Receipt]

CallType == call \in [Caller -> {Idle} \cup InCall]

CommandKind == {"prepare", "act", "reconcile"}

Inboxes == {None} \cup [cmd : CommandKind, id : Id]
Replies == {None} \cup [disposition : Disposition, recycle : BOOLEAN]

Processes == [up : {"live", "dead", "down"}, inbox : Inboxes, busy : {None} \cup Id, reply : Replies]

BridgeType == bridge \in Processes

SiteType ==
  /\ wal \in [Id -> {None} \cup [state : {"prepared", "intent", "terminal"}, disposition : Disposition]]
  /\ world \in [Id -> {"untouched", "acting", "applied", "ceased", "adrift"}]
  /\ starts \in [Id -> Nat]

MemoryType ==
  /\ ledger \in [Id -> {"none"} \cup Disposition] /\ proof \in [Id -> {"none"} \cup Disposition]
  /\ pending \in BOOLEAN

Types == CallType /\ BridgeType /\ SiteType /\ MemoryType /\ answers \in [Id -> SUBSET Certainty]

(* The callers, one to an action and one at a time at the bridge, and where the
   journal's record is while they are where they are. *)
Before == {"prepare", "preparing", "intent"}
During == {"act", "acting", "record", "reconcile", "asking", "refresh", "settle"}
Told   == {"record", "refresh", "settle", "terminalize"}

(* A caller at v, with the journal's records rec. *)
CallAt(v, rec) ==
  /\ v.at \in Before => rec[v.id] = None
  /\ v.at \in During => rec[v.id] # None /\ rec[v.id].phase = "prepared"
  /\ v.at = "terminalize" => /\ rec[v.id] # None /\ rec[v.id].phase = "reconciled"
                             /\ rec[v.id].snapshot = v.effect
  /\ v.at \in Told => v.effect \in Receipt /\ v.effect.request = TheRequest

CallInv ==
  /\ \A c, d \in Caller : call[c] # Idle /\ call[d] # Idle /\ call[c].id = call[d].id => c = d
  /\ \A c, d \in Caller : call[c].at \in Waiting /\ call[d].at \in Waiting => c = d
  /\ \A c \in Caller : CallAt(call[c], record)

(* What the records of this client of the journal are like. *)
RecordInv ==
  \A i \in Id : record[i] # None =>
    /\ record[i].phase # "result_recorded" /\ record[i].request = TheRequest
    /\ record[i].phase # "prepared" => /\ record[i].snapshot \in Receipt /\ record[i].snapshot.request = TheRequest
                                     /\ record[i].effect = record[i].snapshot

(* The bridge and who waits for it. *)
CommandOf == [at \in Waiting |-> CASE at = "preparing" -> "prepare" [] at = "acting" -> "act" [] at = "asking" -> "reconcile"]

Quiet == bridge.inbox = None /\ bridge.busy = None /\ bridge.reply = None

BridgeShape ==
  /\ bridge.inbox # None => bridge.busy = None /\ bridge.reply = None
  /\ bridge.busy # None => bridge.reply = None
  /\ bridge.up # "live" => bridge.inbox = None /\ bridge.busy = None
  /\ bridge.up = "down" => bridge.reply = None
  /\ LockFree /\ ~ pending /\ bridge.up = "live" => Quiet

(* A caller at v, with the bridge b, the recycle mark p and the bridge's journal j. *)
WaitAt(v, b, p, j) ==
  v.at \in Waiting =>
    /\ ~ p
    /\ b.inbox # None => b.inbox = Command(CommandOf[v.at], v.id)
    /\ b.busy # None => v.at = "acting" /\ b.busy = v.id
    /\ b.reply # None /\ v.at # "acting" => ~ b.reply.recycle
    /\ b.reply # None /\ v.at = "preparing" => j[v.id] # None

BridgeInv == BridgeShape /\ \A c \in Caller : WaitAt(call[c], bridge, pending, wal)

(* The bridge's journal, its handlers and the world. *)
Startable(i) == wal[i] = None \/ wal[i] = Line("prepared", "not_applied")

SiteInv ==
  /\ \A i \in Id :
       /\ Startable(i) => starts[i] = 0 /\ world[i] = "untouched"
       /\ ~ Startable(i) => /\ starts[i] = 1 /\ i \notin Forbidden /\ record[i] # None
                            /\ wal[i] = Line("intent", "unknown") \/ wal[i].state = "terminal"
       /\ ~ Startable(i) /\ wal[i].state = "terminal" =>
            /\ wal[i].disposition = "applied" => world[i] = "applied"
            /\ wal[i].disposition \in {"rejected", "not_applied"} => world[i] = "ceased"
       /\ world[i] = "acting" =>
            /\ bridge.up = "live"
            /\ \/ bridge.busy = i
               \/ /\ bridge.busy = None /\ bridge.inbox = None
                  /\ pending \/ (bridge.reply # None /\ bridge.reply.recycle)
  /\ bridge.busy # None => /\ wal[bridge.busy] = Line("intent", "unknown")
                           /\ world[bridge.busy] \in {"acting", "applied"}

(* An action is sent once: until then its line says prepared. *)
ActPending(i) == bridge.inbox = Command("act", i)

SendInv ==
  /\ \A c \in Caller :
       /\ call[c].at = "intent" /\ call[c].id \notin Forbidden => wal[call[c].id] # None
       /\ call[c].at = "act" /\ call[c].id \notin Forbidden => wal[call[c].id] = Line("prepared", "not_applied")
       /\ call[c].at = "act" => ~ ActPending(call[c].id)
  /\ \A i \in Id : ActPending(i) =>
       i \notin Forbidden /\ record[i] # None /\ wal[i] = Line("prepared", "not_applied")

(* What is said of an action is true for good. *)
Never(i) ==
  /\ record[i] # None /\ ~ ActPending(i)
  /\ \A c \in Caller : call[c].at = "act" => call[c].id # i
  /\ world[i] \in {"untouched", "ceased"}

Sound(i, certainty) ==
  /\ certainty = "confirmed" => world[i] = "applied"
  /\ certainty \in {"rejected", "no_effect"} => Never(i)

TruthInv ==
  /\ \A i \in Id : ledger[i] # "none" => Sound(i, CertaintyOf[ledger[i]])
  /\ \A i \in Id : proof[i] # "none" => Sound(i, CertaintyOf[proof[i]])
  /\ \A i \in Id : record[i] # None /\ record[i].phase # "prepared" => Sound(i, record[i].snapshot.certainty)
  /\ \A c \in Caller :
       /\ call[c].at \in Told => Sound(call[c].id, call[c].effect.certainty)
       /\ call[c].at \in {"acting", "asking"} /\ bridge.reply # None =>
            Sound(call[c].id, CertaintyOf[bridge.reply.disposition])

AnswerInv ==
  \A i \in Id : \A x \in answers[i] :
    record[i] # None /\ record[i].phase \in Terminal /\ record[i].snapshot.certainty = x

ActionInv == JournalType /\ Types /\ CallInv /\ RecordInv /\ BridgeInv /\ SiteInv /\ SendInv /\ TruthInv /\ AnswerInv

-----------------------------------------------------------------------------
(* A caller goes from where it is to v. *)
Moved(c, v) ==
  /\ v \in {Idle} \cup InCall
  /\ call' \in [Caller -> {Idle} \cup InCall]
  /\ call'[c] = v /\ \A d \in Caller : d # c => call'[d] = call[d]

LEMMA Inside ==
  ASSUME CallType, NEW c \in Caller
  PROVE  /\ call[c] # Idle <=> call[c].at # "idle"
         /\ call[c] # Idle <=> call[c].at \in At
         /\ call[c] # Idle => call[c] \in InCall /\ call[c].id \in Id /\ call[c].effect \in {None} \cup Receipt
<1> CASE call[c] = Idle
  BY DEF Idle, At, Waiting
<1> CASE call[c] # Idle
  <2>1. call[c] \in InCall
    BY DEF CallType
  <2> QED
    BY <2>1 DEF InCall, At, Waiting
<1> QED
  OBVIOUS

LEMMA IdleAt == Idle.at = "idle"
  BY DEF Idle

LEMMA GotoMoves ==
  ASSUME CallType, NEW c \in Caller, call[c] # Idle, NEW at \in At, Goto(c, at)
  PROVE  Moved(c, [at |-> at, id |-> call[c].id, effect |-> call[c].effect])
<1> call[c] \in InCall
  BY Inside
<1>2. [call[c] EXCEPT !.at = at] = [at |-> at, id |-> call[c].id, effect |-> call[c].effect]
  BY DEF InCall
<1>3. [at |-> at, id |-> call[c].id, effect |-> call[c].effect] \in InCall
  BY DEF InCall
<1>4. call' = [call EXCEPT ![c] = [at |-> at, id |-> call[c].id, effect |-> call[c].effect]]
  BY <1>2, Zenon DEF Goto
<1> QED
  BY <1>3, <1>4, Zenon DEF Moved, CallType

LEMMA GotoWithMoves ==
  ASSUME CallType, NEW c \in Caller, call[c] # Idle, NEW at \in At, NEW e \in {None} \cup Receipt, GotoWith(c, at, e)
  PROVE  Moved(c, [at |-> at, id |-> call[c].id, effect |-> e])
<1>1. call[c] \in InCall
  BY Inside, Zenon
<1>2. [[call[c] EXCEPT !.at = at] EXCEPT !.effect = e] = [at |-> at, id |-> call[c].id, effect |-> e]
  <2>1. [call[c] EXCEPT !.at = at] = [at |-> at, id |-> call[c].id, effect |-> call[c].effect]
    BY <1>1 DEF InCall
  <2>2. PICK r : r = [call[c] EXCEPT !.at = at]
    BY Zenon
  <2>3. r = [at |-> at, id |-> call[c].id, effect |-> call[c].effect]
    BY <2>1, <2>2, Zenon
  <2>4. r \in InCall
    BY <1>1, <2>3, Zenon DEF InCall
  <2>5. [r EXCEPT !.effect = e] = [at |-> at, id |-> call[c].id, effect |-> e]
    BY <2>3, <2>4 DEF InCall
  <2> QED
    BY <2>2, <2>5, Zenon
<1>3. [at |-> at, id |-> call[c].id, effect |-> e] \in InCall
  BY <1>1 DEF InCall
<1>4. call' = [call EXCEPT ![c] = [at |-> at, id |-> call[c].id, effect |-> e]]
  BY <1>2, Zenon DEF GotoWith, CallType
<1> QED
  BY <1>3, <1>4, Zenon DEF Moved, CallType

LEMMA LeaveMoves ==
  ASSUME CallType, NEW c \in Caller, Leave(c) PROVE Moved(c, Idle)
  BY DEF Leave, Moved, CallType

LEMMA EnterMoves ==
  ASSUME CallType, NEW c \in Caller, NEW i \in Id, NEW at \in At, NEW e \in {None} \cup Receipt, Enter(c, i, at, e)
  PROVE  Moved(c, [at |-> at, id |-> i, effect |-> e])
<1>1. [at |-> at, id |-> i, effect |-> e] \in InCall
  BY DEF InCall
<1> QED
  BY <1>1 DEF Enter, Moved, CallType

(* The caller moves within its action, or to one that nobody is in. *)
LEMMA CallMoved ==
  ASSUME CallType, CallInv, NEW c \in Caller, NEW v, NEW i \in Id, Moved(c, v),
         \A d \in Caller : d # c /\ call[d] # Idle => call[d].id # i,
         v # Idle => v.id = i,
         \A k \in Id : k # i => record'[k] = record[k],
         v.at \in Waiting => \A d \in Caller : d # c => call[d].at \notin Waiting,
         CallAt(v, record')
  PROVE  CallInv'
<1> /\ call'[c] = v /\ \A d \in Caller : d # c => call'[d] = call[d]
      /\ call' \in [Caller -> {Idle} \cup InCall]
  BY Zenon DEF Moved
<1>2. \A d, e \in Caller : call'[d] # Idle /\ call'[e] # Idle /\ call'[d].id = call'[e].id => d = e
  BY DEF CallInv
<1>3. \A d, e \in Caller : call'[d].at \in Waiting /\ call'[e].at \in Waiting => d = e
  BY DEF CallInv
<1>4. ASSUME NEW d \in Caller PROVE CallAt(call'[d], record')
  <2> CASE d = c
    OBVIOUS
  <2> CASE d # c /\ call[d] = Idle
    BY DEF CallAt, Idle, Before, During, Told
  <2> CASE d # c /\ call[d] # Idle
    <3>1. call[d].id \in Id /\ call[d].id # i
      BY Inside, Zenon
    <3>2. record'[call[d].id] = record[call[d].id]
      BY <3>1, Zenon
    <3> QED
      BY <3>2 DEF CallInv, CallAt
  <2> QED
    OBVIOUS
<1> QED
  BY <1>2, <1>3, <1>4 DEF CallInv

-----------------------------------------------------------------------------
(* Journals only grow. *)
RecordsStay == \A i \in Id : record[i] # None => record'[i] # None

(* Nothing makes a verdict false: an action is sent only by a caller that is about
   to, which no caller is once the record is there; and the world changes only by
   an action that is sent. *)
Steady ==
  /\ RecordsStay
  /\ \A i \in Id : ActPending(i)' => ActPending(i) \/ \E c \in Caller : call[c].at = "act" /\ call[c].id = i
  /\ \A c \in Caller : call'[c].at = "act" =>
       (call[c].at = "act" /\ call'[c].id = call[c].id) \/ record[call'[c].id] = None
  /\ \A i \in Id : world[i] = "applied" => world'[i] = "applied"
  /\ \A i \in Id : world[i] \in {"untouched", "ceased"} /\ ~ ActPending(i) => world'[i] = world[i]

LEMMA SoundStays ==
  ASSUME Steady, NEW i \in Id, NEW x, Sound(i, x) PROVE Sound(i, x)'
<1> ASSUME Never(i) PROVE Never(i)'
  <2>1. record'[i] # None /\ ~ ActPending(i)' /\ world'[i] \in {"untouched", "ceased"}
    BY Zenon DEF Never, Steady, RecordsStay
  <2>2. \A c \in Caller : call'[c].at = "act" => call'[c].id # i
    BY DEF Never, Steady
  <2> QED
    BY <2>1, <2>2 DEF Never
<1>2. world[i] = "applied" => world'[i] = "applied"
  BY Zenon DEF Steady
<1> QED
  BY <1>2, Zenon DEF Sound

LEMMA TruthStep ==
  ASSUME TruthInv, Steady, MemoryType',
         \A i \in Id : ledger'[i] \in {ledger[i], "none"} \/ Sound(i, CertaintyOf[ledger[i]])',
         \A i \in Id : proof'[i] \in {proof[i], "none"} \/ Sound(i, CertaintyOf[proof[i]])',
         \A i \in Id : record'[i] = record[i] \/ record'[i].phase = "prepared" \/ Sound(i, record[i].snapshot.certainty)',
         \A c \in Caller : call'[c].at \in Told => 
           /\ call'[c].id \in Id
           /\ \/ call[c].at \in Told /\ call'[c].id = call[c].id /\ call'[c].effect = call[c].effect
              \/ Sound(call[c].id, call[c].effect.certainty)',
         \A c \in Caller : call'[c].at \in {"acting", "asking"} /\ bridge'.reply # None =>
           /\ call'[c].id \in Id
           /\ \/ call'[c] = call[c] /\ bridge'.reply = bridge.reply
              \/ Sound(call[c].id, CertaintyOf[bridge.reply.disposition])'
  PROVE  TruthInv'
<1>1. \A i \in Id : ledger'[i] # "none" => Sound(i, CertaintyOf[ledger[i]])'
  BY SoundStays, Zenon DEF TruthInv
<1>2. \A i \in Id : proof'[i] # "none" => Sound(i, CertaintyOf[proof[i]])'
  BY SoundStays, Zenon DEF TruthInv
<1>3. \A i \in Id : record'[i] # None /\ record'[i].phase # "prepared" => Sound(i, record[i].snapshot.certainty)'
  BY SoundStays, Zenon DEF TruthInv
<1> ASSUME NEW c \in Caller, call'[c].at \in Told PROVE Sound(call[c].id, call[c].effect.certainty)'
  BY SoundStays, Zenon DEF TruthInv
<1> ASSUME NEW c \in Caller, call'[c].at \in {"acting", "asking"}, bridge'.reply # None
      PROVE  Sound(call[c].id, CertaintyOf[bridge.reply.disposition])'
  BY SoundStays, Zenon DEF TruthInv
<1> QED
  BY <1>1, <1>2, <1>3, Zenon DEF TruthInv

(* The journal, when a step does not write it. *)
LEMMA JournalSame ==
  ASSUME JournalType, RecordInv, UNCHANGED journal
  PROVE  JournalType' /\ RecordInv' /\ RecordsStay
  BY Zenon DEF JournalType, RecordInv, RecordsStay, journal

LEMMA AnswerSame ==
  ASSUME AnswerInv, UNCHANGED journal, UNCHANGED answers PROVE AnswerInv'
  BY DEF AnswerInv, journal

(* The bridge, as a caller moves. *)
LEMMA BridgeMoved ==
  ASSUME CallType, BridgeInv, NEW c \in Caller, NEW v, Moved(c, v), BridgeShape', WaitAt(v, bridge', pending', wal'),
         \/ \A d \in Caller : d # c => call[d].at \notin Waiting
         \/ UNCHANGED <<bridge, pending, wal>>
  PROVE  BridgeInv'
<1>1. ASSUME NEW d \in Caller PROVE WaitAt(call'[d], bridge', pending', wal')
  <2> CASE d = c
    BY Zenon DEF Moved
  <2> CASE d # c
    <3>1. call'[d] = call[d]
      BY Zenon DEF Moved
    <3> QED
      BY <3>1 DEF BridgeInv, WaitAt
  <2> QED
    OBVIOUS
<1> QED
  BY <1>1, Zenon DEF BridgeInv

(* A caller that is not waiting goes somewhere where it does not wait. *)
LEMMA BridgeIgnored ==
  ASSUME CallType, BridgeInv, NEW c \in Caller, NEW v, Moved(c, v), v.at \notin Waiting, call[c].at \notin Waiting,
         UNCHANGED <<bridge, pending, wal>>
  PROVE  BridgeInv'
<1>1. LockFree' => LockFree
  BY DEF LockFree, Moved
<1>2. BridgeShape'
  BY <1>1, Zenon DEF BridgeInv, BridgeShape, Quiet
<1> QED
  BY <1>2, BridgeMoved, Zenon DEF WaitAt

LEMMA SendMoved ==
  ASSUME CallType, SendInv, NEW c \in Caller, NEW v, Moved(c, v), UNCHANGED wal, RecordsStay,
         \A i \in Id : ActPending(i)' => ActPending(i),
         v.at = "intent" /\ v.id \notin Forbidden => wal[v.id] # None,
         v.at = "act" /\ v.id \notin Forbidden => wal[v.id] = Line("prepared", "not_applied"),
         v.at = "act" => v.id \in Id /\ ~ ActPending(v.id)
  PROVE  SendInv'
<1> call'[c] = v /\ \A d \in Caller : d # c => call'[d] = call[d]
  BY DEF Moved
<1>2. ASSUME NEW d \in Caller
      PROVE  /\ call'[d].at = "intent" /\ call'[d].id \notin Forbidden => wal'[call'[d].id] # None
             /\ call'[d].at = "act" /\ call'[d].id \notin Forbidden => wal'[call'[d].id] = Line("prepared", "not_applied")
             /\ call'[d].at = "act" => ~ ActPending(call[d].id)'
  <2> CASE d = c
    BY Zenon
  <2> CASE d # c
    <3>1. call[d].at = "act" => call[d].id \in Id
      BY Inside, Zenon DEF At
    <3> QED
      BY <3>1 DEF SendInv
  <2> QED
    BY Zenon
<1>3. \A i \in Id : ActPending(i)' => i \notin Forbidden /\ record'[i] # None /\ wal'[i] = Line("prepared", "not_applied")
  BY DEF SendInv, RecordsStay
<1> QED
  BY <1>2, <1>3, Zenon DEF SendInv

(* What happens to the bridge's site when nothing does. *)
LEMMA SiteSame ==
  ASSUME SiteInv, UNCHANGED site, pending => pending', RecordsStay
  PROVE  SiteInv'
<1>1. UNCHANGED <<bridge, wal, world, starts>>
  BY Zenon DEF site
<1> QED
  BY <1>1 DEF SiteInv, Startable, RecordsStay

(* A process that is gone: what its handler was at stays open. *)
LEMMA AdriftFacts ==
  ASSUME SiteType
  PROVE  /\ Adrift \in [Id -> {"untouched", "acting", "applied", "ceased", "adrift"}]
         /\ \A i \in Id : Adrift[i] # "acting" /\ (world[i] # "acting" => Adrift[i] = world[i])
  BY DEF Adrift, SiteType

LEMMA SiteRestarted ==
  ASSUME SiteType, SiteInv, world' = Adrift, bridge'.busy = None, UNCHANGED <<wal, starts>>, RecordsStay
  PROVE  SiteInv'
<1>1. \A i \in Id : world'[i] # "acting" /\ (world[i] # "acting" => world'[i] = world[i])
  BY AdriftFacts, Zenon
<1> QED
  BY <1>1 DEF SiteInv, Startable, RecordsStay

(* The site while no handler runs, and the lines other actions leave alone. *)
LEMMA SiteIdle ==
  ASSUME SiteInv, UNCHANGED <<record, world, starts>>, bridge'.busy = None, \A k \in Id : world[k] # "acting",
         \A k \in Id : (Startable(k)' <=> Startable(k)) /\ (~ Startable(k) => wal'[k] = wal[k])
  PROVE  SiteInv'
  BY DEF SiteInv

SiteLine(k) ==
  /\ Startable(k) => starts[k] = 0 /\ world[k] = "untouched"
  /\ ~ Startable(k) => /\ starts[k] = 1 /\ k \notin Forbidden /\ record[k] # None
                       /\ wal[k] = Line("intent", "unknown") \/ wal[k].state = "terminal"
  /\ ~ Startable(k) /\ wal[k].state = "terminal" =>
       /\ wal[k].disposition = "applied" => world[k] = "applied"
       /\ wal[k].disposition \in {"rejected", "not_applied"} => world[k] = "ceased"

LEMMA SiteLineKept ==
  ASSUME SiteInv, NEW k \in Id, wal'[k] = wal[k], world'[k] = world[k], starts'[k] = starts[k], record' = record
  PROVE  SiteLine(k)'
  BY DEF SiteInv, SiteLine, Startable

LEMMA LineTrue ==
  ASSUME SiteInv, NEW k \in Id, wal[k] # None
  PROVE  /\ wal[k].disposition = "applied" => world[k] = "applied"
         /\ wal[k].disposition \in {"rejected", "not_applied"} =>
              world[k] \in {"untouched", "ceased", "acting"} /\ (world[k] = "acting" => wal[k].state = "terminal")
  BY DEF SiteInv, Startable, Line

-----------------------------------------------------------------------------
(* Commands, replies and processes. *)
LEMMA NotNone ==
  /\ \A cmd, i : Command(cmd, i) # None /\ Command(cmd, i).cmd = cmd /\ Command(cmd, i).id = i
  /\ \A d, r : [disposition |-> d, recycle |-> r] # None
  /\ \A x, d : Line(x, d) # None /\ Line(x, d).state = x /\ Line(x, d).disposition = d
  BY DEF Command, Line, None

LEMMA Lines ==
  /\ \A w : w = Line("prepared", "not_applied") => w # None /\ w.state = "prepared"
  /\ \A w : w = Line("intent", "unknown") => w # None /\ w.state = "intent" /\ w # Line("prepared", "not_applied")
  /\ \A w, d : w = Line("terminal", d) =>
       w # None /\ w.state = "terminal" /\ w.disposition = d /\ w # Line("prepared", "not_applied")
  BY DEF Line, None

LEMMA AnswerAdded ==
  ASSUME answers \in [Id -> SUBSET Certainty], NEW i \in Id, NEW x \in Certainty, answers[i] = {},
         answers' = [answers EXCEPT ![i] = answers[i] \cup {x}]
  PROVE  /\ answers' \in [Id -> SUBSET Certainty] /\ \A k \in Id : k # i => answers'[k] = answers[k]
         /\ \A y \in answers'[i] : y = x
  BY Zenon

LEMMA RowThere == \A r \in Record : r # None
  BY SMTT(30) DEF Record, None

LEMMA ProcessThere ==
  \A up \in {"live", "dead", "down"}, n \in Inboxes, b \in {None} \cup Id, r \in Replies :
    [up |-> up, inbox |-> n, busy |-> b, reply |-> r] \in Processes
  BY DEF Processes

LEMMA NoneThere == None \in Inboxes /\ None \in Replies /\ \A cmd \in CommandKind, i \in Id : Command(cmd, i) \in Inboxes
  BY Zenon DEF Inboxes, Replies, Command

LEMMA SentPending == ASSUME NEW cmd, NEW i, bridge'.inbox = Command(cmd, i)
                     PROVE  \A k \in Id : ActPending(k)' => cmd = "act" /\ k = i
  BY DEF ActPending, Command

LEMMA Commands == /\ CommandOf["preparing"] = "prepare" /\ CommandOf["acting"] = "act" /\ CommandOf["asking"] = "reconcile"
                  /\ "prepare" \in CommandKind /\ "act" \in CommandKind /\ "reconcile" \in CommandKind
                  /\ \A at \in Waiting : CommandOf[at] = "act" => at = "acting"
  BY DEF CommandOf, CommandKind, Waiting

(* Nothing is under way at a bridge that nobody waits for and that need not be
   started again. *)
LEMMA QuietBridge ==
  ASSUME BridgeType, SiteType, BridgeInv, SiteInv, LockFree, ~ pending, bridge.up = "live"
  PROVE  bridge = Fresh /\ world = Adrift
<1> Quiet
  BY Zenon DEF BridgeInv, BridgeShape
<1>2. bridge = Fresh
  BY DEF BridgeType, Processes, Fresh, Quiet
<1>3. \A i \in Id : world[i] # "acting"
  BY ActionAssumption DEF SiteInv, Quiet
<1>4. world = Adrift
  BY <1>3, Zenon DEF Adrift, SiteType
<1> QED
  BY <1>2, <1>4

(* A command finds a new process, or one as good as new. *)
LEMMA SendFacts ==
  ASSUME BridgeType, SiteType, MemoryType, BridgeInv, SiteInv, NEW cmd \in CommandKind, NEW i \in Id, Send(cmd, i)
  PROVE  /\ bridge' = [up |-> "live", inbox |-> Command(cmd, i), busy |-> None, reply |-> None]
         /\ BridgeType' /\ world' = Adrift /\ pending' = FALSE /\ LockFree
<1>1. /\ LockFree /\ (MustStart \/ bridge.up = "live") /\ pending' = FALSE
      /\ bridge' = [(IF MustStart THEN Fresh ELSE bridge) EXCEPT !.inbox = Command(cmd, i)]
      /\ world' = IF MustStart THEN Adrift ELSE world
  BY Zenon DEF Send
<1>2. ~ MustStart => bridge = Fresh /\ world = Adrift
  BY <1>1, QuietBridge DEF MustStart
<1>3. bridge' = [Fresh EXCEPT !.inbox = Command(cmd, i)] /\ world' = Adrift
  BY <1>1, <1>2
<1>4. bridge' = [up |-> "live", inbox |-> Command(cmd, i), busy |-> None, reply |-> None]
  BY <1>3, Zenon DEF Fresh
<1>5. BridgeType'
  BY <1>4, ProcessThere, NoneThere, Zenon DEF BridgeType
<1> QED
  BY <1>1, <1>3, <1>4, <1>5, Zenon

(* A process that was started, or could not be. *)
Restarted ==
  /\ BridgeType' /\ bridge'.up \in {"live", "down"} /\ Quiet' /\ world' = Adrift
  /\ pending' \in BOOLEAN /\ LockFree

LEMMA CannotSendFacts ==
  ASSUME BridgeType, SiteType, MemoryType, BridgeInv, SiteInv, NEW marks \in BOOLEAN, CannotSend(marks)
  PROVE  Restarted
<1>1. CASE MustStart /\ bridge' = [Fresh EXCEPT !.up = "down"] /\ world' = Adrift /\ UNCHANGED pending /\ LockFree
  <2>1. bridge' = [up |-> "down", inbox |-> None, busy |-> None, reply |-> None]
    BY <1>1 DEF Fresh
  <2>2. BridgeType'
    BY <2>1, ProcessThere, NoneThere, Zenon DEF BridgeType
  <2>3. Quiet'
    BY <2>1, Zenon DEF Quiet
  <2> QED
    BY <1>1, <2>1, <2>2, <2>3, Zenon DEF Restarted, MemoryType
<1>2. CASE bridge.up = "down" /\ pending' = marks /\ UNCHANGED <<bridge, world>> /\ LockFree
  <2>1. Quiet
    BY <1>2 DEF BridgeInv, BridgeShape, Quiet
  <2>2. \A i \in Id : world[i] # "acting"
    BY <1>2 DEF SiteInv
  <2>3. world = Adrift
    BY <2>2, Zenon DEF Adrift, SiteType
  <2>4. BridgeType' /\ Quiet'
    BY <1>2, <2>1, Zenon DEF BridgeType, Quiet
  <2> QED
    BY <1>2, <2>3, <2>4, Zenon DEF Restarted
<1> QED
  BY <1>1, <1>2 DEF CannotSend

LEMMA ReadsFacts ==
  ASSUME BridgeType, SiteType, MemoryType, BridgeInv, SiteInv, Reads
  PROVE  LockFree /\ (Restarted \/ (pending' = TRUE /\ UNCHANGED <<bridge, world>>))
<1> CASE LockFree /\ (MustStart \/ bridge.up = "live") /\ pending' = FALSE
           /\ bridge' = (IF MustStart THEN Fresh ELSE bridge) /\ world' = (IF MustStart THEN Adrift ELSE world)
  <2>1. ~ MustStart => bridge = Fresh /\ world = Adrift
    BY QuietBridge DEF MustStart
  <2> bridge' = Fresh /\ world' = Adrift
    BY <2>1, Zenon
  <2>3. BridgeType' /\ Quiet' /\ bridge'.up = "live"
    BY ProcessThere, NoneThere DEF BridgeType, Quiet, Fresh
  <2> QED
    BY <2>3, Zenon DEF Restarted
<1> CASE CannotSend(TRUE)
  BY CannotSendFacts, Zenon DEF Restarted
<1> CASE LockFree /\ pending' = TRUE /\ UNCHANGED <<bridge, world>>
  OBVIOUS
<1> QED
  BY Zenon DEF Reads

(* Who waited for nothing still does, after a restart. *)
LEMMA BridgeRestarted ==
  ASSUME CallType, Restarted, NEW c \in Caller, NEW v, Moved(c, v), v.at \notin Waiting
  PROVE  BridgeInv'
<1>1. \A d \in Caller : call'[d].at \notin Waiting
  BY DEF Restarted, LockFree, Moved
<1> QED
  BY <1>1, Zenon DEF BridgeInv, BridgeShape, Restarted, Quiet, WaitAt

LEMMA RestartIsSteady ==
  ASSUME SiteType, RecordsStay, world' = Adrift,
         \A i \in Id : ActPending(i)' => ActPending(i) \/ \E c \in Caller : call[c].at = "act" /\ call[c].id = i,
         \A c \in Caller : call'[c].at = "act" => call[c].at = "act" /\ call'[c].id = call[c].id
  PROVE  Steady
<1>1. \A i \in Id : world[i] # "acting" => world'[i] = world[i]
  BY AdriftFacts
<1> QED
  BY <1>1 DEF Steady

LEMMA NoActPending == ASSUME bridge'.inbox = None PROVE \A i \in Id : ~ ActPending(i)'
  BY NotNone, Zenon DEF ActPending

-----------------------------------------------------------------------------
(* Steps of a caller that touch neither the journal nor the bridge. *)
Alone(c, i) == \A d \in Caller : d # c /\ call[d] # Idle => call[d].id # i

LEMMA AloneInside == ASSUME CallInv, NEW c \in Caller, call[c] # Idle PROVE Alone(c, call[c].id)
  BY DEF CallInv, Alone

LEMMA CalmMove ==
  ASSUME ActionInv, NEW c \in Caller, NEW v, NEW i \in Id, Moved(c, v), Alone(c, i), v # Idle => v.id = i,
         v.at \notin Waiting, v.at # "act", call[c].at \notin Waiting, UNCHANGED <<journal, site, pending, answers>>,
         MemoryType', CallAt(v, record),
         v.at = "intent" /\ i \notin Forbidden => wal[i] # None,
         \A k \in Id : ledger'[k] \in {ledger[k], "none"} \/ Sound(k, CertaintyOf[ledger[k]])',
         \A k \in Id : proof'[k] \in {proof[k], "none"},
         v.at \in Told => \/ call[c].at \in Told /\ call[c].id = i /\ v.effect = call[c].effect
                          \/ Sound(i, v.effect.certainty)'
  PROVE  ActionInv'
<1> USE DEF ActionInv, Types
<1> JournalType' /\ RecordInv' /\ RecordsStay /\ AnswerInv'
  BY JournalSame, AnswerSame, Zenon
<1> UNCHANGED <<bridge, wal, world, starts>> /\ UNCHANGED record
  BY Zenon DEF site, journal
<1>3. Types'
  BY Zenon DEF Moved, CallType, BridgeType, SiteType
<1>4. CallInv'
  <2>1. v.at \in Waiting => \A d \in Caller : d # c => call[d].at \notin Waiting
    BY Zenon
  <2>2. CallAt(v, record')
    OBVIOUS
  <2> QED
    BY <2>1, <2>2, CallMoved DEF Alone
<1>5. BridgeInv'
  BY BridgeIgnored
<1>6. SiteInv'
  BY SiteSame
<1> \A k \in Id : ActPending(k)' <=> ActPending(k)
  BY Zenon DEF ActPending
<1>8. SendInv'
  <2>1. v.at = "intent" => v.id = i
    BY DEF Idle
  <2> QED
    BY <2>1, SendMoved, Zenon
<1>9. \A d \in Caller : call'[d].at = "act" => call'[d] = call[d]
  BY Zenon DEF Moved
<1>10. Steady
  BY <1>9, Zenon DEF Steady
<1>11. TruthInv'
  <2> ASSUME NEW d \in Caller, call'[d].at \in Told
        PROVE  /\ call'[d].id \in Id
               /\ \/ call[d].at \in Told /\ call'[d].id = call[d].id /\ call'[d].effect = call[d].effect
                  \/ Sound(call[d].id, call[d].effect.certainty)'
    <3> call'[d].id \in Id
      <4>1. call'[d] # Idle
        BY DEF Told, Idle
      <4> QED
        BY <4>1, Zenon DEF Moved, InCall
    <3> CASE d # c
      BY Zenon DEF Moved
    <3> CASE d = c
      <4>1. call'[d] = v /\ v # Idle
        BY DEF Moved, Told, Idle
      <4> QED
        BY <4>1, Zenon
    <3> QED
      BY Zenon
  <2> ASSUME NEW d \in Caller, call'[d].at \in {"acting", "asking"}
        PROVE  call'[d].id \in Id /\ call'[d] = call[d] /\ bridge'.reply = bridge.reply
    <3>1. d # c
      BY Zenon DEF Moved, Waiting
    <3>2. call'[d] = call[d] /\ call[d] # Idle
      BY <3>1 DEF Moved, Idle
    <3> QED
      BY <3>2, Inside, Zenon
  <2> QED
    BY <1>10, TruthStep, Zenon
<1> QED
  BY <1>3, <1>4, <1>5, <1>6, <1>8, <1>11, Zenon

LEMMA InvokeNewKeeps == ASSUME ActionInv, NEW c \in Caller, NEW i \in Id, InvokeNew(c, i) PROVE ActionInv'
<1> DEFINE at == IF i \in Forbidden THEN "intent" ELSE "prepare"
           v == [at |-> at, id |-> i, effect |-> None]
<1> /\ call[c] = Idle /\ Alone(c, i) /\ record[i] = None /\ Enter(c, i, at, None)
      /\ UNCHANGED <<journal, memory, site, answers>>
  BY DEF InvokeNew, Free, Alone
<1> at \in At /\ at \notin Waiting /\ at \in Before /\ at \notin During \cup Told /\ at # "terminalize" /\ at # "act"
  BY DEF At, Waiting, Before, During, Told
<1>3. Moved(c, v)
  BY EnterMoves, Zenon DEF ActionInv, Types
<1> v.at = at /\ v.id = i
  OBVIOUS
<1>5. CallAt(v, record)
  BY Zenon DEF CallAt
<1>6. at = "intent" => i \in Forbidden
  OBVIOUS
<1> UNCHANGED <<ledger, proof, pending>> /\ call[c].at \notin Waiting
  BY DEF memory, Idle, Waiting
<1>8. MemoryType'
  BY DEF ActionInv, Types, MemoryType
<1> HIDE DEF v, at
<1> QED
  BY <1>3, <1>5, <1>6, <1>8, CalmMove, Zenon

LEMMA InvokeRecoverKeeps == ASSUME ActionInv, NEW c \in Caller, NEW i \in Id, InvokeRecover(c, i) PROVE ActionInv'
<1>1. /\ call[c] = Idle /\ Alone(c, i) /\ record[i] # None /\ record[i].phase \notin Terminal
      /\ IF record[i].phase = "prepared" THEN Enter(c, i, "reconcile", None)
                                         ELSE Enter(c, i, "terminalize", record[i].snapshot)
      /\ UNCHANGED <<journal, memory, site, answers>>
  BY Zenon DEF InvokeRecover, Free, Alone, Unresolved
<1>2. UNCHANGED <<ledger, proof, pending>> /\ call[c].at \notin Waiting
  BY <1>1 DEF memory, Idle, Waiting
<1>3. MemoryType'
  BY <1>2, Zenon DEF ActionInv, Types, MemoryType
<1>4. CASE record[i].phase = "prepared"
  <2> DEFINE v == [at |-> "reconcile", id |-> i, effect |-> None]
  <2>1. Moved(c, v)
    BY <1>1, <1>4, EnterMoves, Zenon DEF ActionInv, Types, At
  <2>2. v.at = "reconcile" /\ v.id = i
    BY Zenon
  <2> HIDE DEF v
  <2>3. CallAt(v, record)
    BY <1>1, <1>4, <2>2, Zenon DEF CallAt, Before, During, Told
  <2> QED
    BY <1>1, <1>2, <1>3, <2>1, <2>2, <2>3, CalmMove, Zenon DEF Waiting, Told
<1>5. CASE record[i].phase # "prepared"
  <2>e. PICK e : e = record[i].snapshot
    BY Zenon
  <2> DEFINE v == [at |-> "terminalize", id |-> i, effect |-> e]
  <2>1. /\ e \in Receipt /\ record[i].request = TheRequest /\ record[i].phase = "reconciled" /\ record[i].effect = e
        /\ e.request = TheRequest /\ Sound(i, e.certainty)
    <3>1. record[i] \in Record
      BY <1>1, Zenon DEF ActionInv, JournalType
    <3>2. e \in Receipt /\ record[i].request = TheRequest /\ record[i].phase = "reconciled" /\ record[i].effect = e
      BY <1>1, <1>5, <2>e, <3>1, Zenon DEF ActionInv, RecordInv, Record, Phase, Terminal
    <3> QED
      BY <1>1, <1>5, <2>e, <3>2, Zenon DEF ActionInv, RecordInv, TruthInv
  <2>2. Moved(c, v)
    BY <1>1, <1>5, <2>e, <2>1, EnterMoves, Zenon DEF ActionInv, Types, At
  <2>3. v.at = "terminalize" /\ v.id = i /\ v.effect = e
    BY Zenon
  <2> HIDE DEF v
  <2>4. CallAt(v, record)
    BY <1>1, <2>e, <2>1, <2>3, Zenon DEF CallAt, Before, During, Told
  <2>5. Sound(i, v.effect.certainty)'
    <3>1. call'[c].at # "act" /\ \A d \in Caller : d # c => call'[d] = call[d]
      BY <2>2, <2>3, Zenon DEF Moved
    <3>2. Steady
      BY <1>1, <3>1, Zenon DEF Steady, RecordsStay, ActPending, site, journal
    <3> QED
      BY <2>1, <2>3, <3>2, SoundStays, Zenon
  <2> QED
    BY <1>1, <1>2, <1>3, <2>2, <2>3, <2>4, <2>5, CalmMove DEF Waiting
<1> QED
  BY <1>4, <1>5, Zenon

(* A step that changes nothing but what was answered. *)
LEMMA StutterKeeps ==
  ASSUME ActionInv, UNCHANGED <<journal, call, memory, site>>, AnswerInv', answers' \in [Id -> SUBSET Certainty] PROVE ActionInv'
<1> UNCHANGED <<record, events, client>> /\ UNCHANGED <<ledger, proof, pending>>
      /\ UNCHANGED <<bridge, wal, world, starts>> /\ UNCHANGED call
  BY DEF journal, memory, site
<1> JournalType' /\ RecordInv' /\ RecordsStay
  BY JournalSame DEF ActionInv
<1>3. Types'
  BY Zenon DEF ActionInv, Types, CallType, BridgeType, SiteType, MemoryType
<1>4. CallInv'
  BY DEF ActionInv, CallInv
<1>5. BridgeInv'
  BY Zenon DEF ActionInv, BridgeInv, BridgeShape, Quiet, LockFree
<1>6. SiteInv'
  BY SiteSame, Zenon DEF ActionInv, site
<1>7. SendInv'
  BY Zenon DEF ActionInv, SendInv, ActPending
<1>8. TruthInv'
  BY DEF ActionInv, TruthInv, Sound, Never, ActPending
<1> QED
  BY <1>3, <1>4, <1>5, <1>6, <1>7, <1>8, Zenon DEF ActionInv

LEMMA InvokeReplayKeeps == ASSUME ActionInv, NEW c \in Caller, NEW i \in Id, InvokeReplay(c, i) PROVE ActionInv'
<1> /\ record[i] # None /\ record[i].phase \in Terminal
      /\ answers' = [answers EXCEPT ![i] = @ \cup {record[i].snapshot.certainty}]
      /\ UNCHANGED <<journal, call, memory, site>>
  BY Zenon DEF InvokeReplay, Unresolved
<1>2. UNCHANGED record
  BY Zenon DEF journal
<1> ASSUME NEW k \in Id, NEW x \in answers'[k] PROVE x \in answers[k] \/ (k = i /\ x = record[i].snapshot.certainty)
  <2> CASE k = i
    BY Zenon DEF ActionInv, Types
  <2> CASE k # i
    BY Zenon DEF ActionInv, Types
  <2> QED
    BY Zenon
<1>4. AnswerInv'
  BY <1>2, Zenon DEF ActionInv, AnswerInv
<1>5. record[i].snapshot.certainty \in Certainty
  BY Zenon DEF ActionInv, RecordInv, Terminal, Receipt
<1>6. answers' \in [Id -> SUBSET Certainty]
  BY <1>5, Zenon DEF ActionInv, Types
<1> QED
  BY <1>4, <1>6, StutterKeeps, Zenon

LEMMA RaiseKeeps == ASSUME ActionInv, NEW c \in Caller, Raise(c) PROVE ActionInv'
<1> /\ call[c].at \in At \ (Waiting \cup {"act"}) /\ Leave(c) /\ UNCHANGED <<journal, memory, site, answers>>
  BY Zenon DEF Raise
<1> call[c] # Idle /\ call[c].id \in Id
  BY Inside, Zenon DEF ActionInv, Types
<1>3. PICK i \in Id : i = call[c].id
  BY Zenon
<1>4. Alone(c, i) /\ Moved(c, Idle)
  BY <1>3, AloneInside, LeaveMoves, Zenon DEF ActionInv, Types
<1> UNCHANGED <<ledger, proof, pending>>
  BY Zenon DEF memory
<1>6. MemoryType'
  BY Zenon DEF ActionInv, Types, MemoryType
<1>7. CallAt(Idle, record) /\ Idle.at \notin Waiting /\ Idle.at \notin Told /\ Idle.at # "act" /\ Idle.at # "intent"
  BY Zenon DEF CallAt, Idle, Waiting, Before, During, Told
<1> QED
  BY <1>4, <1>6, <1>7, CalmMove, Zenon

LEMMA InterruptKeeps == ASSUME ActionInv, NEW c \in Caller, Interrupt(c) PROVE ActionInv'
<1> /\ call[c].at \in {"act", "record"} /\ GotoWith(c, "reconcile", None) /\ UNCHANGED <<journal, memory, site, answers>>
  BY Zenon DEF Interrupt
<1> call[c] # Idle /\ call[c].id \in Id
  BY Inside, Zenon DEF ActionInv, Types, At
<1> PICK i \in Id : i = call[c].id
  BY Zenon
<1> DEFINE v == [at |-> "reconcile", id |-> i, effect |-> None]
<1>4. Alone(c, i) /\ Moved(c, v)
  BY AloneInside, GotoWithMoves, Zenon DEF ActionInv, Types, At
<1> UNCHANGED <<ledger, proof, pending>>
  BY Zenon DEF memory
<1>6. MemoryType'
  BY Zenon DEF ActionInv, Types, MemoryType
<1> v.at = "reconcile" /\ v.id = i
  BY Zenon
<1> HIDE DEF v
<1>8. record[i] # None /\ record[i].phase = "prepared"
  BY Zenon DEF ActionInv, CallInv, CallAt, During
<1>9. CallAt(v, record)
  BY <1>8, Zenon DEF CallAt, Before, During, Told
<1> QED
  BY <1>4, <1>6, <1>9, CalmMove, Zenon DEF Waiting, Told

(* The receipts of this client. *)
LEMMA ReceiptFacts ==
  ASSUME NEW d \in Disposition, NEW mark \in {"acted", "proved"}
  PROVE  /\ ReceiptOf(d, mark) \in Receipt /\ ReceiptOf(d, mark).request = TheRequest
         /\ ReceiptOf(d, mark).certainty = CertaintyOf[d]
<1>1. TheRequest \in Request /\ mark \in Mark
  BY ActionAssumption, Zenon DEF TheRequest
<1>2. CertaintyOf[d] \in Certainty
  BY Zenon DEF CertaintyOf, Disposition, Certainty
<1> QED
  BY <1>1, <1>2, Zenon DEF ReceiptOf, Receipt

(* An action that its contract forbids is not sent. *)
LEMMA ForbiddenNever ==
  ASSUME ActionInv, NEW i \in Forbidden, record[i] # None PROVE world[i] = "untouched" /\ ~ ActPending(i)
  BY ActionAssumption, Zenon DEF ActionInv, SiteInv, SendInv

LEMMA RejectedKeeps ==
  ASSUME ActionInv, NEW c \in Caller, NEW to \in {"record", "settle"}, call[c].at \in {"act", "reconcile"},
         call[c].id \in Forbidden, ledger' = [ledger EXCEPT ![call[c].id] = "rejected"],
         GotoWith(c, to, ReceiptOf("rejected", "proved")), UNCHANGED <<journal, proof, pending, site, answers>>
  PROVE  ActionInv'
<1> call[c] # Idle /\ call[c].id \in Id
  BY Inside, Zenon DEF ActionInv, Types, At
<1> PICK i \in Id : i = call[c].id
  BY Zenon
<1> PICK e \in Receipt : e = ReceiptOf("rejected", "proved") /\ e.request = TheRequest /\ e.certainty = "rejected"
  BY ReceiptFacts, Zenon DEF Disposition, CertaintyOf
<1> DEFINE v == [at |-> to, id |-> i, effect |-> e]
<1> Alone(c, i) /\ Moved(c, v)
  BY AloneInside, GotoWithMoves, Zenon DEF ActionInv, Types, At
<1> v.at = to /\ v.id = i /\ v.effect = e
  BY Zenon
<1> HIDE DEF v
<1> record[i] # None /\ record[i].phase = "prepared"
  BY Zenon DEF ActionInv, CallInv, CallAt, During
<1>7. CallAt(v, record)
  BY Zenon DEF CallAt, Before, During, Told
<1>8. Never(i)'
  <2>1. world[i] = "untouched" /\ ~ ActPending(i)
    BY ForbiddenNever, Zenon
  <2>2. \A d \in Caller : call'[d].at = "act" => call'[d].id # i
    <3> SUFFICES ASSUME NEW d \in Caller, call'[d].at = "act", call'[d].id = i PROVE FALSE
      BY Zenon
    <3> d # c
      BY Zenon DEF Moved
    <3>2. call[d] # Idle /\ call[d].id = i
      BY DEF Moved, Idle
    <3> QED
      BY <3>2, Zenon DEF Alone
  <2> QED
    BY <2>1, <2>2, Zenon DEF Never, ActPending, site, journal
<1> Sound(i, "rejected")'
  BY <1>8, Zenon DEF Sound
<1> MemoryType' /\ \A k \in Id : ledger'[k] = IF k = i THEN "rejected" ELSE ledger[k]
  BY Zenon DEF ActionInv, Types, MemoryType, Disposition
<1>11. \A k \in Id : ledger'[k] = ledger[k] \/ Sound(k, CertaintyOf[ledger[k]])'
  <2>1. CertaintyOf["rejected"] = "rejected"
    BY Zenon DEF CertaintyOf, Disposition
  <2> QED
    BY <2>1, Zenon
<1>12. Sound(i, v.effect.certainty)'
  BY Zenon
<1> QED
  BY <1>7, <1>11, <1>12, CalmMove, Zenon DEF Waiting

(* A remembered proof settles the action without the bridge. *)
LEMMA RememberedKeeps ==
  ASSUME ActionInv, NEW c \in Caller, call[c].at = "reconcile", proof[call[c].id] \in Settled,
         Proven(c, call[c].id, proof[call[c].id]), UNCHANGED <<journal, proof, pending, site, answers>>
  PROVE  ActionInv'
<1> call[c] # Idle /\ call[c].id \in Id
  BY Inside, Zenon DEF ActionInv, Types, At
<1> PICK i \in Id : i = call[c].id
  BY Zenon
<1> PICK d \in Disposition : d = proof[i] /\ Sound(i, CertaintyOf[d])
  <2>1. proof[i] \in Disposition /\ proof[i] # "none"
    BY Zenon DEF Settled, Disposition
  <2> QED
    BY <2>1, Zenon DEF ActionInv, TruthInv
<1> Alone(c, i)
  BY AloneInside, Zenon DEF ActionInv
<1>5. \A v : Moved(c, v) /\ v.at # "act" => Steady
  <2> SUFFICES ASSUME NEW v, Moved(c, v), v.at # "act" PROVE Steady
    BY Zenon
  <2>1. \A x \in Caller : call'[x].at = "act" => call'[x] = call[x]
    BY Zenon DEF Moved
  <2> QED
    BY <2>1, Zenon DEF Steady, RecordsStay, ActPending, site, journal
<1> CASE Refines(i, d)
  <2> PICK e \in Receipt : e = ReceiptOf(d, "proved") /\ e.request = TheRequest /\ e.certainty = CertaintyOf[d]
    BY ReceiptFacts, Zenon
  <2> DEFINE v == [at |-> "refresh", id |-> i, effect |-> e]
  <2> ledger' = [ledger EXCEPT ![i] = d] /\ GotoWith(c, "refresh", e)
    BY Zenon DEF Proven
  <2> Moved(c, v)
    BY GotoWithMoves, Zenon DEF ActionInv, Types, At
  <2> v.at = "refresh" /\ v.id = i /\ v.effect = e
    BY Zenon
  <2> HIDE DEF v
  <2>5. CallAt(v, record)
    BY Zenon DEF ActionInv, CallInv, CallAt, Before, During, Told
  <2> Sound(i, CertaintyOf[d])'
    BY <1>5, SoundStays, Zenon
  <2> MemoryType' /\ \A k \in Id : ledger'[k] = IF k = i THEN d ELSE ledger[k]
    BY Zenon DEF ActionInv, Types, MemoryType
  <2>8. \A k \in Id : ledger'[k] = ledger[k] \/ Sound(k, CertaintyOf[ledger[k]])'
    <3> SUFFICES ASSUME NEW k \in Id, k = i PROVE Sound(k, CertaintyOf[ledger[k]])'
      BY Zenon
    <3> QED
      BY Zenon DEF Sound, Never, CertaintyOf
  <2>9. Sound(i, v.effect.certainty)'
    BY Zenon DEF Sound, CertaintyOf
  <2> QED
    BY <2>5, <2>8, <2>9, CalmMove, Zenon DEF Waiting
<1> CASE ~ Refines(i, d)
  <2> Leave(c) /\ UNCHANGED ledger
    BY Zenon DEF Proven
  <2>2. Moved(c, Idle)
    BY LeaveMoves, Zenon DEF ActionInv, Types
  <2>3. MemoryType'
    BY Zenon DEF ActionInv, Types, MemoryType
  <2>4. CallAt(Idle, record) /\ Idle.at \notin Waiting /\ Idle.at \notin Told /\ Idle.at # "act" /\ Idle.at # "intent"
    BY Zenon DEF CallAt, Idle, Waiting, Before, During, Told
  <2> QED
    BY <2>2, <2>3, <2>4, CalmMove, Zenon DEF Waiting
<1> QED
  BY Zenon

-----------------------------------------------------------------------------
(* Steps in which the host starts a process, or finds that it must. *)
LEMMA HostKeeps ==
  ASSUME ActionInv, UNCHANGED <<journal, wal, starts, answers, proof>>, LockFree,
         Restarted \/ (pending' = TRUE /\ UNCHANGED <<bridge, world>>),
         CallType', CallInv', LockFree',
         \A d \in Caller : call'[d].at \in {"intent", "act"} => call'[d] = call[d],
         \A d \in Caller : call'[d].at \in Told =>
           call[d].at \in Told /\ call'[d].id = call[d].id /\ call'[d].effect = call[d].effect,
         MemoryType', \A k \in Id : ledger'[k] \in {ledger[k], "none", "unknown"}
  PROVE  ActionInv'
<1> USE DEF ActionInv, Types
<1> JournalType' /\ RecordInv' /\ RecordsStay /\ AnswerInv' /\ UNCHANGED record
  BY JournalSame, AnswerSame, Zenon DEF journal
<1> \A d \in Caller : call'[d].at \notin Waiting
  BY Zenon DEF LockFree
<1> \A k \in Id : ActPending(k)' => ActPending(k)
  <2> CASE Restarted
    BY NoActPending, Zenon DEF Restarted, Quiet
  <2> CASE UNCHANGED bridge
    BY Zenon DEF ActPending
  <2> QED
    BY Zenon
<1>4. BridgeType' /\ SiteType'
  <2> CASE Restarted
    BY AdriftFacts, Zenon DEF Restarted, SiteType
  <2> CASE UNCHANGED <<bridge, world>>
    BY Zenon DEF BridgeType, SiteType
  <2> QED
    BY Zenon
<1>5. BridgeInv'
  <2>1. BridgeShape'
    <3> CASE Restarted
      BY Zenon DEF Restarted, BridgeShape, Quiet
    <3> CASE pending' = TRUE /\ UNCHANGED <<bridge, world>>
      BY Zenon DEF BridgeInv, BridgeShape
    <3> QED
      BY Zenon
  <2> QED
    BY <2>1, Zenon DEF BridgeInv, WaitAt
<1>6. SiteInv'
  <2> CASE Restarted
    BY SiteRestarted, Zenon DEF Restarted, Quiet
  <2> CASE pending' = TRUE /\ UNCHANGED <<bridge, world>>
    BY SiteSame, Zenon DEF site
  <2> QED
    BY Zenon
<1>7. SendInv'
  <2>1. \A k \in Id : ActPending(k)' => k \notin Forbidden /\ record'[k] # None /\ wal'[k] = Line("prepared", "not_applied")
    BY Zenon DEF SendInv
  <2>2. ASSUME NEW d \in Caller
        PROVE  /\ call'[d].at = "intent" /\ call'[d].id \notin Forbidden => wal'[call'[d].id] # None
               /\ call'[d].at = "act" /\ call'[d].id \notin Forbidden => wal'[call'[d].id] = Line("prepared", "not_applied")
               /\ call'[d].at = "act" => ~ ActPending(call[d].id)'
    <3>1. call[d].at = "act" => call[d].id \in Id
      BY Inside, Zenon DEF At
    <3> QED
      BY <3>1, Zenon DEF SendInv
  <2> QED
    BY <2>1, <2>2, Zenon DEF SendInv
<1>8. Steady
  <2> CASE Restarted
    BY RestartIsSteady, Zenon DEF Restarted
  <2> CASE UNCHANGED <<bridge, world>>
    BY Zenon DEF Steady
  <2> QED
    BY Zenon
<1>9. TruthInv'
  <2>1. \A k \in Id : ledger'[k] \in {ledger[k], "none"} \/ Sound(k, CertaintyOf[ledger[k]])'
    BY Zenon DEF Sound, CertaintyOf, Disposition
  <2>2. \A d \in Caller : call'[d].at \in Told => call'[d].id \in Id
    BY Inside, Zenon DEF Told, At
  <2>3. \A d \in Caller : call'[d].at \notin {"acting", "asking"}
    BY Zenon DEF Waiting
  <2> QED
    BY <1>8, <2>1, <2>2, <2>3, TruthStep, Zenon
<1> QED
  BY <1>4, <1>5, <1>6, <1>7, <1>9, Zenon

(* The command could not be sent: the caller leaves, or reconciles. *)
LEMMA UnsentKeeps ==
  ASSUME ActionInv, NEW c \in Caller, NEW v, Moved(c, v), call[c] # Idle, Restarted,
         v = Idle \/ (v.at = "reconcile" /\ v.id = call[c].id /\ call[c].at = "act"),
         UNCHANGED <<journal, wal, starts, answers, proof>>,
         ledger' = ledger \/ ledger' = [ledger EXCEPT ![call[c].id] = "unknown"]
  PROVE  ActionInv'
<1> USE DEF ActionInv, Types
<1> PICK i \in Id : i = call[c].id
  BY Inside, Zenon
<1> v.at \notin Waiting \cup Told \cup {"intent", "act"} /\ (v # Idle => v.id = i)
  BY DEF Idle, Waiting, Told
<1> UNCHANGED record
  BY Zenon DEF journal
<1>4. CallAt(v, record')
  BY DEF CallInv, CallAt, Idle, Before, During, Told
<1>5. CallInv'
  BY <1>4, AloneInside, CallMoved DEF Alone
<1>6. LockFree' /\ LockFree /\ CallType'
  BY Zenon DEF Restarted, LockFree, Moved, CallType
<1>7. MemoryType' /\ \A k \in Id : ledger'[k] \in {ledger[k], "none", "unknown"}
  BY Zenon DEF MemoryType, Disposition, Restarted
<1>8. ASSUME NEW d \in Caller
      PROVE  /\ call'[d].at \in {"intent", "act"} => call'[d] = call[d]
             /\ call'[d].at \in Told => call[d].at \in Told /\ call'[d].id = call[d].id /\ call'[d].effect = call[d].effect
  BY Zenon DEF Moved
<1> QED
  BY <1>5, <1>6, <1>7, <1>8, HostKeeps, Zenon

LEMMA PrepareFailsKeeps == ASSUME ActionInv, NEW c \in Caller, PrepareFails(c) PROVE ActionInv'
<1>1. Restarted /\ call[c] # Idle /\ Moved(c, Idle)
  BY CannotSendFacts, LeaveMoves, Inside, Zenon DEF PrepareFails, ActionInv, Types, Idle
<1> QED
  BY <1>1, UnsentKeeps, Zenon DEF PrepareFails

LEMMA AskFailsKeeps == ASSUME ActionInv, NEW c \in Caller, AskFails(c) PROVE ActionInv'
<1>1. Restarted /\ call[c] # Idle /\ Moved(c, Idle)
  BY CannotSendFacts, LeaveMoves, Inside, Zenon DEF AskFails, ActionInv, Types, Idle
<1> QED
  BY <1>1, UnsentKeeps, Zenon DEF AskFails

LEMMA ActFailsKeeps == ASSUME ActionInv, NEW c \in Caller, ActFails(c) PROVE ActionInv'
<1> Restarted /\ call[c] # Idle /\ call[c].at = "act"
  BY CannotSendFacts, Inside, Zenon DEF ActFails, ActionInv, Types, Idle
<1> PICK v : v = [at |-> "reconcile", id |-> call[c].id, effect |-> call[c].effect]
  BY Zenon
<1>3. Moved(c, v)
  BY GotoMoves, Zenon DEF ActFails, ActionInv, Types, At
<1> QED
  BY <1>3, UnsentKeeps, Zenon DEF ActFails

LEMMA RefreshKeeps == ASSUME ActionInv, NEW c \in Caller, Refresh(c) PROVE ActionInv'
<1> USE DEF ActionInv, Types
<1> /\ call[c].at = "refresh" /\ Reads /\ Goto(c, "settle") /\ UNCHANGED <<journal, ledger, proof, wal, starts, answers>>
  BY Zenon DEF Refresh
<1> call[c] # Idle /\ call[c].id \in Id
  BY Inside, Zenon DEF At
<1> PICK i \in Id : i = call[c].id
  BY Zenon
<1>4. PICK v : v = [at |-> "settle", id |-> call[c].id, effect |-> call[c].effect]
  BY Zenon
<1> Moved(c, v) /\ v.at = "settle" /\ v.id = i /\ v.effect = call[c].effect
  BY <1>4, GotoMoves, Zenon DEF At
<1> LockFree /\ (Restarted \/ (pending' = TRUE /\ UNCHANGED <<bridge, world>>))
  BY ReadsFacts, Zenon
<1>7. CallAt(v, record')
  BY Zenon DEF CallInv, CallAt, Before, During, Told, journal
<1>8. CallInv'
  BY <1>7, AloneInside, CallMoved DEF Alone, Waiting, journal
<1>9. LockFree' /\ CallType'
  BY Zenon DEF LockFree, Moved, CallType, Waiting
<1>10. ASSUME NEW d \in Caller
       PROVE  /\ call'[d].at \in {"intent", "act"} => call'[d] = call[d]
              /\ call'[d].at \in Told => call[d].at \in Told /\ call'[d].id = call[d].id /\ call'[d].effect = call[d].effect
  BY Zenon DEF Moved, Told
<1>11. MemoryType'
  BY Zenon DEF MemoryType, Restarted
<1> QED
  BY <1>8, <1>9, <1>10, <1>11, HostKeeps, Zenon

LEMMA ObserveKeeps == ASSUME ActionInv, Observe PROVE ActionInv'
<1> USE DEF ActionInv, Types
<1> Reads /\ UNCHANGED call /\ UNCHANGED <<journal, ledger, proof, wal, starts, answers>>
  BY Zenon DEF Observe
<1> LockFree /\ (Restarted \/ (pending' = TRUE /\ UNCHANGED <<bridge, world>>))
  BY ReadsFacts, Zenon
<1>3. LockFree' /\ CallType' /\ CallInv'
  BY Zenon DEF LockFree, CallType, CallInv, journal
<1>4. MemoryType'
  BY Zenon DEF MemoryType, Restarted
<1> QED
  BY <1>3, <1>4, HostKeeps, Zenon

-----------------------------------------------------------------------------
(* Commands go out. *)
LEMMA SentKeeps ==
  ASSUME ActionInv, NEW c \in Caller, NEW v, NEW i \in Id, NEW cmd \in CommandKind, Moved(c, v), call[c] # Idle, call[c].id = i,
         v.id = i, v.at \in Waiting, cmd = CommandOf[v.at], CallAt(v, record), Send(cmd, i),
         v.at = "acting" => call[c].at = "act" /\ i \notin Forbidden,
         UNCHANGED <<journal, ledger, proof, wal, starts, answers>>
  PROVE  ActionInv'
<1> USE DEF ActionInv, Types
<1> JournalType' /\ RecordInv' /\ RecordsStay /\ AnswerInv' /\ UNCHANGED record
  BY JournalSame, AnswerSame, Zenon DEF journal
<1> /\ bridge' = [up |-> "live", inbox |-> Command(cmd, i), busy |-> None, reply |-> None]
      /\ BridgeType' /\ world' = Adrift /\ pending' = FALSE /\ LockFree
  BY SendFacts, Zenon
<1> /\ bridge'.up = "live" /\ bridge'.inbox = Command(cmd, i) /\ bridge'.busy = None /\ bridge'.reply = None
  BY Zenon
<1> Types'
  BY AdriftFacts, Zenon DEF Moved, CallType, SiteType, MemoryType
<1> Alone(c, i)
  BY AloneInside, Zenon
<1>6. CallInv'
  <2>1. \A d \in Caller : d # c => call[d].at \notin Waiting
    BY Zenon DEF LockFree
  <2> QED
    BY <2>1, CallMoved DEF Alone
<1>7. ~ LockFree'
  BY Zenon DEF LockFree, Moved
<1>8. BridgeInv'
  <2>1. BridgeShape'
    BY <1>7, Zenon DEF BridgeShape
  <2>2. WaitAt(v, bridge', pending', wal')
    BY Zenon DEF WaitAt
  <2> QED
    BY <2>1, <2>2, BridgeMoved, Zenon DEF LockFree
<1>9. SiteInv'
  BY SiteRestarted, Zenon
<1> \A k \in Id : ActPending(k)' => v.at = "acting" /\ k = i
  <2> SUFFICES ASSUME NEW k \in Id, ActPending(k)' PROVE v.at = "acting" /\ k = i
    BY Zenon
  <2>2. cmd = "act" /\ k = i
    BY SentPending, Zenon
  <2>4. \A at \in Waiting : CommandOf[at] = "act" => at = "acting"
    BY Commands, Zenon
  <2>5. v.at = "acting"
    BY <2>2, <2>4, Zenon
  <2> QED
    BY <2>2, <2>5, Zenon
<1>11. SendInv'
  <2> ASSUME NEW k \in Id, ActPending(k)'
        PROVE  k \notin Forbidden /\ record'[k] # None /\ wal'[k] = Line("prepared", "not_applied")
    <3>1. v.at = "acting" /\ k = i
      BY Zenon
    <3> QED
      BY <3>1, Zenon DEF SendInv, CallAt, During
  <2> ASSUME NEW d \in Caller
        PROVE  /\ call'[d].at = "intent" /\ call'[d].id \notin Forbidden => wal'[call'[d].id] # None
               /\ call'[d].at = "act" /\ call'[d].id \notin Forbidden => wal'[call'[d].id] = Line("prepared", "not_applied")
               /\ call'[d].at = "act" => ~ ActPending(call[d].id)'
    <3> CASE d = c
      BY Zenon DEF Moved, Waiting
    <3> CASE d # c
      <4>1. call'[d] = call[d]
        BY Zenon DEF Moved
      <4>2. call[d].at = "act" => call[d].id \in Id /\ call[d].id # i
        BY Inside, Zenon DEF Alone, At
      <4> QED
        BY <4>1, <4>2, Zenon DEF SendInv
    <3> QED
      BY Zenon
  <2> QED
    <3>1. \A d \in Caller : call'[d].at = "act" => ~ ActPending(call[d].id)'
      BY Zenon
    <3> QED
      BY <3>1, Zenon DEF SendInv
<1>12. Steady
  <2>1. \A d \in Caller : call'[d].at = "act" => call[d].at = "act" /\ call'[d].id = call[d].id
    BY Zenon DEF Moved, Waiting
  <2> QED
    BY <2>1, RestartIsSteady, Zenon
<1>13. TruthInv'
  <2> ASSUME NEW d \in Caller, call'[d].at \in Told
        PROVE  call'[d].id \in Id /\ call[d].at \in Told /\ call'[d].id = call[d].id /\ call'[d].effect = call[d].effect
    <3>1. d # c
      BY Zenon DEF Moved, Told, Waiting
    <3>2. call'[d] = call[d]
      BY <3>1, Zenon DEF Moved
    <3> QED
      BY <3>2, Inside, Zenon DEF Told, At
  <2> QED
    BY <1>12, TruthStep, Zenon
<1> QED
  BY <1>6, <1>8, <1>9, <1>11, <1>13, Zenon

(* A caller goes from where it is to wait for a command. *)
LEMMA WaitMove ==
  ASSUME ActionInv, NEW c \in Caller, NEW to \in Waiting, NEW cmd \in CommandKind, cmd = CommandOf[to],
         call[c].at = (CASE to = "preparing" -> "prepare" [] to = "acting" -> "act" [] to = "asking" -> "reconcile"),
         Send(cmd, call[c].id), Goto(c, to), to = "acting" => call[c].id \notin Forbidden,
         UNCHANGED <<journal, ledger, proof, wal, starts, answers>>
  PROVE  ActionInv'
<1> call[c].at \in At /\ to \in At
  BY Zenon DEF At, Waiting
<1> call[c] # Idle /\ call[c].id \in Id
  BY Inside, Zenon DEF ActionInv, Types
<1> PICK i \in Id : i = call[c].id
  BY Zenon
<1>4. PICK v : v = [at |-> to, id |-> call[c].id, effect |-> call[c].effect]
  BY Zenon
<1> Moved(c, v) /\ v.at = to /\ v.id = i
  BY <1>4, GotoMoves, Zenon DEF ActionInv, Types
<1>6. CallAt(v, record)
  BY Zenon DEF ActionInv, CallInv, CallAt, Before, During, Told, Waiting
<1>7. to = "acting" => call[c].at = "act"
  BY Zenon
<1> QED
  BY <1>6, <1>7, SentKeeps, Zenon

LEMMA PrepareHandleKeeps == ASSUME ActionInv, NEW c \in Caller, PrepareHandle(c) PROVE ActionInv'
<1>1. "preparing" \in Waiting
  BY Zenon DEF Waiting
<1> QED
  BY <1>1, WaitMove, Commands, Zenon DEF PrepareHandle

LEMMA ActKeeps == ASSUME ActionInv, NEW c \in Caller, Act(c) PROVE ActionInv'
<1> CASE /\ call[c].id \in Forbidden /\ ledger' = [ledger EXCEPT ![call[c].id] = "rejected"]
           /\ GotoWith(c, "record", ReceiptOf("rejected", "proved")) /\ UNCHANGED <<proof, pending, site>>
  BY RejectedKeeps, Zenon DEF Act
<1> CASE /\ call[c].id \notin Forbidden /\ Send("act", call[c].id) /\ Goto(c, "acting")
           /\ UNCHANGED <<ledger, proof, wal, starts>>
  <2>1. "acting" \in Waiting
    BY Zenon DEF Waiting
  <2> QED
    BY <2>1, WaitMove, Commands, Zenon DEF Act
<1> QED
  BY Zenon DEF Act

LEMMA AskKeeps == ASSUME ActionInv, NEW c \in Caller, Ask(c) PROVE ActionInv'
<1> CASE /\ call[c].id \in Forbidden /\ ledger' = [ledger EXCEPT ![call[c].id] = "rejected"]
           /\ GotoWith(c, "settle", ReceiptOf("rejected", "proved")) /\ UNCHANGED <<proof, pending, site>>
  BY RejectedKeeps, Zenon DEF Ask
<1> CASE /\ proof[call[c].id] \in Settled /\ Proven(c, call[c].id, proof[call[c].id])
           /\ UNCHANGED <<proof, pending, site>>
  BY RememberedKeeps, Zenon DEF Ask
<1> CASE /\ Send("reconcile", call[c].id) /\ Goto(c, "asking") /\ UNCHANGED <<ledger, proof, wal, starts>>
  <2>1. "asking" \in Waiting
    BY Zenon DEF Waiting
  <2> QED
    BY <2>1, WaitMove, Commands, Zenon DEF Ask
<1> QED
  BY Zenon DEF Ask

-----------------------------------------------------------------------------
(* Waiting ends. *)
LEMMA SteadyMove ==
  ASSUME NEW c \in Caller, NEW v, Moved(c, v), v.at # "act", UNCHANGED <<journal, world>>,
         \A k \in Id : ActPending(k)' => ActPending(k)
  PROVE  Steady
<1>1. \A d \in Caller : call'[d].at = "act" => call'[d] = call[d]
  BY Zenon DEF Moved
<1> QED
  BY <1>1, Zenon DEF Steady, RecordsStay, journal

LEMMA WaitOver ==
  ASSUME ActionInv, NEW c \in Caller, NEW v, NEW i \in Id, Moved(c, v), call[c].at \in Waiting, call[c].id = i,
         v # Idle => v.id = i, v.at \notin Waiting, v.at # "act", CallAt(v, record),
         UNCHANGED <<journal, wal, world, starts, answers>>, BridgeType', MemoryType', BridgeShape', SiteInv',
         \A k \in Id : ActPending(k)' => ActPending(k),
         v.at = "intent" /\ i \notin Forbidden => wal[i] # None,
         \A k \in Id : ledger'[k] \in {ledger[k], "none"} \/ Sound(k, CertaintyOf[ledger[k]])',
         \A k \in Id : proof'[k] \in {proof[k], "none"} \/ Sound(k, CertaintyOf[proof[k]])',
         v.at \in Told => Sound(i, v.effect.certainty)'
  PROVE  ActionInv'
<1> USE DEF ActionInv, Types
<1> JournalType' /\ RecordInv' /\ RecordsStay /\ AnswerInv' /\ UNCHANGED record
  BY JournalSame, AnswerSame, Zenon DEF journal
<1> Types'
  BY Zenon DEF Moved, CallType, SiteType
<1>3. call[c] # Idle
  BY Inside, Zenon DEF Waiting, At
<1>4. CallInv'
  <2>1. \A d \in Caller : d # c /\ call[d] # Idle => call[d].id # i
    BY <1>3, AloneInside, Zenon DEF Alone
  <2> QED
    BY <2>1, CallMoved, Zenon
<1> \A d \in Caller : call'[d].at \notin Waiting
  BY Zenon DEF CallInv, Moved
<1>6. BridgeInv'
  BY Zenon DEF BridgeInv, WaitAt
<1>7. SendInv'
  <2>1. v.at = "intent" => v.id = i
    BY IdleAt, Zenon
  <2> QED
    BY <2>1, SendMoved, Zenon
<1>8. Steady
  BY SteadyMove, Zenon
<1>9. TruthInv'
  <2> ASSUME NEW d \in Caller, call'[d].at \in Told
        PROVE  /\ call'[d].id \in Id
               /\ \/ call[d].at \in Told /\ call'[d].id = call[d].id /\ call'[d].effect = call[d].effect
                  \/ Sound(call[d].id, call[d].effect.certainty)'
    <3> CASE d # c
      <4>1. call'[d] = call[d]
        BY Zenon DEF Moved
      <4> QED
        BY <4>1, Inside, Zenon DEF Told, At
    <3> CASE d = c
      <4> call'[d] = v /\ v # Idle
        BY IdleAt, Zenon DEF Moved, Told
      <4>2. call'[d].id = i
        BY Zenon
      <4> QED
        BY <4>2, Zenon
    <3> QED
      BY Zenon
  <2>2. \A d \in Caller : call'[d].at \notin {"acting", "asking"}
    BY Zenon DEF Waiting
  <2> QED
    BY <1>8, <2>2, TruthStep, Zenon
<1> QED
  BY <1>4, <1>6, <1>7, <1>9, Zenon

(* No answer. *)
LEMMA LostKeeps == ASSUME ActionInv, NEW c \in Caller, Lost(c) PROVE ActionInv'
<1> USE DEF ActionInv, Types
<1> /\ call[c].at \in Waiting /\ pending' = TRUE /\ UNCHANGED <<journal, proof, site, answers>>
      /\ IF call[c].at = "acting"
         THEN ledger' = [ledger EXCEPT ![call[c].id] = "unknown"] /\ Goto(c, "reconcile")
         ELSE Leave(c) /\ UNCHANGED ledger
  BY Zenon DEF Lost
<1> call[c] # Idle /\ call[c].id \in Id
  BY Inside, Zenon DEF At
<1> PICK i \in Id : i = call[c].id
  BY Zenon
<1> UNCHANGED <<bridge, wal, world, starts>> /\ UNCHANGED record
  BY Zenon DEF site, journal
<1> BridgeType' /\ BridgeShape' /\ \A k \in Id : ActPending(k)' => ActPending(k)
  BY Zenon DEF BridgeType, BridgeInv, BridgeShape, ActPending
<1> SiteInv'
  BY SiteSame, Zenon DEF RecordsStay
<1> MemoryType'
  BY Zenon DEF MemoryType, Disposition
<1> \A k \in Id : ledger'[k] = ledger[k] \/ Sound(k, CertaintyOf[ledger[k]])'
  BY Zenon DEF MemoryType, Sound, CertaintyOf, Disposition
<1> CASE call[c].at = "acting"
  <2>1. PICK v : v = [at |-> "reconcile", id |-> call[c].id, effect |-> call[c].effect]
    BY Zenon
  <2> Moved(c, v) /\ v.at = "reconcile" /\ v.id = i
    BY <2>1, GotoMoves, Zenon DEF At
  <2>3. CallAt(v, record)
    BY Zenon DEF CallInv, CallAt, Before, During, Told
  <2> QED
    BY <2>3, WaitOver, Zenon DEF Waiting, Told
<1> CASE call[c].at # "acting"
  <2>1. Moved(c, Idle)
    BY LeaveMoves, Zenon
  <2>2. CallAt(Idle, record) /\ Idle.at \notin Waiting /\ Idle.at \notin Told /\ Idle.at # "act" /\ Idle.at # "intent"
    BY Zenon DEF CallAt, Idle, Waiting, Before, During, Told
  <2> QED
    BY <2>1, <2>2, WaitOver, Zenon
<1> QED
  BY Zenon

(* An answer is read: the bridge has nothing else under way, except a handler that
   did not settle, for which it asks to be recycled. *)
LEMMA TakenFacts ==
  ASSUME ActionInv, NEW c \in Caller, call[c].at \in Waiting, bridge.reply # None, Taken
  PROVE  /\ BridgeType' /\ Quiet' /\ ~ pending
         /\ bridge.reply.disposition \in Disposition /\ bridge.reply.recycle \in BOOLEAN
         /\ bridge.busy = None /\ bridge.inbox = None /\ bridge'.up = bridge.up
         /\ \A k \in Id : ~ ActPending(k)'
<1> USE DEF ActionInv, Types
<1> bridge \in Processes /\ bridge.busy = None /\ bridge.inbox = None /\ ~ pending
  BY Zenon DEF BridgeType, BridgeInv, BridgeShape, WaitAt
<1>2. bridge.reply.disposition \in Disposition /\ bridge.reply.recycle \in BOOLEAN
  BY Zenon DEF Processes, Replies
<1> bridge' = [up |-> bridge.up, inbox |-> None, busy |-> None, reply |-> None]
  BY Zenon DEF Taken, Processes
<1>4. BridgeType'
  <2>1. bridge.up \in {"live", "dead", "down"}
    BY Zenon DEF Processes
  <2> QED
    BY <2>1, ProcessThere, NoneThere, Zenon DEF BridgeType
<1>5. Quiet' /\ bridge'.up = bridge.up
  BY Zenon DEF Quiet
<1> QED
  BY <1>2, <1>4, <1>5, NoActPending, Zenon DEF Quiet

LEMMA TakenSite ==
  ASSUME ActionInv, NEW c \in Caller, call[c].at \in Waiting, bridge.reply # None, Taken,
         bridge.reply.recycle => pending', UNCHANGED <<journal, wal, world, starts>>
  PROVE  SiteInv' /\ BridgeShape'
<1> USE DEF ActionInv, Types
<1> /\ Quiet' /\ ~ pending /\ bridge.busy = None /\ bridge'.up = bridge.up
  BY TakenFacts, Zenon
<1>2. UNCHANGED record
  BY Zenon DEF journal
<1>3. \A k \in Id : world[k] = "acting" => bridge.up = "live" /\ bridge.reply.recycle
  BY ActionAssumption, Zenon DEF SiteInv
<1>4. SiteInv'
  BY <1>2, <1>3, Zenon DEF SiteInv, Startable, Quiet
<1>5. BridgeShape'
  BY Zenon DEF BridgeShape, Quiet
<1> QED
  BY <1>4, <1>5, Zenon

LEMMA PrepareAckKeeps == ASSUME ActionInv, NEW c \in Caller, PrepareAck(c) PROVE ActionInv'
<1> USE DEF ActionInv, Types
<1> /\ call[c].at = "preparing" /\ bridge.reply # None /\ Taken /\ Goto(c, "intent")
      /\ UNCHANGED <<journal, memory, wal, world, starts, answers>>
  BY Zenon DEF PrepareAck
<1> call[c] # Idle /\ call[c].id \in Id /\ call[c].at \in Waiting
  BY Inside, Zenon DEF At, Waiting
<1> PICK i \in Id : i = call[c].id
  BY Zenon
<1>4. PICK v : v = [at |-> "intent", id |-> call[c].id, effect |-> call[c].effect]
  BY Zenon
<1> Moved(c, v) /\ v.at = "intent" /\ v.id = i
  BY <1>4, GotoMoves, Zenon DEF At
<1>6. CallAt(v, record)
  BY Zenon DEF CallInv, CallAt, Before, During, Told
<1> ~ bridge.reply.recycle /\ wal[i] # None
  BY Zenon DEF BridgeInv, WaitAt
<1>8. BridgeType' /\ \A k \in Id : ~ ActPending(k)'
  BY TakenFacts, Zenon
<1>9. SiteInv' /\ BridgeShape'
  BY TakenSite, Zenon
<1> UNCHANGED <<ledger, proof, pending>>
  BY Zenon DEF memory
<1>11. MemoryType'
  BY Zenon DEF MemoryType
<1> QED
  BY <1>6, <1>8, <1>9, <1>11, WaitOver, Zenon DEF Waiting, Told

(* What an answer adds to the client's memory is true. *)
LEMMA Remembered ==
  ASSUME MemoryType, NEW i \in Id, NEW d \in Disposition, Remember(i, d), Sound(i, CertaintyOf[d])'
  PROVE  /\ proof' \in [Id -> {"none"} \cup Disposition]
         /\ \A k \in Id : proof'[k] = proof[k] \/ Sound(k, CertaintyOf[proof[k]])'
<1> proof' = [proof EXCEPT ![i] = IF proof[i] \in Settled THEN proof[i] ELSE d]
  BY Zenon DEF Remember, MemoryType
<1>2. proof' \in [Id -> {"none"} \cup Disposition]
  BY Zenon DEF MemoryType
<1> ASSUME NEW k \in Id, proof'[k] # proof[k] PROVE Sound(k, CertaintyOf[proof[k]])'
  <2>1. k = i /\ proof'[k] = d
    BY Zenon DEF MemoryType
  <2> QED
    BY <2>1, Zenon DEF Sound, CertaintyOf
<1> QED
  BY <1>2, Zenon

LEMMA Ledgered ==
  ASSUME MemoryType, NEW i \in Id, NEW d \in Disposition, ledger' = [ledger EXCEPT ![i] = d], Sound(i, CertaintyOf[d])'
  PROVE  /\ ledger' \in [Id -> {"none"} \cup Disposition]
         /\ \A k \in Id : ledger'[k] = ledger[k] \/ Sound(k, CertaintyOf[ledger[k]])'
<1>1. ledger' \in [Id -> {"none"} \cup Disposition]
  BY Zenon DEF MemoryType
<1> ASSUME NEW k \in Id, ledger'[k] # ledger[k] PROVE Sound(k, CertaintyOf[ledger[k]])'
  <2>1. k = i /\ ledger'[k] = d
    BY Zenon DEF MemoryType
  <2> QED
    BY <2>1, Zenon DEF Sound, CertaintyOf
<1> QED
  BY <1>1, Zenon

LEMMA ActResultKeeps == ASSUME ActionInv, NEW c \in Caller, ActResult(c) PROVE ActionInv'
<1> USE DEF ActionInv, Types
<1> PICK i, d, r : i = call[c].id /\ d = bridge.reply.disposition /\ r = bridge.reply.recycle
  BY Zenon
<1> /\ call[c].at = "acting" /\ bridge.reply # None /\ Taken /\ pending' = r
      /\ Remember(i, d) /\ ledger' = [ledger EXCEPT ![i] = d]
      /\ GotoWith(c, "record", ReceiptOf(d, "acted"))
      /\ UNCHANGED <<journal, wal, world, starts, answers>>
  BY Zenon DEF ActResult
<1> call[c] # Idle /\ i \in Id /\ call[c].at \in Waiting
  BY Inside, Zenon DEF At, Waiting
<1> /\ BridgeType' /\ (\A k \in Id : ~ ActPending(k)') /\ d \in Disposition /\ r \in BOOLEAN
  BY TakenFacts, Zenon
<1>5. SiteInv' /\ BridgeShape'
  BY TakenSite, Zenon
<1> PICK e \in Receipt : e = ReceiptOf(d, "acted") /\ e.request = TheRequest /\ e.certainty = CertaintyOf[d]
  BY ReceiptFacts, Zenon
<1>7. PICK v : v = [at |-> "record", id |-> i, effect |-> e]
  BY Zenon
<1> Moved(c, v) /\ v.at = "record" /\ v.id = i /\ v.effect = e
  BY <1>7, GotoWithMoves, Zenon DEF At
<1>9. Steady
  BY SteadyMove, Zenon
<1> Sound(i, CertaintyOf[d])'
  <2>1. Sound(i, CertaintyOf[d])
    BY Zenon DEF TruthInv
  <2> QED
    BY <1>9, <2>1, SoundStays, Zenon
<1>11. Sound(i, v.effect.certainty)'
  BY Zenon DEF Sound
<1>12. CallAt(v, record)
  BY Zenon DEF CallInv, CallAt, Before, During, Told
<1>13. MemoryType' /\ (\A k \in Id : ledger'[k] = ledger[k] \/ Sound(k, CertaintyOf[ledger[k]])')
                   /\ (\A k \in Id : proof'[k] = proof[k] \/ Sound(k, CertaintyOf[proof[k]])')
  <2>1. /\ ledger' \in [Id -> {"none"} \cup Disposition]
        /\ \A k \in Id : ledger'[k] = ledger[k] \/ Sound(k, CertaintyOf[ledger[k]])'
    BY Ledgered, Zenon
  <2>2. /\ proof' \in [Id -> {"none"} \cup Disposition]
        /\ \A k \in Id : proof'[k] = proof[k] \/ Sound(k, CertaintyOf[proof[k]])'
    BY Remembered, Zenon
  <2> QED
    BY <2>1, <2>2, Zenon DEF MemoryType
<1> QED
  BY <1>5, <1>11, <1>12, <1>13, WaitOver, Zenon DEF Waiting

LEMMA ActCancelledKeeps == ASSUME ActionInv, NEW c \in Caller, ActCancelled(c) PROVE ActionInv'
<1> USE DEF ActionInv, Types
<1> PICK i, d, r : i = call[c].id /\ d = bridge.reply.disposition /\ r = bridge.reply.recycle
  BY Zenon
<1> /\ call[c].at = "acting" /\ bridge.reply # None /\ Taken /\ pending' \in {r, TRUE}
      /\ Remember(i, d) /\ ledger' = [ledger EXCEPT ![i] = "unknown"] /\ Goto(c, "reconcile")
      /\ UNCHANGED <<journal, wal, world, starts, answers>>
  BY Zenon DEF ActCancelled
<1> call[c] # Idle /\ i \in Id /\ call[c].at \in Waiting
  BY Inside, Zenon DEF At, Waiting
<1> /\ BridgeType' /\ (\A k \in Id : ~ ActPending(k)') /\ d \in Disposition /\ r \in BOOLEAN
  BY TakenFacts, Zenon
<1>5. SiteInv' /\ BridgeShape'
  BY TakenSite, Zenon
<1>6. PICK v : v = [at |-> "reconcile", id |-> call[c].id, effect |-> call[c].effect]
  BY Zenon
<1> Moved(c, v) /\ v.at = "reconcile" /\ v.id = i
  BY <1>6, GotoMoves, Zenon DEF At
<1>8. Steady
  BY SteadyMove, Zenon
<1>9. Sound(i, CertaintyOf[d])'
  <2>1. Sound(i, CertaintyOf[d])
    BY Zenon DEF TruthInv
  <2> QED
    BY <1>8, <2>1, SoundStays, Zenon
<1>10. CallAt(v, record)
  BY Zenon DEF CallInv, CallAt, Before, During, Told
<1>11. MemoryType' /\ (\A k \in Id : ledger'[k] = ledger[k] \/ Sound(k, CertaintyOf[ledger[k]])')
                   /\ (\A k \in Id : proof'[k] = proof[k] \/ Sound(k, CertaintyOf[proof[k]])')
  <2>0. Sound(i, CertaintyOf["unknown"])' /\ "unknown" \in Disposition
    BY Zenon DEF Sound, CertaintyOf, Disposition
  <2>1. /\ ledger' \in [Id -> {"none"} \cup Disposition]
        /\ \A k \in Id : ledger'[k] = ledger[k] \/ Sound(k, CertaintyOf[ledger[k]])'
    BY <2>0, Ledgered, Zenon
  <2>2. /\ proof' \in [Id -> {"none"} \cup Disposition]
        /\ \A k \in Id : proof'[k] = proof[k] \/ Sound(k, CertaintyOf[proof[k]])'
    BY <1>9, Remembered, Zenon
  <2> QED
    BY <2>1, <2>2, Zenon DEF MemoryType
<1> QED
  BY <1>5, <1>10, <1>11, WaitOver, Zenon DEF Waiting, Told

LEMMA ProofArrivesKeeps == ASSUME ActionInv, NEW c \in Caller, ProofArrives(c) PROVE ActionInv'
<1> USE DEF ActionInv, Types
<1> PICK i, d : i = call[c].id /\ d = bridge.reply.disposition
  BY Zenon
<1> /\ call[c].at = "asking" /\ bridge.reply # None /\ Taken /\ Remember(i, d) /\ Proven(c, i, d)
      /\ UNCHANGED <<journal, pending, wal, world, starts, answers>>
  BY Zenon DEF ProofArrives
<1> call[c] # Idle /\ i \in Id /\ call[c].at \in Waiting
  BY Inside, Zenon DEF At, Waiting
<1> /\ BridgeType' /\ (\A k \in Id : ~ ActPending(k)') /\ d \in Disposition
  BY TakenFacts, Zenon
<1> SiteInv' /\ BridgeShape'
  <2>1. ~ bridge.reply.recycle
    BY Zenon DEF BridgeInv, WaitAt
  <2> QED
    BY <2>1, TakenSite, Zenon
<1>6. Sound(i, CertaintyOf[d])
  BY Zenon DEF TruthInv
<1> ASSUME NEW v, Moved(c, v), v.at # "act"
      PROVE  /\ Sound(i, CertaintyOf[d])' /\ proof' \in [Id -> {"none"} \cup Disposition]
             /\ \A k \in Id : proof'[k] = proof[k] \/ Sound(k, CertaintyOf[proof[k]])'
  <2>1. Steady
    BY SteadyMove, Zenon
  <2>2. Sound(i, CertaintyOf[d])'
    BY <1>6, <2>1, SoundStays, Zenon
  <2> QED
    BY <2>2, Remembered, Zenon
<1> CASE Refines(i, d)
  <2> PICK e \in Receipt : e = ReceiptOf(d, "proved") /\ e.request = TheRequest /\ e.certainty = CertaintyOf[d]
    BY ReceiptFacts, Zenon
  <2>2. PICK v : v = [at |-> "refresh", id |-> i, effect |-> e]
    BY Zenon
  <2> ledger' = [ledger EXCEPT ![i] = d] /\ GotoWith(c, "refresh", e)
    BY Zenon DEF Proven
  <2> Moved(c, v) /\ v.at = "refresh" /\ v.id = i /\ v.effect = e
    BY <2>2, GotoWithMoves, Zenon DEF At
  <2> /\ Sound(i, CertaintyOf[d])' /\ proof' \in [Id -> {"none"} \cup Disposition]
        /\ \A k \in Id : proof'[k] = proof[k] \/ Sound(k, CertaintyOf[proof[k]])'
    BY Zenon
  <2> /\ ledger' \in [Id -> {"none"} \cup Disposition]
        /\ \A k \in Id : ledger'[k] = ledger[k] \/ Sound(k, CertaintyOf[ledger[k]])'
    BY Ledgered, Zenon
  <2>7. Sound(i, v.effect.certainty)'
    BY Zenon DEF Sound
  <2>8. CallAt(v, record)
    BY ZenonT(30) DEF CallInv, CallAt, Before, During, Told
  <2>9. MemoryType'
    BY Zenon DEF MemoryType
  <2> QED
    BY <2>7, <2>8, <2>9, WaitOver, Zenon DEF Waiting
<1> CASE ~ Refines(i, d)
  <2> Leave(c) /\ UNCHANGED ledger
    BY Zenon DEF Proven
  <2> Moved(c, Idle)
    BY LeaveMoves, Zenon
  <2> CallAt(Idle, record) /\ Idle.at \notin Waiting /\ Idle.at \notin Told /\ Idle.at # "act" /\ Idle.at # "intent"
    BY Zenon DEF CallAt, Idle, Waiting, Before, During, Told
  <2> /\ proof' \in [Id -> {"none"} \cup Disposition]
        /\ \A k \in Id : proof'[k] = proof[k] \/ Sound(k, CertaintyOf[proof[k]])'
    BY Zenon
  <2>5. MemoryType'
    BY Zenon DEF MemoryType
  <2> QED
    BY <2>5, WaitOver, Zenon
<1> QED
  BY Zenon

-----------------------------------------------------------------------------
(* Steps of the bridge: callers, journal and what the client remembers stay. *)
LEMMA BridgeKeeps ==
  ASSUME ActionInv, UNCHANGED <<journal, call, memory, answers>>, BridgeType', SiteType', BridgeInv', SiteInv', SendInv', Steady,
         \A c \in Caller : call[c].at \in {"acting", "asking"} /\ bridge'.reply # None =>
           bridge'.reply = bridge.reply \/ Sound(call[c].id, CertaintyOf[bridge.reply.disposition])'
  PROVE  ActionInv'
<1> USE DEF ActionInv, Types
<1>1. UNCHANGED <<ledger, proof, pending>> /\ UNCHANGED record /\ UNCHANGED call
  BY Zenon DEF memory, journal
<1>2. JournalType' /\ RecordInv' /\ RecordsStay /\ AnswerInv'
  BY JournalSame, AnswerSame, Zenon
<1>3. Types'
  BY <1>1, Zenon DEF CallType, MemoryType
<1>4. CallInv'
  BY <1>1, Zenon DEF CallInv
<1>5. \A c \in Caller : call[c].at \in Told \cup {"acting", "asking"} => call[c].id \in Id
  BY Inside, Zenon DEF Told, At, Waiting
<1>6. TruthInv'
  BY <1>1, <1>3, <1>5, TruthStep, ZenonT(40)
<1> QED
  BY <1>2, <1>3, <1>4, <1>6, Zenon

(* A command that the bridge takes is the one its caller waits for; no handler
   runs. *)
LEMMA ReceivedFacts ==
  ASSUME ActionInv, NEW cmd, Received(cmd)
  PROVE  /\ bridge.up = "live" /\ bridge.busy = None /\ bridge.inbox # None /\ bridge.inbox.id \in Id
         /\ bridge.inbox = Command(cmd, bridge.inbox.id)
         /\ \A k \in Id : world[k] # "acting"
         /\ \A c \in Caller : call[c].at \in Waiting => CommandOf[call[c].at] = cmd /\ call[c].id = bridge.inbox.id
<1>1. bridge.up = "live" /\ bridge.busy = None /\ bridge.inbox # None /\ bridge.inbox.cmd = cmd
  BY Zenon DEF Received
<1>2. bridge.inbox \in [cmd : CommandKind, id : Id]
  BY <1>1, Zenon DEF ActionInv, Types, BridgeType, Processes, Inboxes
<1>3. bridge.inbox.id \in Id /\ bridge.inbox = Command(cmd, bridge.inbox.id)
  BY <1>1, <1>2, Zenon DEF Command
<1>4. \A k \in Id : world[k] # "acting"
  BY <1>1, ActionAssumption, Zenon DEF ActionInv, SiteInv
<1>5. ASSUME NEW c \in Caller, call[c].at \in Waiting PROVE CommandOf[call[c].at] = cmd /\ call[c].id = bridge.inbox.id
  <2>1. bridge.inbox = Command(CommandOf[call[c].at], call[c].id)
    BY <1>1, <1>5, Zenon DEF ActionInv, BridgeInv, WaitAt
  <2> QED
    BY <1>1, <2>1 DEF Command
<1> QED
  BY <1>1, <1>3, <1>4, <1>5, Zenon

(* A reply to somebody who waits, or whom the client has given up on. *)
LEMMA ReplyFacts ==
  ASSUME ActionInv, NEW d \in Disposition, NEW r \in BOOLEAN, Reply(d, r), bridge.up = "live",
         bridge.inbox # None \/ bridge.busy # None, UNCHANGED <<call, pending>>,
         \A c \in Caller : call[c].at \in Waiting =>
           (call[c].at # "acting" => ~ r) /\ (call[c].at = "preparing" => wal'[call[c].id] # None)
  PROVE  /\ BridgeType' /\ BridgeInv' /\ (\A k \in Id : ~ ActPending(k)')
         /\ bridge'.up = "live" /\ bridge'.inbox = None /\ bridge'.busy = None
         /\ bridge'.reply # None /\ bridge'.reply.disposition = d /\ bridge'.reply.recycle = r
<1>1. bridge' = [up |-> "live", inbox |-> None, busy |-> None, reply |-> [disposition |-> d, recycle |-> r]]
  <2>1. bridge \in [up : {"live", "dead", "down"}, inbox : Inboxes, busy : {None} \cup Id, reply : Replies]
    BY Zenon DEF ActionInv, Types, BridgeType, Processes
  <2> QED
    BY <2>1, Zenon DEF Reply
<1>2. /\ bridge'.up = "live" /\ bridge'.inbox = None /\ bridge'.busy = None
      /\ bridge'.reply = [disposition |-> d, recycle |-> r]
  BY <1>1, Zenon
<1>3. bridge'.reply \in Replies /\ bridge'.reply # None /\ bridge'.reply.disposition = d /\ bridge'.reply.recycle = r
  BY <1>2 DEF Replies, None
<1>4. BridgeType'
  BY <1>1, <1>2, <1>3, ProcessThere, NoneThere, Zenon DEF BridgeType
<1>5. ~ (LockFree /\ ~ pending)
  BY Zenon DEF ActionInv, BridgeInv, BridgeShape, Quiet
<1>6. ~ (LockFree' /\ ~ pending')
  BY <1>5, Zenon DEF LockFree
<1>7. BridgeShape'
  BY <1>2, <1>6, Zenon DEF BridgeShape
<1>8. ASSUME NEW c \in Caller PROVE WaitAt(call'[c], bridge', pending', wal')
  BY <1>2, <1>3, Zenon DEF ActionInv, BridgeInv, WaitAt
<1> QED
  BY <1>2, <1>3, <1>4, <1>7, <1>8, NoActPending, Zenon DEF BridgeInv

(* What callers are about to do stays possible. *)
LEMMA ActLine ==
  ASSUME CallType, SendInv, NEW c \in Caller, call[c].at = "act"
  PROVE  /\ call[c].id \in Id /\ ~ ActPending(call[c].id)
         /\ call[c].id \notin Forbidden => wal[call[c].id] = Line("prepared", "not_applied") /\ wal[call[c].id] # None
<1>1. call[c].id \in Id
  BY Inside, Zenon DEF At
<1>2. call[c].id \notin Forbidden => wal[call[c].id] = Line("prepared", "not_applied")
  BY Zenon DEF SendInv
<1> QED
  BY <1>1, <1>2, Lines, Zenon DEF SendInv

LEMMA SendKept ==
  ASSUME CallType, SendInv, UNCHANGED call, \A k \in Id : ~ ActPending(k)',
         \A k \in Id : wal[k] # None => wal'[k] # None,
         \A c \in Caller : call[c].at = "act" /\ call[c].id \notin Forbidden => wal'[call[c].id] = wal[call[c].id]
  PROVE  SendInv'
<1>1. \A c \in Caller : call[c].at \in {"intent", "act"} => call[c].id \in Id
  BY Inside, Zenon DEF At
<1> QED
  BY <1>1, Zenon DEF SendInv

LEMMA CertaintyFacts ==
  ASSUME NEW d \in Disposition
  PROVE  /\ CertaintyOf[d] = "confirmed" => d = "applied"
         /\ CertaintyOf[d] \in {"rejected", "no_effect"} => d \in {"rejected", "not_applied"}
         /\ CertaintyOf["unknown"] = "indeterminate"
  BY Zenon DEF CertaintyOf, Disposition

(* ActionRecoveryJournal.prepare, reconcile and begin. *)
LEMMA BridgePrepareKeeps == ASSUME ActionInv, BridgePrepare PROVE ActionInv'
<1>1. PICK i : i = bridge.inbox.id
  BY Zenon
<1>2. PICK line : line = IF wal[i] = None THEN Line("prepared", "not_applied") ELSE wal[i]
  BY Zenon
<1>3. /\ Received("prepare") /\ wal' = [wal EXCEPT ![i] = line] /\ Reply(line.disposition, FALSE)
      /\ UNCHANGED <<journal, call, memory, world, starts, answers>>
  BY <1>1, <1>2, Zenon DEF BridgePrepare
<1>4. /\ bridge.up = "live" /\ bridge.inbox # None /\ i \in Id
      /\ (\A k \in Id : world[k] # "acting")
      /\ \A c \in Caller : call[c].at \in Waiting => CommandOf[call[c].at] = "prepare" /\ call[c].id = i
  BY <1>1, <1>3, ReceivedFacts, Zenon
<1>5. \A c \in Caller : call[c].at \in Waiting => call[c].at = "preparing"
  BY <1>4, Commands, Zenon DEF Waiting
<1>6. /\ line \in [state : {"prepared", "intent", "terminal"}, disposition : Disposition]
      /\ wal[i] # None => line = wal[i]
      /\ wal[i] = None => line = Line("prepared", "not_applied")
  BY <1>2, <1>4, Zenon DEF Line, Disposition, ActionInv, Types, SiteType
<1>7. line \notin {None} /\ line.disposition \in Disposition
  BY <1>6 DEF None
<1>8. UNCHANGED <<pending, call, record, world, starts>>
  BY <1>3, Zenon DEF memory, journal
<1>9. wal'[i] = line /\ (\A k \in Id : k # i => wal'[k] = wal[k]) /\ SiteType'
  BY <1>3, <1>4, <1>6, <1>8, Zenon DEF ActionInv, Types, SiteType
<1>10. /\ BridgeType' /\ BridgeInv' /\ (\A k \in Id : ~ ActPending(k)') /\ bridge'.busy = None
  BY <1>3, <1>4, <1>5, <1>7, <1>8, <1>9, ReplyFacts, ZenonT(40)
<1>11. \A k \in Id : (Startable(k)' <=> Startable(k)) /\ (~ Startable(k) => wal'[k] = wal[k])
  BY <1>6, <1>9, Zenon DEF Startable
<1>12. SiteInv'
  BY <1>4, <1>8, <1>10, <1>11, SiteIdle, Zenon DEF ActionInv
<1>13. \A k \in Id : wal[k] # None => wal'[k] = wal[k]
  BY <1>6, <1>9, Zenon
<1>14. SendInv'
  <2>1. \A c \in Caller : call[c].at = "act" /\ call[c].id \notin Forbidden => wal'[call[c].id] = wal[call[c].id]
    BY <1>13, ActLine, Zenon DEF ActionInv, Types
  <2> QED
    BY <1>7, <1>8, <1>9, <1>10, <1>13, <2>1, SendKept, ZenonT(40) DEF ActionInv, Types
<1>15. Steady
  BY <1>8, <1>10, Zenon DEF Steady, RecordsStay
<1>16. \A c \in Caller : call[c].at \notin {"acting", "asking"}
  BY <1>5, Zenon DEF Waiting
<1> QED
  BY <1>3, <1>9, <1>10, <1>12, <1>14, <1>15, <1>16, BridgeKeeps, Zenon

LEMMA BridgeRefusesKeeps == ASSUME ActionInv, BridgeRefuses PROVE ActionInv'
<1>1. Received("act") /\ Reply("unknown", FALSE) /\ UNCHANGED <<journal, call, memory, wal, world, starts, answers>>
  BY Zenon DEF BridgeRefuses
<1>2. /\ bridge.up = "live" /\ bridge.inbox # None
      /\ (\A k \in Id : world[k] # "acting")
      /\ \A c \in Caller : call[c].at \in Waiting => CommandOf[call[c].at] = "act"
  BY <1>1, ReceivedFacts, Zenon
<1>3. \A c \in Caller : call[c].at \in Waiting => call[c].at = "acting"
  BY <1>2, Commands, Zenon
<1>4. UNCHANGED <<pending, call, record, wal, world, starts>>
  BY <1>1, Zenon DEF memory, journal
<1>5. /\ BridgeType' /\ BridgeInv' /\ (\A k \in Id : ~ ActPending(k)') /\ bridge'.busy = None
      /\ bridge'.reply.disposition = "unknown"
  <2>1. "unknown" \in Disposition /\ FALSE \in BOOLEAN
    BY Zenon DEF Disposition
  <2> QED
    BY <1>1, <1>2, <1>3, <1>4, <2>1, ReplyFacts, Zenon
<1>6. SiteType' /\ SiteInv'
  <2>1. SiteType'
    BY <1>4, Zenon DEF ActionInv, Types, SiteType
  <2>2. \A k \in Id : Startable(k)' <=> Startable(k)
    BY <1>4, Zenon DEF Startable
  <2> QED
    BY <1>2, <1>4, <1>5, <2>1, <2>2, SiteIdle, Zenon DEF ActionInv
<1>7. SendInv'
  BY <1>4, <1>5, SendKept, Zenon DEF ActionInv, Types
<1>8. Steady
  BY <1>4, <1>5, Zenon DEF Steady, RecordsStay
<1>9. \A k : Sound(k, CertaintyOf[bridge.reply.disposition])'
  <2>1. CertaintyOf["unknown"] = "indeterminate"
    BY Zenon DEF CertaintyOf, Disposition
  <2> QED
    BY <1>5, <2>1, Zenon DEF Sound
<1> QED
  BY <1>1, <1>5, <1>6, <1>7, <1>8, <1>9, BridgeKeeps, Zenon

LEMMA BridgeReconcileKeeps == ASSUME ActionInv, BridgeReconcile PROVE ActionInv'
<1>1. PICK i : i = bridge.inbox.id
  BY Zenon
<1>2. PICK d : d = IF wal[i] = None THEN "unknown" ELSE wal[i].disposition
  BY Zenon
<1>3. /\ Received("reconcile") /\ Reply(d, FALSE)
      /\ UNCHANGED <<journal, call, memory, wal, world, starts, answers>>
  BY <1>1, <1>2, Zenon DEF BridgeReconcile
<1>4. /\ bridge.up = "live" /\ bridge.inbox # None /\ i \in Id
      /\ (\A k \in Id : world[k] # "acting")
      /\ \A c \in Caller : call[c].at \in Waiting => CommandOf[call[c].at] = "reconcile" /\ call[c].id = i
  BY <1>1, <1>3, ReceivedFacts, Zenon
<1>5. \A c \in Caller : call[c].at \in Waiting => call[c].at = "asking"
  BY <1>4, Commands, Zenon DEF Waiting
<1>6. d \in Disposition
  BY <1>2, <1>4, Zenon DEF Disposition, ActionInv, Types, SiteType
<1>7. UNCHANGED <<pending, call, record, wal, world, starts>>
  BY <1>3, Zenon DEF memory, journal
<1>8. /\ BridgeType' /\ BridgeInv' /\ (\A k \in Id : ~ ActPending(k)') /\ bridge'.busy = None
      /\ bridge'.reply.disposition = d
  BY <1>3, <1>4, <1>5, <1>6, <1>7, ReplyFacts, Zenon
<1>9. SiteType' /\ SiteInv'
  <2>1. SiteType'
    BY <1>7, Zenon DEF ActionInv, Types, SiteType
  <2>2. \A k \in Id : Startable(k)' <=> Startable(k)
    BY <1>7, Zenon DEF Startable
  <2> QED
    BY <1>4, <1>7, <1>8, <2>1, <2>2, SiteIdle, Zenon DEF ActionInv
<1>10. SendInv'
  BY <1>7, <1>8, SendKept, Zenon DEF ActionInv, Types
<1>11. Steady
  BY <1>7, <1>8, Zenon DEF Steady, RecordsStay
<1>12. ASSUME NEW c \in Caller, call[c].at = "asking" PROVE Sound(i, CertaintyOf[d])'
  <2>1. call[c].id = i /\ call[c] # Idle
    BY <1>4, <1>12, Inside, Zenon DEF Waiting, At, ActionInv, Types
  <2>2. record'[i] # None
    BY <1>7, <1>12, <2>1, Zenon DEF ActionInv, CallInv, CallAt, During
  <2>3. \A e \in Caller : call'[e].at = "act" => call'[e].id # i
    BY <1>7, <1>12, <2>1, AloneInside, Inside, Zenon DEF Alone, At, ActionInv, Types
  <2>4. world'[i] \in {"untouched", "ceased"} => Never(i)'
    BY <1>4, <1>8, <2>2, <2>3, Zenon DEF Never
  <2>5. /\ d = "applied" => world[i] = "applied"
        /\ d \in {"rejected", "not_applied"} => world[i] \in {"untouched", "ceased"}
    BY <1>2, <1>4, LineTrue, Zenon DEF ActionInv
  <2> QED
    BY <1>6, <1>7, <2>4, <2>5, CertaintyFacts, Zenon DEF Sound
<1> QED
  BY <1>3, <1>4, <1>5, <1>8, <1>9, <1>10, <1>11, <1>12, BridgeKeeps, Zenon DEF Waiting

LEMMA BridgeBeginKeeps == ASSUME ActionInv, BridgeBegin PROVE ActionInv'
<1>1. PICK i : i = bridge.inbox.id
  BY Zenon
<1>2. Received("act") /\ UNCHANGED <<journal, call, memory, answers>>
  BY Zenon DEF BridgeBegin
<1>3. /\ bridge.up = "live" /\ bridge.inbox # None /\ i \in Id /\ bridge.inbox = Command("act", i)
      /\ (\A k \in Id : world[k] # "acting")
      /\ \A c \in Caller : call[c].at \in Waiting => CommandOf[call[c].at] = "act" /\ call[c].id = i
  BY <1>1, <1>2, ReceivedFacts, Zenon
<1>4. ActPending(i) /\ i \notin Forbidden /\ record[i] # None /\ wal[i] = Line("prepared", "not_applied")
  BY <1>3, Zenon DEF ActionInv, SendInv, ActPending
<1>5. /\ wal' = [wal EXCEPT ![i] = Line("intent", "unknown")]
      /\ bridge' = [bridge EXCEPT !.inbox = None, !.busy = i]
      /\ world' = [world EXCEPT ![i] = "acting"]
      /\ starts' = [starts EXCEPT ![i] = @ + 1]
  <2>1. wal[i].state = "prepared"
    BY <1>4, Lines, Zenon
  <2> QED
    BY <1>1, <2>1, Zenon DEF BridgeBegin
<1>6. bridge.reply = None /\ ~ (LockFree /\ ~ pending)
  BY <1>3, Zenon DEF ActionInv, BridgeInv, BridgeShape, Quiet
<1>7. bridge' = [up |-> "live", inbox |-> None, busy |-> i, reply |-> None]
  <2>1. bridge \in [up : {"live", "dead", "down"}, inbox : Inboxes, busy : {None} \cup Id, reply : Replies]
    BY Zenon DEF ActionInv, Types, BridgeType, Processes
  <2> QED
    BY <1>3, <1>5, <1>6, <2>1, Zenon
<1>8. BridgeType' /\ bridge'.up = "live" /\ bridge'.inbox = None /\ bridge'.busy = i /\ bridge'.reply = None
  <2>1. BridgeType'
    BY <1>3, <1>7, ProcessThere, NoneThere, Zenon DEF BridgeType
  <2> QED
    BY <1>7, <2>1, Zenon
<1>9. UNCHANGED <<pending, call, record>> /\ \A k \in Id : ~ ActPending(k)'
  BY <1>2, <1>8, NoActPending, Zenon DEF memory, journal
<1>10. /\ wal'[i] = Line("intent", "unknown") /\ world'[i] = "acting" /\ starts'[i] = 1
       /\ \A k \in Id : k # i => wal'[k] = wal[k] /\ world'[k] = world[k] /\ starts'[k] = starts[k]
  <2>1. starts[i] = 0
    BY <1>3, <1>4, Zenon DEF ActionInv, SiteInv, Startable
  <2> QED
    BY <1>3, <1>5, <2>1 DEF ActionInv, Types, SiteType
<1>11. SiteType'
  <2>1. Line("intent", "unknown") \in [state : {"prepared", "intent", "terminal"}, disposition : Disposition]
    BY Zenon DEF Line, Disposition
  <2> QED
    BY <1>3, <1>5, <2>1 DEF ActionInv, Types, SiteType
<1>12. BridgeInv'
  <2>1. BridgeShape'
    BY <1>6, <1>8, <1>9, Zenon DEF BridgeShape, LockFree
  <2>2. ASSUME NEW c \in Caller PROVE WaitAt(call'[c], bridge', pending', wal')
    <3>1. call[c].at \in Waiting => call[c].at = "acting" /\ call[c].id = i /\ ~ pending
      BY <1>3, Commands, Zenon DEF ActionInv, BridgeInv, WaitAt
    <3> QED
      BY <1>8, <1>9, <3>1, Zenon DEF WaitAt
  <2> QED
    BY <2>1, <2>2, Zenon DEF BridgeInv
<1>13. SiteInv'
  <2>1. ~ Startable(i)'
    BY <1>10, Lines, Zenon DEF Startable
  <2>2. \A k \in Id : k # i => (Startable(k)' <=> Startable(k)) /\ world'[k] # "acting"
    BY <1>3, <1>10, Zenon DEF Startable
  <2>3. wal'[i].state # "terminal"
    BY <1>10, Lines, Zenon
  <2>4. SiteLine(i)'
    BY <1>4, <1>9, <1>10, <2>1, <2>3, Zenon DEF SiteLine
  <2>5. \A k \in Id : k # i => SiteLine(k)'
    BY <1>9, <1>10, SiteLineKept, Zenon DEF ActionInv
  <2>6. \A k \in Id : SiteLine(k)' /\ (world'[k] = "acting" => k = i)
    BY <2>2, <2>4, <2>5, Zenon
  <2> QED
    BY <1>8, <1>10, <2>6, Zenon DEF SiteInv, SiteLine
<1>14. SendInv'
  <2>1. ASSUME NEW c \in Caller, call[c].at = "act", call[c].id \notin Forbidden PROVE wal'[call[c].id] = wal[call[c].id]
    <3>1. call[c].id \in Id /\ call[c].id # i
      BY <1>4, <2>1, ActLine, Zenon DEF ActionInv, Types
    <3> QED
      BY <1>10, <3>1, Zenon
  <2>2. \A k \in Id : wal[k] # None => wal'[k] # None
    <3>1. wal'[i] # None
      BY <1>10, Lines, Zenon
    <3> QED
      BY <1>10, <3>1, Zenon
  <2> QED
    BY <1>9, <2>1, <2>2, SendKept, Zenon DEF ActionInv, Types
<1>15. Steady
  <2>1. world[i] = "untouched"
    BY <1>3, <1>4, Zenon DEF ActionInv, SiteInv, Startable
  <2> QED
    BY <1>4, <1>9, <1>10, <2>1, Zenon DEF Steady, RecordsStay
<1> QED
  BY <1>2, <1>8, <1>11, <1>12, <1>13, <1>14, <1>15, BridgeKeeps, Zenon

(* ActionRecoveryJournal.complete: the verdict of the handler that ran. *)
LEMMA BridgeCompleteKeeps == ASSUME ActionInv, BridgeComplete PROVE ActionInv'
<1>1. PICK i : i = bridge.busy
  BY Zenon
<1>2. bridge.up = "live" /\ bridge.busy # None /\ UNCHANGED <<journal, call, memory, starts, answers>>
  BY Zenon DEF BridgeComplete
<1>3. PICK d \in Disposition : \E after \in Reports(d) :
        /\ (world[i] = "applied") = (after = "applied")
        /\ world' = [world EXCEPT ![i] = after]
        /\ wal' = [wal EXCEPT ![i] = Line("terminal", d)]
        /\ Reply(d, after = "acting")
  BY <1>1, Zenon DEF BridgeComplete
<1>4. PICK after \in Reports(d) :
        /\ (world[i] = "applied") = (after = "applied")
        /\ world' = [world EXCEPT ![i] = after]
        /\ wal' = [wal EXCEPT ![i] = Line("terminal", d)]
        /\ Reply(d, after = "acting")
  BY <1>3, Zenon
<1>5. /\ after \in {"applied", "ceased", "adrift", "acting"}
      /\ d = "applied" => after = "applied"
      /\ d \in {"rejected", "not_applied"} => after = "ceased"
  BY <1>4, Zenon DEF Reports, Disposition
<1>6. PICK r \in BOOLEAN : r = (after = "acting")
  BY Zenon
<1>7. i \in Id /\ wal[i] = Line("intent", "unknown") /\ world[i] \in {"acting", "applied"}
  <2>1. i \in Id
    BY <1>1, <1>2, Zenon DEF ActionInv, Types, BridgeType, Processes
  <2> QED
    BY <1>1, <1>2, <2>1, Zenon DEF ActionInv, SiteInv
<1>8. UNCHANGED <<pending, call, record, starts>>
  BY <1>2, Zenon DEF memory, journal
<1>9. /\ wal'[i] = Line("terminal", d) /\ world'[i] = after
      /\ \A k \in Id : k # i => wal'[k] = wal[k] /\ world'[k] = world[k]
  BY <1>4, <1>7, Zenon DEF ActionInv, Types, SiteType
<1>10. SiteType'
  <2>1. Line("terminal", d) \in [state : {"prepared", "intent", "terminal"}, disposition : Disposition]
    BY Zenon DEF Line
  <2> QED
    BY <1>4, <1>5, <1>7, <1>8, <2>1, Zenon DEF ActionInv, Types, SiteType
<1>11. \A c \in Caller : call[c].at \in Waiting => call[c].at = "acting" /\ call[c].id = i
  BY <1>1, <1>2, Zenon DEF ActionInv, BridgeInv, WaitAt
<1>12. /\ BridgeType' /\ BridgeInv' /\ (\A k \in Id : ~ ActPending(k)')
       /\ bridge'.up = "live" /\ bridge'.inbox = None /\ bridge'.busy = None
       /\ bridge'.reply # None /\ bridge'.reply.disposition = d /\ bridge'.reply.recycle = r
  <2>1. Reply(d, r)
    BY <1>4, <1>6, Zenon
  <2>2. \A c \in Caller : call[c].at \in Waiting =>
          (call[c].at # "acting" => ~ r) /\ (call[c].at = "preparing" => wal'[call[c].id] # None)
    BY <1>11, Zenon
  <2> QED
    BY <1>2, <1>8, <2>1, <2>2, ReplyFacts, Zenon
<1>13. \A k \in Id : k # i => world[k] # "acting"
  BY <1>1, <1>2, Zenon DEF ActionInv, SiteInv
<1>14. ~ Startable(i) /\ ~ Startable(i)'
  BY <1>7, <1>9, Lines, Zenon DEF Startable
<1>15. SiteInv'
  <2>1. \A k \in Id : k # i => (Startable(k)' <=> Startable(k)) /\ world'[k] # "acting"
    BY <1>9, <1>13, Zenon DEF Startable
  <2>2. wal'[i].state = "terminal" /\ wal'[i].disposition = d
    BY <1>9, Lines, Zenon
  <2>3. world'[i] = "acting" => bridge'.reply # None /\ bridge'.reply.recycle
    BY <1>6, <1>9, <1>12, Zenon
  <2>4. ASSUME NEW k \in Id
        PROVE  SiteLine(k)' /\ (world'[k] = "acting" => k = i)
    <3>1. CASE k = i
      <4>1. starts[i] = 1 /\ i \notin Forbidden /\ record[i] # None
        BY <1>7, <1>14, Zenon DEF ActionInv, SiteInv
      <4> QED
        BY <1>5, <1>8, <1>9, <1>14, <2>2, <3>1, <4>1, Zenon DEF SiteLine
    <3>2. CASE k # i
      BY <1>8, <1>9, <2>1, <3>2, SiteLineKept, Zenon DEF ActionInv
    <3> QED
      BY <3>1, <3>2, Zenon
  <2> QED
    BY <1>12, <2>3, <2>4, Zenon DEF SiteInv, SiteLine
<1>16. SendInv'
  <2>1. ASSUME NEW c \in Caller, call[c].at = "act", call[c].id \notin Forbidden PROVE wal'[call[c].id] = wal[call[c].id]
    <3>1. call[c].id \in Id /\ wal[call[c].id] = Line("prepared", "not_applied")
      BY <2>1, ActLine, Zenon DEF ActionInv, Types
    <3>2. call[c].id # i
      BY <1>7, <3>1, Lines, Zenon
    <3> QED
      BY <1>9, <3>1, <3>2, Zenon
  <2>2. \A k \in Id : wal[k] # None => wal'[k] # None
    <3>1. wal'[i] # None
      BY <1>9, Lines, Zenon
    <3> QED
      BY <1>9, <3>1, Zenon
  <2> QED
    BY <1>8, <1>12, <2>1, <2>2, SendKept, Zenon DEF ActionInv, Types
<1>17. Steady
  <2>1. world[i] = "applied" => after = "applied"
    BY <1>4, Zenon
  <2>2. world[i] \notin {"untouched", "ceased"}
    BY <1>7, Zenon
  <2> QED
    BY <1>8, <1>9, <1>12, <2>1, <2>2, Zenon DEF Steady, RecordsStay
<1>18. ASSUME NEW c \in Caller, call[c].at = "acting" PROVE Sound(i, CertaintyOf[d])'
  <2>1. call[c].id = i /\ call[c] # Idle
    BY <1>11, <1>18, Inside, Zenon DEF Waiting, At, ActionInv, Types
  <2>2. record'[i] # None
    BY <1>8, <1>18, <2>1, Zenon DEF ActionInv, CallInv, CallAt, During
  <2>3. \A e \in Caller : call'[e].at = "act" => call'[e].id # i
    BY <1>8, <1>18, <2>1, AloneInside, Inside, Zenon DEF Alone, At, ActionInv, Types
  <2>4. after = "ceased" => Never(i)'
    BY <1>7, <1>9, <1>12, <2>2, <2>3, ZenonT(40) DEF Never
  <2> QED
    BY <1>5, <1>9, <2>4, CertaintyFacts, Zenon DEF Sound
<1> QED
  BY <1>2, <1>10, <1>11, <1>12, <1>15, <1>16, <1>17, <1>18, BridgeKeeps, Zenon DEF Waiting

(* The handler acts, its process dies, or the host does. *)
LEMMA WorldEffectKeeps == ASSUME ActionInv, NEW i \in Id, WorldEffect(i) PROVE ActionInv'
<1>1. /\ world[i] = "acting" /\ world' = [world EXCEPT ![i] = "applied"]
      /\ UNCHANGED <<journal, call, memory, bridge, wal, starts, answers>>
  BY Zenon DEF WorldEffect
<1>2. UNCHANGED <<pending, call, record, bridge, wal, starts>> /\ \A k \in Id : ActPending(k)' <=> ActPending(k)
  BY <1>1, Zenon DEF memory, journal, ActPending
<1>3. world'[i] = "applied" /\ (\A k \in Id : k # i => world'[k] = world[k]) /\ SiteType'
  BY <1>1, Zenon DEF ActionInv, Types, SiteType
<1>4. \A k \in Id : Startable(k)' <=> Startable(k)
  BY <1>2, Zenon DEF Startable
<1>5. ~ Startable(i) /\ (wal[i].state = "terminal" => wal[i].disposition \notin {"rejected", "not_applied"})
  BY <1>1, ZenonT(40) DEF ActionInv, SiteInv
<1>6. SiteInv'
  <2>1. ASSUME NEW k \in Id, Startable(k) PROVE world'[k] = "untouched"
    <3>1. k # i
      BY <1>5, <2>1, Zenon
    <3>2. world[k] = "untouched"
      BY <2>1, Zenon DEF ActionInv, SiteInv
    <3> QED
      BY <1>3, <3>1, <3>2, Zenon
  <2>2. \A k \in Id : world[k] = "applied" => world'[k] = "applied"
    BY <1>3, ZenonT(40)
  <2>3. ASSUME NEW k \in Id, ~ Startable(k), wal[k].state = "terminal"
        PROVE  /\ wal[k].disposition = "applied" => world'[k] = "applied"
               /\ wal[k].disposition \in {"rejected", "not_applied"} => world'[k] = "ceased"
    <3>1. /\ wal[k].disposition = "applied" => world[k] = "applied"
          /\ wal[k].disposition \in {"rejected", "not_applied"} => world[k] = "ceased"
      BY <2>3, Zenon DEF ActionInv, SiteInv
    <3>2. wal[k].disposition \in {"rejected", "not_applied"} => k # i
      BY <1>5, <2>3, Zenon
    <3> QED
      BY <1>3, <2>2, <3>1, <3>2, Zenon
  <2>4. \A k \in Id : world'[k] = "acting" => world[k] = "acting"
    BY <1>3, Zenon
  <2>5. bridge.busy # None => world'[bridge.busy] \in {"acting", "applied"}
    <3>1. bridge.busy # None => bridge.busy \in Id
      BY Zenon DEF ActionInv, Types, BridgeType, Processes
    <3> QED
      BY <1>3, <3>1, Zenon DEF ActionInv, SiteInv
  <2> QED
    BY <1>2, <1>4, <2>1, <2>3, <2>4, <2>5, ZenonT(40) DEF ActionInv, SiteInv
<1>7. BridgeType' /\ BridgeInv'
  BY <1>2, Zenon DEF ActionInv, Types, BridgeType, BridgeInv, BridgeShape, LockFree, Quiet
<1>8. SendInv'
  BY <1>2, Zenon DEF ActionInv, SendInv, ActPending
<1>9. Steady
  BY <1>1, <1>2, <1>3, Zenon DEF Steady, RecordsStay
<1> QED
  BY <1>1, <1>2, <1>3, <1>6, <1>7, <1>8, <1>9, BridgeKeeps, Zenon

LEMMA BridgeDiesKeeps == ASSUME ActionInv, BridgeDies PROVE ActionInv'
<1>1. /\ bridge' = [bridge EXCEPT !.up = "dead", !.inbox = None, !.busy = None] /\ world' = Adrift
      /\ UNCHANGED <<journal, call, memory, wal, starts, answers>>
  BY Zenon DEF BridgeDies
<1>2. bridge' = [up |-> "dead", inbox |-> None, busy |-> None, reply |-> bridge.reply] /\ bridge.reply \in Replies
  <2>1. bridge \in [up : {"live", "dead", "down"}, inbox : Inboxes, busy : {None} \cup Id, reply : Replies]
    BY ZenonT(40) DEF ActionInv, Types, BridgeType, Processes
  <2> QED
    BY <1>1, <2>1, Zenon
<1>3. bridge'.up = "dead" /\ bridge'.inbox = None /\ bridge'.busy = None /\ bridge'.reply = bridge.reply
  BY <1>2, Zenon
<1>4. BridgeType'
  BY <1>2, ProcessThere, NoneThere, Zenon DEF BridgeType
<1>5. UNCHANGED <<pending, call, record, wal, starts>> /\ RecordsStay /\ \A k \in Id : ~ ActPending(k)'
  BY <1>1, <1>3, NoActPending, Zenon DEF memory, journal, RecordsStay
<1>6. BridgeInv'
  BY <1>3, <1>5, Zenon DEF ActionInv, BridgeInv, BridgeShape, WaitAt
<1>7. SiteType' /\ SiteInv'
  BY <1>1, <1>3, <1>5, AdriftFacts, SiteRestarted, Zenon DEF ActionInv, Types, SiteType
<1>8. SendInv'
  BY <1>5, SendKept, Zenon DEF ActionInv, Types
<1>9. Steady
  BY <1>1, <1>5, RestartIsSteady, Zenon DEF ActionInv, Types
<1> QED
  BY <1>1, <1>3, <1>4, <1>6, <1>7, <1>8, <1>9, BridgeKeeps, Zenon

LEMMA HostCrashKeeps == ASSUME ActionInv, HostCrash PROVE ActionInv'
<1>1. /\ call' = [c \in Caller |-> Idle] /\ bridge' = Fresh /\ world' = Adrift /\ pending' = FALSE
      /\ ledger' = [i \in Id |-> "none"] /\ proof' = [i \in Id |-> "none"]
      /\ UNCHANGED <<journal, wal, starts, answers>>
  BY Zenon DEF HostCrash
<1>2. bridge'.up = "live" /\ bridge'.inbox = None /\ bridge'.busy = None /\ bridge'.reply = None
  BY <1>1, Zenon DEF Fresh
<1>3. BridgeType'
  BY <1>1, ProcessThere, NoneThere, Zenon DEF BridgeType, Fresh
<1>4. \A c \in Caller : call'[c] = Idle /\ call'[c].at = "idle"
  BY <1>1, IdleAt, Zenon
<1>5. JournalType' /\ RecordInv' /\ RecordsStay /\ AnswerInv' /\ UNCHANGED <<record, wal, starts>>
  BY <1>1, JournalSame, AnswerSame, Zenon DEF journal, ActionInv
<1>6. SiteType' /\ SiteInv'
  BY <1>1, <1>2, <1>5, AdriftFacts, SiteRestarted, Zenon DEF ActionInv, Types, SiteType
<1>7. CallType' /\ MemoryType' /\ (\A i \in Id : ledger'[i] = "none" /\ proof'[i] = "none")
  BY <1>1, Zenon DEF CallType, MemoryType
<1>8. \A k \in Id : ~ ActPending(k)'
  BY <1>2, NoActPending, Zenon
<1>9. CallInv'
  BY <1>4, Zenon DEF CallInv, CallAt, Before, During, Told, Waiting
<1>10. BridgeInv'
  <2>1. \A c \in Caller : call'[c].at \notin Waiting
    BY <1>4, Zenon DEF Waiting
  <2> QED
    BY <1>2, <2>1, Zenon DEF BridgeInv, BridgeShape, WaitAt, Quiet
<1>11. SendInv'
  BY <1>4, <1>8, Zenon DEF SendInv
<1>12. Steady
  BY <1>1, <1>4, <1>5, <1>8, RestartIsSteady, Zenon DEF ActionInv, Types
<1>13. TruthInv'
  BY <1>4, <1>5, <1>7, <1>12, TruthStep, Zenon DEF ActionInv, Told
<1> QED
  BY <1>1, <1>3, <1>5, <1>6, <1>7, <1>9, <1>10, <1>11, <1>13, Zenon DEF ActionInv, Types

-----------------------------------------------------------------------------
(* Writes of the effect journal: the rows that its operations make of an intent
   that this client prepared, and what a caller that writes one leaves. *)
LEMMA RowsWritten ==
  ASSUME JournalType, NEW i \in Id, NEW s \in Record, NEW rows \in {<<s>>} \cup {<<r, s>> : r \in Record}, Write(i, rows)
  PROVE  /\ record' = [record EXCEPT ![i] = s] /\ events' \in [Id -> Seq(Record)]
<1>1. rows \in Seq(Record) /\ EventHead(rows) = s
  <2>1. CASE rows = <<s>>
    BY <2>1 DEF EventHead
  <2>2. CASE \E r \in Record : rows = <<r, s>>
    BY <2>2 DEF EventHead
  <2> QED
    BY <2>1, <2>2, Zenon
<1>2. events[i] \o rows \in Seq(Record)
  BY <1>1 DEF JournalType
<1>3. record' = [record EXCEPT ![i] = EventHead(rows)] /\ events' = [events EXCEPT ![i] = events[i] \o rows]
  BY Zenon DEF Write, Commit
<1>4. events' \in [Id -> Seq(Record)]
  BY <1>2, <1>3, Zenon DEF JournalType
<1> QED
  BY <1>1, <1>3, <1>4, Zenon

(* A result, and a terminal state that keeps it. *)
ResultOf(s, e) == s \in Record /\ s.request = TheRequest /\ s.effect = e /\ s.snapshot = e

LEMMA ResultRow ==
  ASSUME NEW r \in Record, NEW e \in Receipt, NEW target \in {"result_recorded", "reconciled"}, r.phase = "prepared",
         NEW s \in EffectTransition(r, target, TheRequest, e, e)
  PROVE  ResultOf(s, e) /\ s.phase = target
<1>1. s = [r EXCEPT !.phase = target, !.effect = e, !.snapshot = e] /\ r.request = TheRequest
  BY Zenon DEF EffectTransition, BoundTo
<1>2. e \in Snapshot /\ target \in Phase
  BY ActionAssumption, Zenon DEF Phase
<1> QED
  BY <1>1, <1>2, Zenon DEF Record, ResultOf

LEMMA FinalRow ==
  ASSUME NEW r, NEW e \in Receipt, ResultOf(r, e), r.phase \notin Terminal,
         NEW s \in ConsumedTransition(r, TheRequest, TheCompletion) \cup NotAppliedTransition(r, TheRequest, e)
                   \cup IndeterminateTransition(r, TheRequest, e)
  PROVE  ResultOf(s, e) /\ s.phase \in Terminal
<1>1. TheCompletion \in Completion
  BY ActionAssumption, Zenon DEF TheCompletion
<1>2. CASE s = [r EXCEPT !.phase = "consumed", !.consumption = TheCompletion]
  BY <1>1, <1>2, Zenon DEF ResultOf, Record, Phase, Terminal
<1>3. CASE s = [r EXCEPT !.phase = "not_applied", !.effect = e]
  BY <1>3, Zenon DEF ResultOf, Record, Phase, Terminal
<1>4. CASE s = [r EXCEPT !.phase = "indeterminate", !.effect = e]
  BY <1>4, Zenon DEF ResultOf, Record, Phase, Terminal
<1>5. s \in ConsumedTransition(r, TheRequest, TheCompletion) => s = [r EXCEPT !.phase = "consumed", !.consumption = TheCompletion]
  BY Zenon DEF ConsumedTransition, Terminal
<1>6. s \in NotAppliedTransition(r, TheRequest, e) => s = [r EXCEPT !.phase = "not_applied", !.effect = e]
  BY Zenon DEF NotAppliedTransition, Terminal
<1>7. s \in IndeterminateTransition(r, TheRequest, e) => s = [r EXCEPT !.phase = "indeterminate", !.effect = e]
  BY Zenon DEF IndeterminateTransition, Terminal
<1> QED
  BY <1>2, <1>3, <1>4, <1>5, <1>6, <1>7, Zenon

LEMMA WriteKeeps ==
  ASSUME ActionInv, NEW c \in Caller, NEW v, NEW i \in Id, NEW s \in Record, Moved(c, v), call[c] # Idle, call[c].id = i,
         v # Idle => v.id = i, v.at \notin Waiting, v.at # "intent", call[c].at \notin Waiting, UNCHANGED <<memory, site>>,
         record' = [record EXCEPT ![i] = s], events' \in [Id -> Seq(Record)], Unresolved(i) \/ record[i] = None,
         s.request = TheRequest, s.phase # "result_recorded",
         s.phase # "prepared" => /\ s.snapshot \in Receipt /\ s.snapshot.request = TheRequest /\ s.effect = s.snapshot
                                 /\ Sound(i, s.snapshot.certainty),
         \/ UNCHANGED answers
         \/ s.phase \in Terminal /\ answers' = [answers EXCEPT ![i] = answers[i] \cup {s.snapshot.certainty}],
         CallAt(v, record'), v.at \in Told => call[c].at \in Told /\ v.effect = call[c].effect,
         v.at = "act" => record[i] = None /\ (i \notin Forbidden => wal[i] = Line("prepared", "not_applied"))
  PROVE  ActionInv'
<1>1. record'[i] = s /\ (\A k \in Id : k # i => record'[k] = record[k]) /\ JournalType'
  BY Zenon DEF ActionInv, JournalType
<1>2. s # None /\ RecordsStay
  BY <1>1, RowThere, ZenonT(40) DEF RecordsStay
<1>3. RecordInv'
  <2>1. ASSUME NEW k \in Id, record'[k] # None
        PROVE  /\ record'[k].phase # "result_recorded" /\ record'[k].request = TheRequest
               /\ record'[k].phase # "prepared" =>
                    /\ record'[k].snapshot \in Receipt /\ record'[k].snapshot.request = TheRequest
                    /\ record'[k].effect = record'[k].snapshot
    <3>1. CASE k = i
      BY <1>1, <3>1, Zenon
    <3>2. CASE k # i
      <4>1. record'[k] = record[k] /\ record[k] # None
        BY <1>1, <2>1, <3>2, Zenon
      <4>2. /\ record[k].phase # "result_recorded" /\ record[k].request = TheRequest
            /\ record[k].phase # "prepared" =>
                 /\ record[k].snapshot \in Receipt /\ record[k].snapshot.request = TheRequest
                 /\ record[k].effect = record[k].snapshot
        BY <4>1, Zenon DEF ActionInv, RecordInv
      <4> QED
        BY <4>1, <4>2, Zenon
    <3> QED
      BY <3>1, <3>2, Zenon
  <2> QED
    BY <2>1, Zenon DEF RecordInv
<1>4. UNCHANGED <<ledger, proof, pending>> /\ UNCHANGED <<bridge, wal, world, starts>>
  BY Zenon DEF memory, site
<1>5. /\ answers' \in [Id -> SUBSET Certainty] /\ \A k \in Id : k # i => answers'[k] = answers[k]
      /\ \A x \in answers'[i] : s.phase \in Terminal /\ s.snapshot.certainty = x
  <2>1. answers \in [Id -> SUBSET Certainty] /\ answers[i] = {}
    BY Zenon DEF ActionInv, Types, AnswerInv, Unresolved
  <2>2. s.phase \in Terminal => s.snapshot.certainty \in Certainty
    BY Zenon DEF Terminal, Receipt
  <2>3. CASE UNCHANGED answers
    BY <2>1, <2>3, Zenon
  <2>4. CASE s.phase \in Terminal /\ answers' = [answers EXCEPT ![i] = answers[i] \cup {s.snapshot.certainty}]
    BY <2>1, <2>2, <2>4, AnswerAdded, Zenon
  <2> QED
    BY <2>3, <2>4, Zenon
<1>6. Types'
  BY <1>4, <1>5, Zenon DEF ActionInv, Types, Moved, CallType, BridgeType, SiteType, MemoryType
<1>7. AnswerInv'
  <2>1. ASSUME NEW k \in Id, k # i, NEW x \in answers'[k]
        PROVE  record'[k] # None /\ record'[k].phase \in Terminal /\ record'[k].snapshot.certainty = x
    <3>1. x \in answers[k] /\ record'[k] = record[k]
      BY <1>1, <1>5, <2>1, Zenon
    <3>2. record[k] # None /\ record[k].phase \in Terminal /\ record[k].snapshot.certainty = x
      BY <3>1, Zenon DEF ActionInv, AnswerInv
    <3> QED
      BY <3>1, <3>2, Zenon
  <2>2. \A x \in answers'[i] : record'[i] # None /\ record'[i].phase \in Terminal /\ record'[i].snapshot.certainty = x
    BY <1>1, <1>2, <1>5, Zenon
  <2> QED
    BY <2>1, <2>2, Zenon DEF AnswerInv
<1>8. CallInv'
  <2>1. \A d \in Caller : d # c /\ call[d] # Idle => call[d].id # i
    BY AloneInside, Zenon DEF Alone, ActionInv
  <2> QED
    BY <1>1, <2>1, CallMoved, ZenonT(40) DEF ActionInv, Types
<1>9. BridgeInv'
  BY <1>4, BridgeIgnored, ZenonT(40) DEF ActionInv, Types
<1>10. SiteInv'
  BY <1>2, <1>4, SiteSame, Zenon DEF ActionInv
<1>11. \A k \in Id : ActPending(k)' <=> ActPending(k)
  BY <1>4, Zenon DEF ActPending
<1>12. SendInv'
  <2>1. v.at = "act" => v.id = i
    BY IdleAt, Zenon
  <2>2. record[i] = None => ~ ActPending(i)
    BY Zenon DEF ActionInv, SendInv
  <2> QED
    BY <1>2, <1>4, <1>11, <2>1, <2>2, SendMoved, ZenonT(40) DEF ActionInv, Types
<1>13. Steady
  <2>1. ASSUME NEW d \in Caller, call'[d].at = "act"
        PROVE  (call[d].at = "act" /\ call'[d].id = call[d].id) \/ record[call'[d].id] = None
    <3>1. CASE d = c
      <4>1. call'[d] = v /\ v.id = i
        BY <2>1, <3>1, IdleAt, Zenon DEF Moved
      <4> QED
        BY <2>1, <4>1, Zenon
    <3>2. CASE d # c
      BY <2>1, <3>2, Zenon DEF Moved
    <3> QED
      BY <3>1, <3>2, Zenon
  <2> QED
    BY <1>2, <1>4, <1>11, <2>1, Zenon DEF Steady
<1>14. TruthInv'
  <2>1. s.phase # "prepared" => Sound(i, s.snapshot.certainty)'
    BY <1>13, SoundStays, Zenon
  <2>2. s.phase # "prepared" => Sound(i, record[i].snapshot.certainty)'
    BY <1>1, <2>1, Zenon DEF Sound
  <2>3. \A k \in Id : record'[k] = record[k] \/ record'[k].phase = "prepared" \/ Sound(k, record[k].snapshot.certainty)'
    BY <1>1, <2>2, ZenonT(40)
  <2>4. ASSUME NEW d \in Caller, call'[d].at \in Told
        PROVE  call'[d].id \in Id /\ call[d].at \in Told /\ call'[d].id = call[d].id /\ call'[d].effect = call[d].effect
    <3>1. CASE d = c
      <4>1. call'[d] = v /\ v.id = i
        BY <2>4, <3>1, IdleAt, Zenon DEF Moved, Told
      <4> QED
        BY <2>4, <3>1, <4>1, Zenon
    <3>2. CASE d # c
      BY <2>4, <3>2, Inside, Zenon DEF Moved, Told, At, ActionInv, Types
    <3> QED
      BY <3>1, <3>2, Zenon
  <2>5. ASSUME NEW d \in Caller, call'[d].at \in {"acting", "asking"}
        PROVE  call'[d].id \in Id /\ call'[d] = call[d] /\ bridge'.reply = bridge.reply
    <3>1. d # c
      BY <2>5, Zenon DEF Moved, Waiting
    <3> QED
      BY <1>4, <2>5, <3>1, Inside, Zenon DEF Moved, At, Waiting, ActionInv, Types
  <2> QED
    BY <1>4, <1>6, <1>13, <2>3, <2>4, <2>5, TruthStep, ZenonT(40) DEF ActionInv, Types
<1> QED
  BY <1>1, <1>3, <1>6, <1>7, <1>8, <1>9, <1>10, <1>12, <1>14, ZenonT(40) DEF ActionInv

(* EffectIntentOperations.prepare. *)
LEMMA IntendKeeps == ASSUME ActionInv, NEW c \in Caller, Intend(c) PROVE ActionInv'
<1>1. call[c].at = "intent" /\ UNCHANGED <<memory, site, answers>>
  BY Zenon DEF Intend
<1>2. call[c] # Idle /\ call[c].id \in Id /\ call[c].at \notin Waiting /\ record[call[c].id] = None
  BY <1>1, Inside, Zenon DEF At, Waiting, ActionInv, Types, CallInv, CallAt, Before
<1>3. PICK i \in Id : i = call[c].id
  BY <1>2, Zenon
<1>4. CASE PrepareScoped(i, TheRequest) /\ Goto(c, "act")
  <2>1. PICK v : v = [at |-> "act", id |-> call[c].id, effect |-> call[c].effect]
    BY Zenon
  <2>2. Moved(c, v) /\ v.at = "act" /\ v.id = i
    BY <1>2, <1>3, <1>4, <2>1, GotoMoves, Zenon DEF At, ActionInv, Types
  <2>3. PICK s : s = NewRecord(TheRequest, TRUE)
    BY Zenon
  <2>4. s \in Record /\ s.request = TheRequest /\ s.phase = "prepared"
    <3>1. TheRequest \in Request
      BY ActionAssumption, Zenon DEF TheRequest
    <3> QED
      BY <2>3, <3>1, Zenon DEF NewRecord, Record, Phase
  <2>5. record' = [record EXCEPT ![i] = s] /\ events' \in [Id -> Seq(Record)]
    BY <1>4, <2>3, <2>4, RowsWritten, Zenon DEF PrepareScoped, ActionInv
  <2>6. record'[i] = s /\ s # None
    BY <2>4, <2>5, RowThere, Zenon DEF ActionInv, JournalType
  <2>7. CallAt(v, record')
    BY <2>2, <2>4, <2>6, Zenon DEF CallAt, Before, During, Told
  <2>8. i \notin Forbidden => wal[i] = Line("prepared", "not_applied")
    BY <1>1, <1>2, <1>3, ZenonT(40) DEF ActionInv, SendInv, SiteInv, Startable
  <2> QED
    BY <1>1, <1>2, <1>3, <2>2, <2>4, <2>5, <2>7, <2>8, WriteKeeps, Zenon DEF Waiting, Told
<1>5. CASE Leave(c) /\ UNCHANGED journal
  <2>1. Alone(c, i) /\ Moved(c, Idle)
    BY <1>2, <1>3, <1>5, AloneInside, LeaveMoves, Zenon DEF ActionInv, Types
  <2>2. UNCHANGED <<ledger, proof, pending>> /\ MemoryType'
    BY <1>1, Zenon DEF memory, ActionInv, Types, MemoryType
  <2>3. CallAt(Idle, record) /\ Idle.at \notin Waiting /\ Idle.at \notin Told /\ Idle.at # "act" /\ Idle.at # "intent"
    BY IdleAt, Zenon DEF CallAt, Waiting, Before, During, Told
  <2> QED
    BY <1>1, <1>2, <1>5, <2>1, <2>2, <2>3, CalmMove, Zenon
<1> QED
  BY <1>3, <1>4, <1>5, Zenon DEF Intend

(* record_terminal_result, record_reconciled and the terminal transitions. *)
LEMMA AnswerKeeps ==
  ASSUME ActionInv, NEW c \in Caller, call[c].at \in {"record", "terminalize"}, UNCHANGED <<memory, site>>,
         NEW s, ResultOf(s, call[c].effect), s.phase \in Terminal,
         record' = [record EXCEPT ![call[c].id] = s], events' \in [Id -> Seq(Record)],
         Answer(c, call[c].id, call[c].effect)
  PROVE  ActionInv'
<1>1. /\ call[c] # Idle /\ call[c].id \in Id /\ call[c].at \notin Waiting /\ Unresolved(call[c].id)
      /\ call[c].effect \in Receipt /\ call[c].effect.request = TheRequest
  BY Inside, Zenon DEF At, Waiting, ActionInv, Types, CallInv, CallAt, During, Told, Unresolved, Terminal
<1>2. PICK i \in Id : i = call[c].id
  BY <1>1, Zenon
<1>3. PICK e \in Receipt : e = call[c].effect
  BY <1>1, Zenon
<1>4. s \in Record /\ s.request = TheRequest /\ s.effect = e /\ s.snapshot = e
  BY <1>3, Zenon DEF ResultOf
<1>5. Moved(c, Idle) /\ answers' = [answers EXCEPT ![i] = answers[i] \cup {e.certainty}]
  BY <1>2, <1>3, LeaveMoves, Zenon DEF Answer, ActionInv, Types
<1>6. Sound(i, e.certainty)
  BY <1>2, <1>3, Zenon DEF ActionInv, TruthInv, Told
<1>7. CallAt(Idle, record') /\ Idle.at \notin Waiting /\ Idle.at \notin Told /\ Idle.at # "act" /\ Idle.at # "intent"
  BY IdleAt, Zenon DEF CallAt, Waiting, Before, During, Told
<1>8. s.phase \notin {"prepared", "result_recorded"}
  BY Zenon DEF Terminal
<1> QED
  BY <1>1, <1>2, <1>3, <1>4, <1>5, <1>6, <1>7, <1>8, WriteKeeps, ZenonT(40)

LEMMA RecordActKeeps == ASSUME ActionInv, NEW c \in Caller, RecordAct(c) PROVE ActionInv'
<1>1. PICK i, e : i = call[c].id /\ e = call[c].effect
  BY Zenon
<1>2. PICK w : w = IF e.certainty \in Consumable THEN TheCompletion ELSE None
  BY Zenon
<1>3. /\ call[c].at = "record" /\ RecordTerminalResult(i, TheRequest, e, e, w)
      /\ Answer(c, i, e) /\ UNCHANGED <<memory, site>>
  BY <1>1, <1>2, Zenon DEF RecordAct
<1>4. /\ i \in Id /\ e \in Receipt /\ record[i] \in Record /\ record[i].phase = "prepared"
  BY <1>1, <1>3, Inside, Zenon DEF At, ActionInv, Types, JournalType, CallInv, CallAt, During, Told
<1>5. PICK r \in EffectTransition(record[i], "result_recorded", TheRequest, e, e) :
        \E final \in TerminalTransition(r, TheRequest, e, w) :
          Write(i, IF r = record[i] THEN <<final>> ELSE <<r, final>>)
  BY <1>3, Zenon DEF RecordTerminalResult
<1>6. PICK s \in TerminalTransition(r, TheRequest, e, w) : Write(i, IF r = record[i] THEN <<s>> ELSE <<r, s>>)
  BY <1>5, Zenon
<1>7. ResultOf(r, e) /\ r.phase = "result_recorded"
  BY <1>4, <1>5, ResultRow, Zenon
<1>8. s \in ConsumedTransition(r, TheRequest, TheCompletion) \cup NotAppliedTransition(r, TheRequest, e)
            \cup IndeterminateTransition(r, TheRequest, e)
  BY <1>2, <1>6, Zenon DEF TerminalTransition, Consumable
<1>9. ResultOf(s, e) /\ s.phase \in Terminal
  BY <1>4, <1>7, <1>8, FinalRow, Zenon DEF Terminal
<1>10. record' = [record EXCEPT ![i] = s] /\ events' \in [Id -> Seq(Record)]
  <2>1. PICK rows : rows = IF r = record[i] THEN <<s>> ELSE <<r, s>>
    BY Zenon
  <2>2. rows \in {<<s>>} \cup {<<q, s>> : q \in Record} /\ Write(i, rows) /\ s \in Record
    BY <1>6, <1>7, <1>9, <2>1, Zenon DEF ResultOf
  <2> QED
    BY <1>4, <2>2, RowsWritten, Zenon DEF ActionInv
<1> QED
  BY <1>1, <1>3, <1>9, <1>10, AnswerKeeps, Zenon

(* A row that a journal operation writes. *)
LEMMA OneRow ==
  ASSUME JournalType, NEW i \in Id, NEW desired, Apply(i, desired), \A r \in desired : r \in Record
  PROVE  \E s \in desired : record' = [record EXCEPT ![i] = s] /\ events' \in [Id -> Seq(Record)]
<1>1. PICK s \in desired : Write(i, <<s>>)
  BY Zenon DEF Apply
<1>2. s \in Record /\ <<s>> \in {<<s>>} \cup {<<r, s>> : r \in Record}
  BY Zenon
<1> QED
  BY <1>1, <1>2, RowsWritten, Zenon

LEMMA SettleKeeps == ASSUME ActionInv, NEW c \in Caller, Settle(c) PROVE ActionInv'
<1>1. PICK i, e : i = call[c].id /\ e = call[c].effect
  BY Zenon
<1>2. /\ call[c].at = "settle" /\ RecordReconciled(i, TheRequest, e, e) /\ Goto(c, "terminalize")
      /\ UNCHANGED <<memory, site, answers>>
  BY <1>1, Zenon DEF Settle
<1>3. /\ call[c] # Idle /\ call[c].at \notin Waiting /\ call[c].at \in Told /\ i \in Id /\ e \in Receipt
      /\ e.request = TheRequest /\ record[i] \in Record /\ record[i].phase = "prepared" /\ Unresolved(i)
  BY <1>1, <1>2, Inside, ZenonT(40) DEF At, Waiting, ActionInv, Types, JournalType, CallInv, CallAt, During, Told, Unresolved, Terminal
<1>4. PICK desired : desired = EffectTransition(record[i], "reconciled", TheRequest, e, e)
  BY Zenon
<1>5. \A r \in desired : ResultOf(r, e) /\ r.phase = "reconciled" /\ r \in Record
  <2>1. \A r \in desired : ResultOf(r, e) /\ r.phase = "reconciled"
    BY <1>3, <1>4, ResultRow, Zenon
  <2> QED
    BY <2>1, Zenon DEF ResultOf
<1>6. PICK s \in desired : record' = [record EXCEPT ![i] = s] /\ events' \in [Id -> Seq(Record)]
  BY <1>2, <1>3, <1>4, <1>5, OneRow, Zenon DEF RecordReconciled, ActionInv
<1>7. ResultOf(s, e) /\ s.phase = "reconciled" /\ s \in Record /\ record'[i] = s /\ s # None
  BY <1>3, <1>5, <1>6, RowThere, Zenon DEF ActionInv, JournalType
<1>8. PICK v : v = [at |-> "terminalize", id |-> call[c].id, effect |-> call[c].effect]
  BY Zenon
<1>9. Moved(c, v) /\ v.at = "terminalize" /\ v.id = i /\ v.effect = e
  BY <1>1, <1>2, <1>3, <1>8, GotoMoves, Zenon DEF At, ActionInv, Types
<1>10. CallAt(v, record')
  BY <1>3, <1>7, <1>9, Zenon DEF CallAt, Before, During, Told, ResultOf
<1>11. Sound(i, e.certainty)
  BY <1>1, <1>3, Zenon DEF ActionInv, TruthInv
<1> QED
  BY <1>1, <1>2, <1>3, <1>6, <1>7, <1>9, <1>10, <1>11, WriteKeeps, Zenon DEF Waiting, Told, ResultOf

LEMMA TerminalizeKeeps == ASSUME ActionInv, NEW c \in Caller, Terminalize(c) PROVE ActionInv'
<1>1. PICK i, e : i = call[c].id /\ e = call[c].effect
  BY Zenon
<1>2. /\ call[c].at = "terminalize" /\ Answer(c, i, e) /\ UNCHANGED <<memory, site>>
      /\ \/ Apply(i, NotAppliedTransition(record[i], TheRequest, e))
         \/ Apply(i, IndeterminateTransition(record[i], TheRequest, e))
         \/ Apply(i, ConsumedTransition(record[i], TheRequest, TheCompletion))
  BY <1>1, Zenon DEF Terminalize, RecordNotApplied, RecordIndeterminate, RecordConsumed
<1>3. /\ i \in Id /\ e \in Receipt /\ ResultOf(record[i], e) /\ record[i].phase \notin Terminal
  BY <1>1, <1>2, Inside, ZenonT(40) DEF At, ActionInv, Types, JournalType, CallInv, CallAt, During, Told, RecordInv, ResultOf, Terminal
<1>4. PICK all3 : all3 = ConsumedTransition(record[i], TheRequest, TheCompletion)
                         \cup NotAppliedTransition(record[i], TheRequest, e)
                         \cup IndeterminateTransition(record[i], TheRequest, e)
  BY Zenon
<1>5. Apply(i, all3)
  BY <1>2, <1>4, Zenon DEF Apply
<1>6. \A r \in all3 : ResultOf(r, e) /\ r.phase \in Terminal /\ r \in Record
  <2>1. \A r \in all3 : ResultOf(r, e) /\ r.phase \in Terminal
    BY <1>3, <1>4, FinalRow, Zenon
  <2> QED
    BY <2>1, Zenon DEF ResultOf
<1>7. PICK s \in all3 : record' = [record EXCEPT ![i] = s] /\ events' \in [Id -> Seq(Record)]
  BY <1>3, <1>5, <1>6, OneRow, Zenon DEF ActionInv
<1> QED
  BY <1>1, <1>2, <1>6, <1>7, AnswerKeeps, Zenon

-----------------------------------------------------------------------------
(* A first start: no intent, no line, no caller. *)
LEMMA InitHolds == ActionInit => ActionInv
<1> SUFFICES ASSUME ActionInit PROVE ActionInv
  BY Zenon
<1>1. /\ \A c \in Caller : call[c] = Idle /\ call[c].at = "idle"
      /\ \A i \in Id : record[i] = None /\ wal[i] = None /\ world[i] = "untouched" /\ starts[i] = 0
                       /\ ledger[i] = "none" /\ proof[i] = "none" /\ answers[i] = {}
      /\ bridge.up = "live" /\ bridge.inbox = None /\ bridge.busy = None /\ bridge.reply = None
  BY IdleAt, Zenon DEF ActionInit, Init, Fresh
<1>2. JournalType
  BY DEF ActionInit, Init, JournalType
<1>3. Types
  <2>1. BridgeType
    BY NoneThere, Zenon DEF ActionInit, Fresh, BridgeType, Processes
  <2>2. CallType /\ SiteType /\ MemoryType /\ answers \in [Id -> SUBSET Certainty]
    BY Zenon DEF ActionInit, CallType, SiteType, MemoryType
  <2> QED
    BY <2>1, <2>2, Zenon DEF Types
<1>4. CallInv
  BY <1>1, Zenon DEF CallInv, CallAt, Before, During, Told, Waiting
<1>5. RecordInv /\ AnswerInv
  BY <1>1, Zenon DEF RecordInv, AnswerInv
<1>6. BridgeInv
  BY <1>1, Zenon DEF BridgeInv, BridgeShape, Quiet, WaitAt, Waiting
<1>7. SiteInv
  BY <1>1, Zenon DEF SiteInv, Startable
<1>8. \A i \in Id : ~ ActPending(i)
  BY <1>1 DEF ActPending, Command, None
<1>9. SendInv
  BY <1>1, <1>8, Zenon DEF SendInv
<1>10. TruthInv
  BY <1>1, Zenon DEF TruthInv, Told
<1> QED
  BY <1>2, <1>3, <1>4, <1>5, <1>6, <1>7, <1>9, <1>10, Zenon DEF ActionInv

LEMMA StepKeeps == ActionInv /\ [ActionNext]_all => ActionInv'
<1> SUFFICES ASSUME ActionInv, [ActionNext]_all PROVE ActionInv'
  BY Zenon
<1>1. ASSUME NEW c \in Caller, CallerStep(c) PROVE ActionInv'
  BY <1>1, InvokeNewKeeps, InvokeRecoverKeeps, InvokeReplayKeeps, PrepareHandleKeeps, PrepareFailsKeeps, PrepareAckKeeps,
     IntendKeeps, ActKeeps, ActFailsKeeps, ActResultKeeps, ActCancelledKeeps, RecordActKeeps, AskKeeps, AskFailsKeeps,
     ProofArrivesKeeps, RefreshKeeps, SettleKeeps, TerminalizeKeeps, LostKeeps, RaiseKeeps, InterruptKeeps, Zenon
     DEF CallerStep
<1>2. CASE Observe \/ HostCrash \/ BridgeRefuses \/ BridgeDies \/ \E i \in Id : WorldEffect(i)
  BY <1>2, ObserveKeeps, HostCrashKeeps, BridgeRefusesKeeps, BridgeDiesKeeps, WorldEffectKeeps, Zenon
<1>3. CASE BridgeWork
  BY <1>3, BridgePrepareKeeps, BridgeBeginKeeps, BridgeCompleteKeeps, BridgeReconcileKeeps, Zenon DEF BridgeWork
<1>4. CASE UNCHANGED all
  <2>1. UNCHANGED <<journal, call, memory, site>> /\ UNCHANGED answers /\ UNCHANGED record
    BY <1>4, Zenon DEF all, journal
  <2>2. AnswerInv' /\ answers' \in [Id -> SUBSET Certainty]
    BY <2>1, Zenon DEF ActionInv, AnswerInv, Types
  <2> QED
    BY <2>1, <2>2, StutterKeeps, Zenon
<1> QED
  BY <1>1, <1>2, <1>3, <1>4, Zenon DEF ActionNext

(* The invariant of the action path: what the host, the bridge and its journal
   hold of an action agrees, in every state of the model. *)
THEOREM ActionInvariant == ActionSpec => []ActionInv
  BY InitHolds, StepKeeps, PTL DEF ActionSpec

(* One handler at a time: a bridge that answered for a handler still at work is
   recycled before it is sent the next command. *)
OneActing == \A i, j \in Id : world[i] = "acting" /\ world[j] = "acting" => i = j

Calms == \A i \in Id : world'[i] = "acting" => world[i] = "acting"

LEMMA AdriftCalms == ASSUME Types, world' = world \/ world' = Adrift PROVE Calms
  BY Zenon DEF Adrift, Calms

LEMMA CallerCalms == ASSUME Types, NEW c \in Caller, CallerStep(c) PROVE Calms
<1>1. CASE \E i \in Id : InvokeNew(c, i) \/ InvokeRecover(c, i) \/ InvokeReplay(c, i)
  BY <1>1, AdriftCalms, Zenon DEF InvokeNew, InvokeRecover, InvokeReplay, site
<1>2. CASE PrepareHandle(c) \/ PrepareFails(c) \/ PrepareAck(c) \/ Intend(c)
  BY <1>2, AdriftCalms, Zenon DEF PrepareHandle, PrepareFails, PrepareAck, Intend, Send, CannotSend, site
<1>3. CASE Act(c) \/ ActFails(c) \/ ActResult(c) \/ ActCancelled(c) \/ RecordAct(c)
  BY <1>3, AdriftCalms, Zenon DEF Act, ActFails, ActResult, ActCancelled, RecordAct, Send, CannotSend, site
<1>4. CASE Ask(c) \/ AskFails(c) \/ ProofArrives(c) \/ Refresh(c) \/ Settle(c) \/ Terminalize(c)
  BY <1>4, AdriftCalms, Zenon DEF Ask, AskFails, ProofArrives, Refresh, Reads, Settle, Terminalize, Send, CannotSend, site
<1>5. CASE Lost(c) \/ Raise(c) \/ Interrupt(c)
  BY <1>5, AdriftCalms, Zenon DEF Lost, Raise, Interrupt, site
<1> QED
  BY <1>1, <1>2, <1>3, <1>4, <1>5, Zenon DEF CallerStep

LEMMA BeginsAlone == ASSUME ActionInv, BridgeBegin PROVE Calms \/ \A i \in Id : world'[i] = "acting" => i = bridge.inbox.id
<1>1. bridge.inbox # None /\ bridge.busy = None
  BY Zenon DEF BridgeBegin, Received
<1>2. \A i \in Id : world[i] # "acting"
  BY <1>1, ActionAssumption, Zenon DEF ActionInv, SiteInv
<1>3. world' = world \/ world' = [world EXCEPT ![bridge.inbox.id] = "acting"]
  BY Zenon DEF BridgeBegin
<1> QED
  BY <1>2, <1>3, Zenon DEF ActionInv, Types, SiteType, Calms

LEMMA CompletesCalmly == ASSUME ActionInv, BridgeComplete PROVE Calms
<1>1. PICK after :
        (world[bridge.busy] = "applied") = (after = "applied") /\ world' = [world EXCEPT ![bridge.busy] = after]
  BY Zenon DEF BridgeComplete
<1>2. world[bridge.busy] \in {"acting", "applied"}
  BY Zenon DEF BridgeComplete, ActionInv, SiteInv
<1> QED
  BY <1>1, <1>2, Zenon DEF ActionInv, Types, SiteType, Calms

LEMMA HandlersStep == ActionInv /\ OneActing /\ [ActionNext]_all => OneActing'
<1> SUFFICES ASSUME ActionInv, OneActing, [ActionNext]_all PROVE OneActing'
  BY Zenon
<1>1. Types
  BY Zenon DEF ActionInv
<1>2. CASE Calms
  BY <1>2, Zenon DEF Calms, OneActing
<1>3. ASSUME NEW i \in Id, WorldEffect(i) PROVE Calms
  BY <1>1, <1>3, Zenon DEF WorldEffect, Calms, Types, SiteType
<1>4. CASE Observe \/ HostCrash \/ BridgeRefuses \/ BridgeDies \/ BridgePrepare \/ BridgeReconcile \/ UNCHANGED all
  <2>1. world' = world \/ world' = Adrift
    BY <1>4, Zenon DEF Observe, Reads, CannotSend, HostCrash, BridgeRefuses, BridgeDies, BridgePrepare, BridgeReconcile, all, site
  <2> QED
    BY <1>1, <1>2, <2>1, AdriftCalms, Zenon
<1>5. CASE BridgeBegin
  BY <1>2, <1>5, BeginsAlone, Zenon DEF OneActing
<1>6. CASE BridgeComplete
  BY <1>2, <1>6, CompletesCalmly, Zenon
<1> QED
  BY <1>1, <1>2, <1>3, <1>4, <1>5, <1>6, CallerCalms, Zenon DEF ActionNext, BridgeWork

(* CapabilityEffectExecutor.invoke and MinecraftBotActor together: with any number
   of callers, actions, crashes and lost answers, a handler starts at most once,
   for an admitted action whose intent is on file, and two never run at once. *)
THEOREM HandlerStartsOnce == ActionSpec => []ActedOnce
<1>1. ActionInit => OneActing
  BY Zenon DEF ActionInit, OneActing
<1>2. ASSUME ActionInv, OneActing PROVE ActedOnce
  <2>1. TypeOK
    BY <1>2, ActionAssumption DEF ActionInv, JournalType, TypeOK
  <2>2. \A c \in Caller : call[c] = Idle \/ call[c] \in [at : At, id : Id, effect : {None} \cup Receipt]
    BY <1>2, Zenon DEF ActionInv, Types, CallType, InCall
  <2>3. bridge.up \in {"live", "dead", "down"} /\ bridge.inbox \in Inboxes /\ bridge.busy \in {None} \cup Id
    BY <1>2, Zenon DEF ActionInv, Types, BridgeType, Processes
  <2>4. \A i \in Id : wal[i] # None => wal[i] \in [state : {"prepared", "intent", "terminal"}, disposition : Disposition]
    BY <1>2, Zenon DEF ActionInv, Types, SiteType
  <2>5. ActionTypeOK
    BY <1>2, <2>1, <2>2, <2>3, <2>4, Zenon DEF ActionInv, Types, SiteType, MemoryType, ActionTypeOK
  <2>6. ASSUME NEW i \in Id, starts[i] > 0 PROVE starts[i] = 1 /\ i \notin Forbidden /\ record[i] # None
    BY <1>2, <2>6 DEF ActionInv, SiteInv
  <2>7. ASSUME bridge.inbox # None, bridge.inbox.cmd = "act"
        PROVE  wal[bridge.inbox.id] = Line("prepared", "not_applied")
    <3>1. bridge.inbox.id \in Id /\ ActPending(bridge.inbox.id)
      BY <2>3, <2>7, Zenon DEF Inboxes, ActPending, Command
    <3> QED
      BY <1>2, <3>1, Zenon DEF ActionInv, SendInv
  <2> QED
    BY <2>5, <2>6, <2>7, <1>2, Zenon DEF ActedOnce, OneActing
<1> QED
  BY <1>1, <1>2, HandlersStep, ActionInvariant, PTL DEF ActionSpec

(* What callers are told, and what the effect journal ends with, is true of the
   world and the same for all callers, whatever died, timed out or was retried. *)
THEOREM VerdictsAreTrue == ActionSpec => []VerdictsTrue
<1>1. ASSUME ActionInv PROVE VerdictsTrue
  <2> DEFINE told(i) == answers[i] \cup IF record[i] = None \/ record[i].phase \notin Terminal THEN {}
                                        ELSE {record[i].snapshot.certainty}
  <2>1. ASSUME NEW i \in Id, NEW x \in told(i)
        PROVE  record[i] # None /\ record[i].phase \in Terminal /\ record[i].snapshot.certainty = x
    BY <1>1, <2>1, Zenon DEF ActionInv, AnswerInv
  <2>2. ASSUME NEW i \in Id, NEW x \in told(i) PROVE Sound(i, x)
    BY <1>1, <2>1, <2>2, Zenon DEF ActionInv, TruthInv, Terminal
  <2>3. VerdictsTrue = \A i \in Id : /\ \A a, b \in told(i) : a = b
                                     /\ "confirmed" \in told(i) => world[i] = "applied"
                                     /\ {"rejected", "no_effect"} \cap told(i) # {} => world[i] \in {"untouched", "ceased"}
    BY Zenon DEF VerdictsTrue
  <2> HIDE DEF told
  <2>4. ASSUME NEW i \in Id PROVE "confirmed" \in told(i) => world[i] = "applied"
    BY <2>2, Zenon DEF Sound
  <2>5. ASSUME NEW i \in Id, {"rejected", "no_effect"} \cap told(i) # {} PROVE world[i] \in {"untouched", "ceased"}
    BY <2>2, <2>5, Zenon DEF Sound, Never
  <2> QED
    BY <2>1, <2>3, <2>4, <2>5, Zenon
<1> QED
  BY <1>1, ActionInvariant, PTL
==============================================================================
