-------------------------- MODULE DurableScheduling --------------------------
(***************************************************************************)
(* The durable scheduling authority: one SQLite journal of grants,         *)
(* completions, rollbacks and releases shared by processes, a materialized *)
(* view of it in every process, a checkpoint of a view in the database,    *)
(* and the queue in which a process's threads commit as a group: the       *)
(* first waiting thread writes for all and hands the writer on             *)
(* (DurableUnifiedSchedulingAuthority).                                    *)
(*                                                                         *)
(* A view is modelled by the events it was computed from: the counters of  *)
(* UnifiedSchedulingAuthority are a function of them.  One tenant and      *)
(* resource; every grant is of one permit.                                 *)
(***************************************************************************)
EXTENDS Integers, Sequences, FiniteSets

CONSTANTS Process, Thread,
          ProcOf,      \* the process of a thread
          Flow,        \* flow coordinates
          MaxCalls,    \* bound: transitions asked for
          MaxFaults,   \* bound: SQLite failures, crashes and closes
          Interval     \* _CHECKPOINT_INTERVAL

ASSUME SchedulingAssumption ==
  /\ ProcOf \in [Thread -> Process] /\ Flow # {}
  /\ MaxCalls \in Nat /\ MaxFaults \in Nat /\ Interval \in Nat \ {0}

VARIABLES events,      \* unified_scheduling_events
          written,     \* the rows that the open write transaction has inserted
          checkpoint,  \* unified_scheduling_checkpoint; seq 0: no row
          view,        \* per process: the events its counters come from
          applied,     \* _applied
          cut,         \* _checkpoint_cut
          readAt,      \* _reader_data_version
          closed,      \* _closed
          queue,       \* _transition_queue
          draining,    \* _transition_draining
          batch,       \* the captured cut
          done,        \* how many of its items validation has seen
          refused,     \* its items whose failure validation set
          pc,          \* per thread: where it is
          call,        \* its _PendingTransition's operation and fields
          leading,     \* leading
          receipt,     \* completed, with result or failure
          own,         \* flows it was granted and has not given back
          calls,       \* transitions asked for so far
          answered,    \* what callers were told of their transitions
          faults,      \* the disturbances so far
          spoilt       \* a view with a failed group in it was stored as the checkpoint

disk     == <<events, written, checkpoint, spoilt>>
memory   == <<view, applied, cut, readAt>>
group    == <<queue, draining, batch, done, refused>>
threads  == <<pc, call, leading, receipt, own>>
vars     == <<disk, memory, closed, group, threads, calls, answered, faults>>

Op    == {"grant", "completion", "rollback", "release_flow", "release_resource"}
Event == [op : Op, flow : Flow, thread : Thread, nr : Nat]

Receipt == {"none", "ok", "rejected", "failed"}

(* _reader_data_version before the first read. *)
Unread == -1

Working == {"draining", "commit", "publish", "failed", "strand"}

NoCall(t) == [op |-> "grant", flow |-> CHOOSE f \in Flow : TRUE, thread |-> t, nr |-> 0]

Init ==
  /\ events = <<>> /\ written = <<>>
  /\ checkpoint = [seq |-> 0, view |-> <<>>] /\ spoilt = FALSE
  /\ view = [p \in Process |-> <<>>] /\ applied = [p \in Process |-> 0]
  /\ cut = [p \in Process |-> 0] /\ readAt = [p \in Process |-> Unread]
  /\ closed = [p \in Process |-> FALSE]
  /\ queue = [p \in Process |-> <<>>] /\ draining = [p \in Process |-> FALSE]
  /\ batch = [p \in Process |-> <<>>] /\ done = [p \in Process |-> 0]
  /\ refused = [p \in Process |-> {}]
  /\ pc = [t \in Thread |-> "idle"] /\ call = [t \in Thread |-> NoCall(t)]
  /\ leading = [t \in Thread |-> FALSE] /\ receipt = [t \in Thread |-> "none"]
  /\ own = [t \in Thread |-> {}]
  /\ calls = 0 /\ answered = {} /\ faults = 0

-----------------------------------------------------------------------------
(* The accounting of UnifiedSchedulingAuthority. *)
Count(v, f, ops) == Cardinality({i \in DOMAIN v : v[i].flow = f /\ v[i].op \in ops})

InFlight(v, f) == Count(v, f, {"grant"}) - Count(v, f, {"completion", "rollback"})

(* retire_requested: set by release_flow on a known flow, reset by a grant. *)
Retiring(v, f) ==
  \E i, j \in DOMAIN v :
    /\ i < j /\ v[i].flow = f /\ v[i].op = "grant" /\ v[j].flow = f /\ v[j].op = "release_flow"
    /\ \A k \in j..Len(v) : ~ (v[k].flow = f /\ v[k].op = "grant")

(* Which transitions validation accepts. *)
Accepts(v, e) ==
  CASE e.op = "grant" -> ~ (Retiring(v, e.flow) /\ InFlight(v, e.flow) # 0)
    [] e.op \in {"completion", "rollback"} -> InFlight(v, e.flow) > 0
    [] OTHER -> TRUE

-----------------------------------------------------------------------------
(* A disturbance: SQLite refuses to begin, the commit of a group or a mutation
   fails, a process dies or closes its authority. *)
Fault == faults < MaxFaults /\ faults' = faults + 1

(* The cut lock of a process and SQLite's write permit are held between two
   actions only by a thread that is about to commit its group. *)
CutFree(p) == \A t \in Thread : ProcOf[t] = p => pc[t] # "commit"

WriterFree == \A t \in Thread : pc[t] # "commit"

(* _catch_up: the checkpoint if it is ahead, then later events, here up to the
   n-th. *)
Ahead(p) == checkpoint.seq > applied[p]

StartOf(p) == IF Ahead(p) THEN checkpoint.seq ELSE applied[p]

CaughtUpTo(p, n) ==
  (IF Ahead(p) THEN checkpoint.view ELSE view[p]) \o SubSeq(events, StartOf(p) + 1, n)

Caught(p) == CaughtUpTo(p, Len(events))

CaughtTo(p) == IF StartOf(p) > Len(events) THEN StartOf(p) ELSE Len(events)

(* Every replayed event passes the validation that it passed when it was new;
   one that does not makes the catch-up raise. *)
ReplaysTo(p, n) == \A i \in StartOf(p) + 1 .. n : Accepts(CaughtUpTo(p, i - 1), events[i])

Replays(p) == ReplaysTo(p, Len(events))

CutAfterCatchUp(p) == IF Ahead(p) THEN checkpoint.seq ELSE cut[p]

(* _maybe_checkpoint: due by the process's memory and by the stored row. *)
Due(c, seq) == seq - c >= Interval /\ seq - checkpoint.seq >= Interval

CutAfter(c, seq) == IF Due(c, seq) THEN seq
                    ELSE IF seq - c >= Interval THEN checkpoint.seq ELSE c

StoreCheckpoint(c, seq, v) ==
  checkpoint' = IF Due(c, seq) THEN [seq |-> seq, view |-> v] ELSE checkpoint

(* _reset_view. *)
ResetView(p) ==
  /\ view' = [view EXCEPT ![p] = <<>>] /\ applied' = [applied EXCEPT ![p] = 0]
  /\ cut' = [cut EXCEPT ![p] = 0] /\ readAt' = [readAt EXCEPT ![p] = Unread]

(* The caller learns the outcome; its grants are its own to give back. *)
Tell(t, e, ok) ==
  /\ answered' = answered \cup {[event |-> e, ok |-> ok]}
  /\ own' = [own EXCEPT ![t] =
       CASE ok /\ e.op = "grant" -> @ \cup {e.flow}
         [] ok /\ e.op \in {"completion", "rollback"} -> @ \ {e.flow}
         [] OTHER -> @]

-----------------------------------------------------------------------------
(* _group_transition: the transition is queued; its thread leads when nobody
   drains.  Callers give back only what they were granted. *)
Submit(t, op, f) ==
  LET p == ProcOf[t] IN
  /\ pc[t] = "idle" /\ calls < MaxCalls
  /\ op \in {"grant", "completion"} /\ (op = "completion" <=> f \in own[t])
  /\ calls' = calls + 1
  /\ call' = [call EXCEPT ![t] = [op |-> op, flow |-> f, thread |-> t, nr |-> calls + 1]]
  /\ pc' = [pc EXCEPT ![t] = "waiting"]
  /\ queue' = [queue EXCEPT ![p] = Append(@, t)]
  /\ leading' = [leading EXCEPT ![t] = ~ draining[p]]
  /\ draining' = [draining EXCEPT ![p] = TRUE]
  /\ UNCHANGED <<disk, memory, closed, batch, done, refused, receipt, own, answered, faults>>

(* The thread wakes with the baton. *)
Lead(t) ==
  /\ pc[t] = "waiting" /\ leading[t]
  /\ leading' = [leading EXCEPT ![t] = FALSE]
  /\ pc' = [pc EXCEPT ![t] = "draining"]
  /\ UNCHANGED <<disk, memory, closed, group, call, receipt, calls, own, answered, faults>>

(* Mutant: the group is validated against the view before the transaction. *)
BeginStale(t) ==
  LET p == ProcOf[t] IN
  /\ pc[t] = "draining" /\ ~ closed[p] /\ CutFree(p) /\ WriterFree
  /\ batch' = [batch EXCEPT ![p] = queue[p]] /\ queue' = [queue EXCEPT ![p] = <<>>]
  /\ applied' = [applied EXCEPT ![p] = CaughtTo(p)]
  /\ pc' = [pc EXCEPT ![t] = "commit"]
  /\ UNCHANGED <<disk, view, cut, readAt, closed, draining, done, refused, call, leading,
                 receipt, calls, own, answered, faults>>

(* _drain_transition_cut, first the catch-up in the write transaction and the
   capture of the queue ... *)
Begin(t) ==
  LET p == ProcOf[t] IN
  /\ pc[t] = "draining" /\ ~ closed[p] /\ CutFree(p) /\ WriterFree /\ Replays(p)
  /\ batch' = [batch EXCEPT ![p] = queue[p]] /\ queue' = [queue EXCEPT ![p] = <<>>]
  /\ view' = [view EXCEPT ![p] = Caught(p)]
  /\ applied' = [applied EXCEPT ![p] = CaughtTo(p)]
  /\ cut' = [cut EXCEPT ![p] = CutAfterCatchUp(p)]
  /\ readAt' = [readAt EXCEPT ![p] = Len(events)]
  /\ pc' = [pc EXCEPT ![t] = "commit"]
  /\ UNCHANGED <<disk, closed, draining, done, refused, call, leading, receipt, calls, own,
                 answered, faults>>

(* The writer is closed, or SQLite or the catch-up raises. *)
BeginFails(t) ==
  LET p == ProcOf[t] IN
  /\ pc[t] = "draining" /\ CutFree(p)
  /\ IF closed[p] \/ ~ Replays(p) THEN UNCHANGED faults ELSE Fault
  /\ pc' = [pc EXCEPT ![t] = "failed"]
  /\ UNCHANGED <<disk, memory, closed, group, call, leading, receipt, calls, own, answered>>

(* ... then one item of the cut after the other: validation accounts for it in
   the view and inserts its row, or refuses it ... *)
Item(p) == batch[p][done[p] + 1]

Validating(t) == pc[t] = "commit" /\ done[ProcOf[t]] < Len(batch[ProcOf[t]])

Insert(t) ==
  LET p == ProcOf[t] IN
  /\ Validating(t) /\ Accepts(view[p], call[Item(p)])
  /\ view' = [view EXCEPT ![p] = Append(@, call[Item(p)])]
  /\ written' = Append(written, call[Item(p)])
  /\ applied' = [applied EXCEPT ![p] = Len(events) + Len(written) + 1]
  /\ done' = [done EXCEPT ![p] = @ + 1]
  /\ UNCHANGED <<events, checkpoint, spoilt, cut, readAt, closed, queue, draining, batch,
                 refused, threads, calls, answered, faults>>

Refuse(t) ==
  LET p == ProcOf[t] IN
  /\ Validating(t) /\ ~ Accepts(view[p], call[Item(p)])
  /\ refused' = [refused EXCEPT ![p] = @ \cup {Item(p)}]
  /\ done' = [done EXCEPT ![p] = @ + 1]
  /\ UNCHANGED <<disk, memory, closed, queue, draining, batch, threads, calls, answered, faults>>

(* ... and the commit, with a checkpoint when one is due. *)
Commit(t) ==
  LET p == ProcOf[t] IN
  /\ pc[t] = "commit" /\ ~ Validating(t)
  /\ events' = events \o written /\ written' = <<>>
  /\ StoreCheckpoint(cut[p], applied[p], view[p])
  /\ cut' = [cut EXCEPT ![p] = CutAfter(cut[p], applied[p])]
  /\ pc' = [pc EXCEPT ![t] = "publish"]
  /\ UNCHANGED <<spoilt, view, applied, readAt, closed, group, call, leading, receipt, calls,
                 own, answered, faults>>

(* An insertion or the commit fails and the transaction is rolled back; the cut
   lock is released with the view still holding what was not committed. *)
InsertFails(t) ==
  LET p == ProcOf[t] IN
  /\ Validating(t) /\ Accepts(view[p], call[Item(p)]) /\ Fault
  /\ view' = [view EXCEPT ![p] = Append(@, call[Item(p)])]
  /\ written' = <<>>
  /\ pc' = [pc EXCEPT ![t] = "failed"]
  /\ UNCHANGED <<events, checkpoint, spoilt, applied, cut, readAt, closed, group, call, leading,
                 receipt, calls, own, answered>>

CommitFails(t) ==
  LET p == ProcOf[t] IN
  /\ pc[t] = "commit" /\ ~ Validating(t) /\ Fault
  /\ written' = <<>>
  /\ cut' = [cut EXCEPT ![p] = CutAfter(cut[p], applied[p])]
  /\ pc' = [pc EXCEPT ![t] = "failed"]
  /\ UNCHANGED <<events, checkpoint, spoilt, view, applied, readAt, closed, group, call, leading,
                 receipt, calls, own, answered>>

(* Mutant: the failed transaction does not invalidate the view. *)
ResetNothing(t) ==
  /\ pc[t] = "failed" /\ CutFree(ProcOf[t])
  /\ pc' = [pc EXCEPT ![t] = "strand"]
  /\ UNCHANGED <<disk, memory, closed, group, call, leading, receipt, calls, own, answered, faults>>

(* The failed writer takes the cut lock again to discard the view. *)
Reset(t) ==
  /\ pc[t] = "failed" /\ CutFree(ProcOf[t])
  /\ ResetView(ProcOf[t])
  /\ pc' = [pc EXCEPT ![t] = "strand"]
  /\ UNCHANGED <<disk, closed, group, call, leading, receipt, calls, own, answered, faults>>

InSeq(s) == {s[i] : i \in DOMAIN s}

(* Mutant: only the captured cut is told of the failure. *)
StrandedBatch(p) == InSeq(batch[p])

(* Who learns of a failure: the cut and everyone queued behind it. *)
Stranded(p) == InSeq(batch[p]) \cup InSeq(queue[p])

Strand(t) ==
  LET p == ProcOf[t] IN
  /\ pc[t] = "strand"
  /\ receipt' = [x \in Thread |-> IF x \in Stranded(p) THEN "failed" ELSE receipt[x]]
  /\ queue' = [queue EXCEPT ![p] = <<>>] /\ batch' = [batch EXCEPT ![p] = <<>>]
  /\ done' = [done EXCEPT ![p] = 0] /\ refused' = [refused EXCEPT ![p] = {}]
  /\ draining' = [draining EXCEPT ![p] = FALSE]
  /\ pc' = [pc EXCEPT ![t] = "waiting"]
  /\ UNCHANGED <<disk, memory, closed, call, leading, calls, own, answered, faults>>

(* failure of a captured item is set when validation refused it. *)
ReceiptOf(p, x) == IF x \in refused[p] THEN "rejected" ELSE "ok"

(* The first thread queued behind the cut gets the baton. *)
Successor(p) == IF queue[p] = <<>> THEN {} ELSE {Head(queue[p])}

(* The group has committed. *)
Publish(t) ==
  LET p == ProcOf[t] IN
  /\ pc[t] = "publish"
  /\ receipt' = [x \in Thread |-> IF x \in InSeq(batch[p]) THEN ReceiptOf(p, x) ELSE receipt[x]]
  /\ leading' = [x \in Thread |-> leading[x] \/ x \in Successor(p)]
  /\ draining' = [draining EXCEPT ![p] = Successor(p) # {}]
  /\ batch' = [batch EXCEPT ![p] = <<>>] /\ done' = [done EXCEPT ![p] = 0]
  /\ refused' = [refused EXCEPT ![p] = {}]
  /\ pc' = [pc EXCEPT ![t] = "waiting"]
  /\ UNCHANGED <<disk, memory, closed, queue, call, calls, own, answered, faults>>

(* The caller gets its receipt. *)
Return(t) ==
  /\ pc[t] = "waiting" /\ receipt[t] # "none"
  /\ Tell(t, call[t], receipt[t] = "ok")
  /\ receipt' = [receipt EXCEPT ![t] = "none"]
  /\ pc' = [pc EXCEPT ![t] = "idle"] /\ call' = [call EXCEPT ![t] = NoCall(t)]
  /\ UNCHANGED <<disk, memory, closed, group, leading, calls, faults>>

-----------------------------------------------------------------------------
(* What _mutation is asked for. *)
Mutation(t, op, f) ==
  /\ pc[t] = "idle" /\ calls < MaxCalls
  /\ op \in {"rollback", "release_flow", "release_resource"} /\ (op = "rollback" => f \in own[t])
  /\ CutFree(ProcOf[t]) /\ WriterFree /\ ~ closed[ProcOf[t]]
  /\ calls' = calls + 1

MutationOf(t, op, f) == [op |-> op, flow |-> f, thread |-> t, nr |-> calls + 1]

(* A thread's failed group commit is still in the view of its process. *)
Poisoned(p) == batch[p] # <<>> /\ \E t \in Thread : ProcOf[t] = p /\ pc[t] = "failed"

(* _mutation: one transaction under the cut lock, a group of its own. *)
Mutate(t, op, f) ==
  LET p == ProcOf[t]
      e == MutationOf(t, op, f)
      c == CutAfterCatchUp(p)
  IN
  /\ Mutation(t, op, f) /\ Replays(p) /\ Accepts(Caught(p), e)
  /\ events' = Append(events, e)
  /\ view' = [view EXCEPT ![p] = Append(Caught(p), e)]
  /\ applied' = [applied EXCEPT ![p] = Len(events) + 1]
  /\ StoreCheckpoint(c, Len(events) + 1, Append(Caught(p), e))
  /\ spoilt' = (spoilt \/ (Due(c, Len(events) + 1) /\ Poisoned(p)))
  /\ cut' = [cut EXCEPT ![p] = CutAfter(c, Len(events) + 1)]
  /\ readAt' = [readAt EXCEPT ![p] = Len(events)]
  /\ Tell(t, e, TRUE)
  /\ UNCHANGED <<written, closed, group, pc, call, leading, receipt, faults>>

(* SQLite, the catch-up or validation raises: the view is discarded before the
   cut lock is released. *)
MutateFails(t, op, f) ==
  LET p == ProcOf[t] IN
  /\ Mutation(t, op, f)
  /\ IF Replays(p) /\ Accepts(Caught(p), MutationOf(t, op, f)) THEN Fault ELSE UNCHANGED faults
  /\ ResetView(p)
  /\ Tell(t, MutationOf(t, op, f), FALSE)
  /\ UNCHANGED <<disk, closed, group, pc, call, leading, receipt>>

(* _read_cut before select, ordering_key or service_revision: catch up when the
   database changed since this process read it.  Where the replay raises, what
   was replayed before stays. *)
Read(p) ==
  /\ CutFree(p) /\ ~ closed[p] /\ readAt[p] # Len(events)
  /\ \E n \in StartOf(p) .. CaughtTo(p) :
       /\ ReplaysTo(p, n)
       /\ n < Len(events) => ~ Accepts(CaughtUpTo(p, n), events[n + 1])
       /\ view' = [view EXCEPT ![p] = CaughtUpTo(p, n)]
       /\ applied' = [applied EXCEPT ![p] = n]
       /\ readAt' = [readAt EXCEPT ![p] = IF n < Len(events) THEN @ ELSE Len(events)]
  /\ cut' = [cut EXCEPT ![p] = CutAfterCatchUp(p)]
  /\ UNCHANGED <<disk, closed, group, threads, calls, answered, faults>>

(* close. *)
Close(p) ==
  /\ CutFree(p) /\ ~ closed[p] /\ Fault
  /\ closed' = [closed EXCEPT ![p] = TRUE]
  /\ UNCHANGED <<disk, memory, group, threads, calls, answered>>

(* The process dies and starts again with a new authority; its threads'
   transitions get no answer. *)
Crash(p) ==
  LET mine(t) == ProcOf[t] = p IN
  /\ Fault
  /\ ResetView(p)
  /\ closed' = [closed EXCEPT ![p] = FALSE]
  /\ queue' = [queue EXCEPT ![p] = <<>>] /\ batch' = [batch EXCEPT ![p] = <<>>]
  /\ done' = [done EXCEPT ![p] = 0] /\ refused' = [refused EXCEPT ![p] = {}]
  /\ written' = IF CutFree(p) THEN written ELSE <<>>
  /\ draining' = [draining EXCEPT ![p] = FALSE]
  /\ pc' = [t \in Thread |-> IF mine(t) THEN "idle" ELSE pc[t]]
  /\ call' = [t \in Thread |-> IF mine(t) THEN NoCall(t) ELSE call[t]]
  /\ leading' = [t \in Thread |-> ~ mine(t) /\ leading[t]]
  /\ receipt' = [t \in Thread |-> IF mine(t) THEN "none" ELSE receipt[t]]
  /\ own' = [t \in Thread |-> IF mine(t) THEN {} ELSE own[t]]
  /\ UNCHANGED <<events, checkpoint, spoilt, calls, answered>>

Drain(t) == \/ Lead(t) \/ Begin(t) \/ BeginFails(t) \/ Insert(t) \/ Refuse(t) \/ InsertFails(t)
            \/ Commit(t) \/ CommitFails(t) \/ Reset(t) \/ Strand(t) \/ Publish(t) \/ Return(t)

Next ==
  \/ \E t \in Thread, f \in Flow, op \in Op :
       Submit(t, op, f) \/ Mutate(t, op, f) \/ MutateFails(t, op, f)
  \/ \E t \in Thread : Drain(t)
  \/ \E p \in Process : Read(p) \/ Close(p) \/ Crash(p)

Spec == Init /\ [][Next]_vars

-----------------------------------------------------------------------------
(* Every variable has the type of the attribute or table it stands for. *)
TypeOK ==
  /\ events \in Seq(Event) /\ written \in Seq(Event)
  /\ checkpoint \in [seq : Nat, view : Seq(Event)] /\ spoilt \in BOOLEAN
  /\ view \in [Process -> Seq(Event)] /\ applied \in [Process -> Nat]
  /\ cut \in [Process -> Nat] /\ readAt \in [Process -> Nat \cup {Unread}]
  /\ closed \in [Process -> BOOLEAN] /\ queue \in [Process -> Seq(Thread)]
  /\ draining \in [Process -> BOOLEAN] /\ batch \in [Process -> Seq(Thread)]
  /\ done \in [Process -> Nat] /\ refused \in [Process -> SUBSET Thread]
  /\ pc \in [Thread -> {"idle", "waiting"} \cup Working] /\ call \in [Thread -> Event]
  /\ leading \in [Thread -> BOOLEAN] /\ receipt \in [Thread -> Receipt]
  /\ own \in [Thread -> SUBSET Flow]
  /\ calls \in 0..MaxCalls /\ answered \subseteq [event : Event, ok : BOOLEAN]
  /\ faults \in 0..MaxFaults

(* The threads of a process that hold its writer baton. *)
Holders(p) == {t \in Thread : ProcOf[t] = p /\ (leading[t] \/ pc[t] \in Working)}

(* The writer baton of _group_transition is never lost and never doubled: one
   thread of a process leads or drains exactly while the process is draining,
   and no transition is queued otherwise. *)
OneBaton ==
  /\ TypeOK
  /\ \A p \in Process : /\ Cardinality(Holders(p)) = IF draining[p] THEN 1 ELSE 0
                        /\ queue[p] # <<>> => draining[p]

(* A caller that got a result has its transition in the journal exactly once,
   and a caller that got an exception does not have it there: the receipt of a
   group commit is true whoever wrote the group and whatever failed. *)
ReceiptsTrue ==
  \A a \in answered :
    Cardinality({i \in DOMAIN events : events[i] = a.event}) = IF a.ok THEN 1 ELSE 0

(* A process that starts from the first event can replay the whole journal: no
   process ever commits an event that the replay would refuse. *)
ReplayAccepted ==
  \A i \in DOMAIN events : Accepts(SubSeq(events, 1, i - 1), events[i])

(* The stored checkpoint is a projection of the journal up to its sequence
   (the comment on _CHECKPOINT_INTERVAL). *)
CheckpointIsProjection ==
  checkpoint.seq <= Len(events) /\ checkpoint.view = SubSeq(events, 1, checkpoint.seq)

(* Whoever takes the cut lock finds the journal's prefix in the view, all of it
   when the reader's version is current: nothing uncommitted, nothing twice and
   no event of another process missed.  The exception is the failed writer
   that has not reset the view yet. *)
ViewCommitted ==
  \A p \in Process :
    CutFree(p) /\ ~ Poisoned(p) =>
      /\ applied[p] <= Len(events) /\ view[p] = SubSeq(events, 1, applied[p])
      /\ readAt[p] = Len(events) => applied[p] = Len(events)

(* What a thread was granted and has not given back is in flight in the view
   that its completion or rollback is validated with, so neither is refused as
   an underflow, however many processes fail or reset their views. *)
OwnedInFlight ==
  \A t \in Thread : \A f \in own[t] :
    LET p == ProcOf[t] IN
    CutFree(p) /\ ~ Poisoned(p) /\ (pc[t] = "idle" \/ t \in InSeq(queue[p])) =>
      InFlight(Caught(p), f) > 0

(* The group commit answers for itself: the baton is neither lost nor doubled,
   receipts are true and every replay accepts the journal, whatever mix of groups,
   single mutations and failures wrote it.  A checkpoint stored between a failed
   group and the reset of its view ends the last of these. *)
JournalSound == OneBaton /\ ReceiptsTrue /\ (spoilt \/ ReplayAccepted)

(* What processes keep beside the journal, their views and the checkpoint, says
   what the journal says, until a view with a failed group in it is stored. *)
ViewsSound == spoilt \/ (CheckpointIsProjection /\ ViewCommitted /\ OwnedInFlight)

-----------------------------------------------------------------------------
(* As long as some thread can go on with its transition, one does: the cut lock
   and SQLite's permit are held for one transaction, and released. *)
Fairness == WF_vars(\E t \in Thread : Drain(t))

FairSpec == Spec /\ Fairness

(* Every queued transition gets its receipt: the baton reaches a thread of every
   nonempty queue, and a failed or closed writer answers all.  Transitions are
   bounded, so time and again no thread is left waiting. *)
ReceiptArrives == []<>(\A t \in Thread : pc[t] = "idle")
=============================================================================
