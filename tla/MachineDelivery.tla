--------------------------- MODULE MachineDelivery ---------------------------
(***************************************************************************)
(* The outbox of a machine, the inbox of the machines it addresses, and    *)
(* the delivery of envelopes between them.                                 *)
(*                                                                         *)
(* Every outbox operation holds one lock across threads and processes, so  *)
(* operations do not interleave; but enqueue writes two files for each     *)
(* emitted command, and a crash between two writes leaves the first ones   *)
(* behind and frees the lock.  Journal recovery enqueues accepted commits  *)
(* again, any number of times.  The dispatcher that carries envelopes is   *)
(* outside the kernel: it may send what pending offers again and again,    *)
(* late or never, and it numbers its attempts.  Several may be at work.    *)
(***************************************************************************)
EXTENDS Naturals, Sequences

CONSTANTS Commit,
          Envelope,
          Emitted,     \* commit -> its envelopes, in order
          MaxAttempt   \* bound: delivery attempts

ASSUME DeliveryAssumption ==
  /\ Emitted \in [Commit -> Seq(Envelope)]
  /\ MaxAttempt \in Nat

VARIABLES envelopes,  \* envelope files of the outbox
          receipts,   \* envelope -> receipt file, or none
          writing,    \* files the enqueue that holds the lock has yet to write
          sent,       \* envelopes in transit; none ever leaves
          inbox,      \* envelope files of the inbox
          admitted    \* envelope -> times accept let it through

deliveryVars == <<envelopes, receipts, writing, sent, inbox, admitted>>

NoReceipt == <<>>
Status    == {"pending", "delivered", "failed", "unknown"}
Receipt   == [status : Status, attempt : 0..MaxAttempt]

DeliveryInit ==
  /\ envelopes = {} /\ inbox = {}
  /\ receipts = [x \in Envelope |-> NoReceipt]
  /\ writing = <<>>
  /\ sent = {}
  /\ admitted = [x \in Envelope |-> 0]

LockFree == writing = <<>>

FirstReceipt   == [status |-> "pending", attempt |-> 0]

-----------------------------------------------------------------------------
(* The files enqueue visits for a commit: envelope, then receipt, of each
   emitted command. *)
Files(c) ==
  [i \in 1..(2 * Len(Emitted[c])) |->
     <<IF i % 2 = 1 THEN "envelope" ELSE "receipt", Emitted[c][(i + 1) \div 2]>>]

(* enqueue, called by the executor after its append and by reconcile for every
   commit of the journal. *)
Enqueue(c) ==
  /\ LockFree
  /\ writing' = Files(c)
  /\ UNCHANGED <<envelopes, receipts, sent, inbox, admitted>>

(* Mutant: enqueue puts the first receipt back. *)
ReceiptRewritten(x) == FirstReceipt

(* The receipt file after enqueue has visited it. *)
ReceiptKept(x) == IF receipts[x] = NoReceipt THEN FirstReceipt ELSE receipts[x]

(* enqueue visits its next file, and writes it if it is not there. *)
WriteFile ==
  /\ ~ LockFree
  /\ LET kind == Head(writing)[1]
         x    == Head(writing)[2]
     IN /\ envelopes' = IF kind = "envelope" THEN envelopes \cup {x} ELSE envelopes
        /\ receipts' = IF kind = "receipt" THEN [receipts EXCEPT ![x] = ReceiptKept(x)] ELSE receipts
  /\ writing' = Tail(writing)
  /\ UNCHANGED <<sent, inbox, admitted>>

(* The process dies inside enqueue. *)
Crash ==
  /\ ~ LockFree
  /\ writing' = <<>>
  /\ UNCHANGED <<envelopes, receipts, sent, inbox, admitted>>

(* Mutant: an envelope without its receipt file is passed over. *)
ReceiptRequired(x) == IF receipts[x] = NoReceipt THEN [FirstReceipt EXCEPT !.status = "delivered"] ELSE receipts[x]

(* _load_receipt: an envelope whose receipt was never written is pending. *)
LoadReceipt(x) == IF receipts[x] = NoReceipt THEN FirstReceipt ELSE receipts[x]

(* pending: every envelope not known to be delivered. *)
Pending == {x \in envelopes : LoadReceipt(x).status # "delivered"}

(* The dispatcher reads pending and sends an envelope. *)
Dispatch(x) ==
  /\ LockFree /\ x \in Pending
  /\ sent' = sent \cup {x}
  /\ UNCHANGED <<envelopes, receipts, writing, inbox, admitted>>

(* Mutant: the inbox lets every copy through. *)
AdmitsAll(x) == TRUE

(* accept answers True: the envelope is not there yet. *)
Admits(x) == x \notin inbox

(* accept, in one locked step, for any copy in transit. *)
Accept(x) ==
  /\ x \in sent
  /\ inbox' = inbox \cup {x}
  /\ admitted' = IF Admits(x) THEN [admitted EXCEPT ![x] = @ + 1] ELSE admitted
  /\ UNCHANGED <<envelopes, receipts, writing, sent>>

(* require_delivery_receipt_transition for a receipt that differs. *)
Transition(cur, new) ==
  /\ cur.status # "delivered"
  /\ \/ new.attempt > cur.attempt
     \/ new.attempt = cur.attempt /\ cur.status = "unknown" /\ new.status \in {"delivered", "failed"}

(* mark: the dispatcher says nothing of an envelope it has not sent and
   "delivered" only after accept (True and False both mean it is there); an
   answer that was lost or is late leaves it with the other outcomes. *)
Mark(x, new) ==
  /\ LockFree
  /\ x \in sent
  /\ new.status = "delivered" => x \in inbox
  /\ x \in envelopes
  /\ Transition(LoadReceipt(x), new)
  /\ receipts' = [receipts EXCEPT ![x] = new]
  /\ UNCHANGED <<envelopes, writing, sent, inbox, admitted>>

DeliveryNext ==
  \/ \E c \in Commit : Enqueue(c)
  \/ WriteFile \/ Crash
  \/ \E x \in Envelope : Dispatch(x) \/ Accept(x) \/ \E new \in Receipt : Mark(x, new)

DeliverySpec == DeliveryInit /\ [][DeliveryNext]_deliveryVars

(* An operation that has started ends unless its process dies, the dispatcher
   keeps offering what is pending and a copy in transit is accepted at last. *)
Fairness ==
  /\ WF_deliveryVars(WriteFile)
  /\ \A x \in Envelope : SF_deliveryVars(x \notin sent /\ Dispatch(x)) /\ WF_deliveryVars(x \notin inbox /\ Accept(x))

FairSpec == DeliverySpec /\ Fairness

-----------------------------------------------------------------------------
(* Files, receipts and counters have the types the code writes. *)
DeliveryTypeOK ==
  /\ envelopes \subseteq Envelope /\ inbox \subseteq sent
  /\ \A x \in Envelope : receipts[x] # NoReceipt => receipts[x] \in Receipt /\ x \in envelopes
  /\ \A i \in DOMAIN writing : writing[i] \in {"envelope", "receipt"} \X Envelope

(* However often recovery enqueues a commit again and however late receipts
   come in, what the outbox knows of an envelope only grows: no attempt number
   goes back, a delivered envelope is never offered again, and within one
   attempt only an unknown outcome is settled. *)
KnowledgeGrows ==
  [][\A x \in envelopes :
       LET cur == LoadReceipt(x)
           new == LoadReceipt(x)'
       IN \/ new = cur
          \/ /\ cur.status # "delivered" /\ new.attempt >= cur.attempt
             /\ new.attempt = cur.attempt => cur.status = "unknown"]_deliveryVars

(* Copies, retries and crashes let no envelope through the inbox twice, and an
   envelope let through is one the outbox holds durably. *)
AdmittedOnce ==
  /\ DeliveryTypeOK
  /\ \A x \in Envelope : admitted[x] <= 1 /\ (admitted[x] = 1 => x \in envelopes)

(* An envelope whose file was written reaches the inbox, even when the crash of
   enqueue left it without a receipt and nobody enqueues it again. *)
EventuallyAccepted == \A x \in Envelope : x \in envelopes ~> x \in inbox
==============================================================================
