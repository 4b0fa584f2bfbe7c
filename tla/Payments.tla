------------------------------ MODULE Payments ------------------------------
(***************************************************************************)
(* PaymentService (payments/payment.service.ts) on top of OrdersService:   *)
(* customers open checkout sessions at a payment gateway, the gateway      *)
(* reports what became of them, and every report is handled by calls of    *)
(* OrdersService, interleaved with the calls of people.                    *)
(*                                                                         *)
(* The gateways (Onvopay and PayPal) are external.  They deliver a report  *)
(* at least once, possibly again, and possibly after later ones.  Every    *)
(* delivery has two request slots of module Orders, one for each call that *)
(* its handler makes at most.                                              *)
(***************************************************************************)
EXTENDS Orders

CONSTANTS
  Attempts,     \* payments customers initiate
  Kinds,        \* the reports the gateway makes in a configuration
  Copies,       \* Copies[kind]: deliveries of one report of that kind
  People,       \* request slots left to customers and administrators
  PeopleCalls   \* the calls they make

VARIABLES
  attempts,     \* what the gateway holds of every attempt, and its order
  reports       \* reports the gateway has begun to deliver

pvars == <<orders, stock, vtoTokens, pc, job, attempts, reports>>

(* A capture is reported with the gateway's id of it, or without one.      *)
Captures == {"captured", "capturedNoId"}

AllKinds == Captures \cup {"failed", "deferred"}

Deliveries ==
  UNION {{<<a, kind, n>> : n \in 1..Copies[kind]} :
           a \in Attempts, kind \in Kinds}

StatusOf(d) == <<"status", d>>
ProofOf(d) == <<"proof", d>>

Paid == [op |-> "updateStatus", to |-> "pagada"]

(* What each report makes of the proof.                                    *)
ProofCall(kind) ==
  [op     |-> "updatePaymentProof",
   url    |-> None,
   method |-> "onvopay",
   status |-> CASE kind \in Captures -> "verified"
                [] kind = "failed"   -> "rejected"
                [] kind = "deferred" -> "pending",
   reason |-> CASE kind \in Captures -> None
                [] kind = "failed"   -> "gateway"
                [] kind = "deferred" -> "sinpe"]

ASSUME PaymentsAssumption ==
  /\ Kinds \subseteq AllKinds
  /\ Copies \in [Kinds -> Nat]
  /\ PeopleCalls \subseteq Calls
  /\ {Paid} \cup {ProofCall(k) : k \in Kinds} \subseteq Calls
  /\ Requests = People \cup {StatusOf(d) : d \in Deliveries}
                       \cup {ProofOf(d) : d \in Deliveries}
  /\ \A d \in Deliveries : StatusOf(d) \notin People /\ ProofOf(d) \notin People
  /\ ~ Serial

PaymentsInit ==
  /\ Init
  /\ attempts \in [Attempts -> [at : {"new"}, order : Orders]]
  /\ reports = {}

PaymentsTypeOK ==
  /\ TypeOK
  /\ attempts \in [Attempts -> [at    : {"new", "checked", "open", "captured"},
                                order : Orders]]
  /\ reports \subseteq Attempts \X Kinds

-----------------------------------------------------------------------------
Moves(a, from, to) ==
  /\ attempts[a].at = from
  /\ attempts' = [attempts EXCEPT ![a].at = to]

(* initiatePayment: the order is loaded and must not be paid ...           *)
Initiate(a) ==
  /\ orders[attempts[a].order].status \notin PaidStatuses
  /\ Moves(a, "new", "checked")
  /\ UNCHANGED <<reports, vars>>

(* ... then the gateway opens a session, of which the order keeps nothing. *)
OpenSession(a) ==
  /\ Moves(a, "checked", "open")
  /\ UNCHANGED <<reports, vars>>

(* The gateway: a session can fail and be tried again, wait for a transfer *)
(* and, once, capture the money.                                           *)
Report(a, kind) ==
  /\ <<a, kind>> \notin reports
  /\ IF kind \in Captures
       THEN Moves(a, "open", "captured")
       ELSE attempts[a].at = "open" /\ UNCHANGED attempts
  /\ reports' = reports \cup {<<a, kind>>}
  /\ UNCHANGED vars

-----------------------------------------------------------------------------
Started(d) == pc[StatusOf(d)] # "new" \/ pc[ProofOf(d)] # "new"

(* The gateway delivers a report that was not delivered, or again.         *)
Delivers(d) ==
  /\ <<d[1], d[2]>> \in reports
  /\ ~ Started(d)
  /\ d[3] > 1 => Started(<<d[1], d[2], d[3] - 1>>)

Call(request, c, d) == FindOrder(request, c, attempts[d[1]].order)

(* Faulty variant: only a deferred payment is not taken for a captured one.*)
ReceiveFailedAsPaid(d) ==
  /\ Delivers(d)
  /\ IF d[2] # "deferred"
       THEN Call(StatusOf(d), Paid, d)
       ELSE Call(ProofOf(d), ProofCall(d[2]), d)
  /\ UNCHANGED <<attempts, reports>>

(* Faulty variant: an order with a proof is not marked paid again.         *)
ReceiveIfUnproven(d) ==
  /\ Delivers(d)
  /\ orders[attempts[d[1]].order].proof = NoProof
  /\ IF d[2] \in Captures
       THEN Call(StatusOf(d), Paid, d)
       ELSE Call(ProofOf(d), ProofCall(d[2]), d)
  /\ UNCHANGED <<attempts, reports>>

(* handleWebhook, handlePayPalWebhook: a capture sets the status, the      *)
(* other reports set the proof ...                                         *)
Receive(d) ==
  /\ Delivers(d)
  /\ IF d[2] \in Captures
       THEN Call(StatusOf(d), Paid, d)
       ELSE Call(ProofOf(d), ProofCall(d[2]), d)
  /\ UNCHANGED <<attempts, reports>>

(* Faulty variant: nothing to record of an order that has a proof.         *)
RecordFirstCapture(d) ==
  /\ d[2] = "captured"
  /\ pc[StatusOf(d)] = "done"
  /\ job[StatusOf(d)].doc.proof = NoProof
  /\ Call(ProofOf(d), ProofCall(d[2]), d)
  /\ UNCHANGED <<attempts, reports>>

(* ... and a capture that has an id then verifies the proof.  An error of  *)
(* either call is caught and answered like a success, so nothing retries.  *)
RecordCapture(d) ==
  /\ d[2] = "captured"
  /\ pc[StatusOf(d)] = "done"
  /\ Call(ProofOf(d), ProofCall(d[2]), d)
  /\ UNCHANGED <<attempts, reports>>

Webhook(d) == Receive(d) \/ RecordCapture(d)

-----------------------------------------------------------------------------
PaymentsNext ==
  \/ \E a \in Attempts :
       \/ Initiate(a)
       \/ OpenSession(a)
       \/ \E kind \in Kinds : Report(a, kind)
  \/ \E d \in Deliveries : Webhook(d)
  \/ /\ \/ \E r \in People, c \in PeopleCalls, o \in Orders : FindOrder(r, c, o)
        \/ \E r \in Requests : Continue(r) \/ Abort(r)
     /\ UNCHANGED <<attempts, reports>>

PaymentsSpec == PaymentsInit /\ [][PaymentsNext]_pvars

(* The gateway delivers every report at least once, and the event loop     *)
(* resumes the handlers.                                                   *)
FairPaymentsSpec ==
  /\ PaymentsSpec
  /\ \A d \in Deliveries : WF_pvars(Webhook(d) /\ (d[3] = 1 \/ Started(d)))
  /\ \A r \in Requests : WF_pvars(Continue(r) /\ UNCHANGED <<attempts, reports>>)
=============================================================================
