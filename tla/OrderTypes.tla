----------------------------- MODULE OrderTypes -----------------------------
(***************************************************************************)
(* The documents the order service works on and the calls it accepts: the  *)
(* Order and PaymentProof schemas (database/schemas.ts) and the pure part  *)
(* of the handlers of orders/orders.service.ts, shared by the handler      *)
(* level specification Orders and the atomic one OrderLifecycle.           *)
(*                                                                         *)
(* Data is abstracted to what the handlers tell apart: a file, a payment   *)
(* method or a rejection reason is a value of a small set, None stands for *)
(* an absent (undefined) field.  The proof's "reference" is handled by the *)
(* code exactly as "method" is and is not kept separately.                 *)
(***************************************************************************)
EXTENDS Integers, FiniteSets

CONSTANTS
  Orders,     \* ids of existing orders
  Variants,   \* ids of the product variants in stock
  Users,      \* ids of registered users
  Guest,      \* the owner of an order without a user
  Owner,      \* Owner[o]: the user of order o, or Guest
  Qty,        \* Qty[o][v]: pieces of variant v among the items of order o
  InitStock,  \* InitStock[v]: stock of v when the model starts
  Urls,       \* proof files customers upload
  Methods,    \* payment methods ("type" of the proof dto)
  Reasons,    \* reasons a proof dto gives
  Calls       \* the calls the environment makes in a configuration

None == "none"

Statuses == {"esperando_pago", "pagada", "en_produccion", "enviada",
             "completada", "cancelada", "archivada"}

PaidStatuses == {"pagada", "en_produccion", "enviada", "completada"}

ProofStatuses == {"pending", "verified", "rejected"}

(* The paymentProof subdocument; NoProof is an order that has none.        *)
Proofs == [url    : Urls \cup {None},
           method : Methods \cup {None},
           status : ProofStatuses \cup {None},
           reason : Reasons \cup {None}]

NoProof == [url |-> None, method |-> None, status |-> None, reason |-> None]

OrderDocs == [status : Statuses, proof : Proofs]

(* What create leaves in the database: an online order waits for payment,  *)
(* a manual sale is already paid; neither has a proof.                     *)
NewOrders == {[status |-> s, proof |-> NoProof] :
                s \in {"esperando_pago", "pagada"}}

(***************************************************************************)
(* The calls: the order routes of orders.controller.ts, the Telegram       *)
(* buttons and the payment webhooks all end in one of these.  A status of  *)
(* None in a proof dto is one the caller left out.                         *)
(***************************************************************************)
StatusCalls == [op : {"updateStatus"}, to : Statuses]

ProofCalls == [op     : {"updatePaymentProof"},
               url    : Urls \cup {None},
               method : Methods \cup {None},
               status : ProofStatuses \cup {None},
               reason : Reasons \cup {None}]

PlainCalls == [op : {"updateTracking", "cancelOrder",
                     "archiveOrder", "unarchiveOrder"}]

AllCalls == StatusCalls \cup ProofCalls \cup PlainCalls

ASSUME OrdersAssumption ==
  /\ Orders # {} /\ IsFiniteSet(Orders)
  /\ IsFiniteSet(Variants)
  /\ Guest \notin Users
  /\ Owner \in [Orders -> Users \cup {Guest}]
  /\ Qty \in [Orders -> [Variants -> Nat]]
  /\ InitStock \in [Variants -> Int]
  /\ Calls # {} /\ Calls \subseteq AllCalls

-----------------------------------------------------------------------------
(* The items of an order, one per variant it contains.                     *)
Items(o) == {v \in Variants : Qty[o][v] > 0}

(* The ||-default of JavaScript: the first value unless it is absent.      *)
Or(first, second) == IF first # None THEN first ELSE second

(* Calls that return an error right after loading the order, without       *)
(* touching anything: a second cancel, an unarchive of an order that is    *)
(* not archived.                                                           *)
Accepts(call, doc) ==
  /\ call.op = "cancelOrder" => doc.status # "cancelada"
  /\ call.op = "unarchiveOrder" => doc.status = "archivada"

(* Faulty variant: a dto without a file drops the stored one.              *)
MergedProofDropsUrl(call, proof) ==
  [url    |-> call.url,
   method |-> Or(call.method, proof.method),
   status |-> Or(Or(call.status, proof.status), "pending"),
   reason |-> Or(call.reason,
                 IF call.status = "verified" THEN None ELSE proof.reason)]

(* The proof a proof dto leaves, merged with the proof that was loaded.  A *)
(* verification clears the earlier reason, any other update keeps it.      *)
MergedProof(call, proof) ==
  [url    |-> Or(call.url, proof.url),
   method |-> Or(call.method, proof.method),
   status |-> Or(Or(call.status, proof.status), "pending"),
   reason |-> Or(call.reason,
                 IF call.status = "verified" THEN None ELSE proof.reason)]

(* Faulty variant: a rejected proof puts the order back to waiting.        *)
StatusAfterProofReopens(call, doc) ==
  CASE call.status = "rejected" -> "esperando_pago"
    [] call.status = "verified" /\ doc.status = "esperando_pago" -> "pagada"
    [] OTHER -> doc.status

(* The order status after a proof dto: only a verification moves it, and   *)
(* only from esperando_pago.                                               *)
StatusAfterProof(call, doc) ==
  IF call.status = "verified" /\ doc.status = "esperando_pago"
    THEN "pagada" ELSE doc.status

(* Faulty variant: only pagada is taken for a paid status.                 *)
SyncsProofOnlyPagada(call, doc) ==
  call.to = "pagada" /\ doc.proof.status = "pending"

(* A status call to a paid status verifies a proof that is still pending.  *)
SyncsProof(call, doc) ==
  call.to \in PaidStatuses /\ doc.proof.status = "pending"

(* A status call awards the owner's try-on tokens when it moves the order  *)
(* of a registered user to completada from another status.                 *)
Awards(call, o, doc) ==
  /\ call.to = "completada"
  /\ doc.status # "completada"
  /\ Owner[o] # Guest

FreeTokens == 4
TokensPerPurchase == 5
=============================================================================
