------------------------------- MODULE Orders -------------------------------
(***************************************************************************)
(* OrdersService (orders/orders.service.ts) at the grain of its awaits.    *)
(*                                                                         *)
(* Every handler loads the order document, computes on its own copy and    *)
(* saves it; between the two it awaits other database calls, e-mail or     *)
(* Telegram, and any other request may run.  save() writes only the fields *)
(* the handler changed with respect to the copy it loaded, and checks      *)
(* nothing about what is stored by then.                                   *)
(*                                                                         *)
(* A request handles one call and is used once, so the number of Requests  *)
(* bounds a behaviour.  With Serial, at most one request at a time works   *)
(* on an order; with MayAbort, a request may stop at any await (a database *)
(* error leaves the handler, or the process restarts).                     *)
(***************************************************************************)
EXTENDS OrderTypes

CONSTANTS
  Requests,   \* request slots, each used for one call
  Serial,     \* TRUE: requests on the same order do not overlap
  MayAbort    \* TRUE: a request may stop between two of its steps

ASSUME RequestsAssumption ==
  /\ IsFiniteSet(Requests)
  /\ Serial \in BOOLEAN
  /\ MayAbort \in BOOLEAN

VARIABLES
  orders,     \* collection "orders"
  stock,      \* stock of every variant
  vtoTokens,  \* vtoTokens of every user
  pc,         \* control state of every request
  job         \* call, order and loaded copy of every started request

vars == <<orders, stock, vtoTokens, pc, job>>

(* new -> loaded -> (saved ->) done, or aborted                            *)
PCs == {"new", "loaded", "saved", "done", "aborted"}

Jobs == [call : Calls, order : Orders, doc : OrderDocs,
         returned : SUBSET Variants]

IdleJob == [call     |-> CHOOSE c \in Calls : TRUE,
            order    |-> CHOOSE o \in Orders : TRUE,
            doc      |-> [status |-> "esperando_pago", proof |-> NoProof],
            returned |-> {}]

TypeOK ==
  /\ orders \in [Orders -> OrderDocs]
  /\ stock \in [Variants -> Int]
  /\ vtoTokens \in [Users -> Nat]
  /\ pc \in [Requests -> PCs]
  /\ job \in [Requests -> Jobs]

Init ==
  /\ orders \in [Orders -> NewOrders]
  /\ stock = InitStock
  /\ vtoTokens = [u \in Users |-> FreeTokens]
  /\ pc = [r \in Requests |-> "new"]
  /\ job = [r \in Requests |-> IdleJob]

-----------------------------------------------------------------------------
InFlight(r) == pc[r] \in {"loaded", "saved"}

(* r handles the operation op and is at control state at.                  *)
At(r, at, op) == pc[r] = at /\ job[r].call.op = op

Goto(r, at) == pc' = [pc EXCEPT ![r] = at]

(* What save() leaves in a field: the handler's value if it differs from   *)
(* the one it loaded, otherwise what is stored now.                        *)
Delta(stored, loaded, value) == IF value # loaded THEN value ELSE stored

(* Saves a handler's new status of the order, the field it changed.        *)
SaveOnlyStatus(r, status) ==
  orders' = [orders EXCEPT ![job[r].order].status =
               Delta(@, job[r].doc.status, status)]

(* findById at the start of every handler, with its early error returns.   *)
FindOrder(r, c, o) ==
  /\ pc[r] = "new"
  /\ Serial => \A q \in Requests : InFlight(q) => job[q].order # o
  /\ Accepts(c, orders[o])
  /\ Goto(r, "loaded")
  /\ job' = [job EXCEPT ![r] = [call |-> c, order |-> o,
                                doc |-> orders[o], returned |-> {}]]
  /\ UNCHANGED <<orders, stock, vtoTokens>>

(* Faulty variant: every call to completada awards, changed or not.        *)
SaveStatusAlwaysAwards(r) ==
  LET j == job[r] IN
  /\ At(r, "loaded", "updateStatus")
  /\ orders' = [orders EXCEPT
       ![j.order].status = Delta(@, j.doc.status, j.call.to),
       ![j.order].proof.status =
          IF SyncsProof(j.call, j.doc) THEN "verified" ELSE @]
  /\ Goto(r, IF j.call.to = "completada" /\ Owner[j.order] # Guest
               THEN "saved" ELSE "done")
  /\ UNCHANGED <<stock, vtoTokens, job>>

(* Faulty variant: the pending proof gets the status of the order.         *)
SaveStatusIntoProof(r) ==
  LET j == job[r] IN
  /\ At(r, "loaded", "updateStatus")
  /\ orders' = [orders EXCEPT
       ![j.order].status = Delta(@, j.doc.status, j.call.to),
       ![j.order].proof.status = IF SyncsProof(j.call, j.doc) THEN j.call.to ELSE @]
  /\ Goto(r, IF Awards(j.call, j.order, j.doc) THEN "saved" ELSE "done")
  /\ UNCHANGED <<stock, vtoTokens, job>>

(* updateStatus up to its save.  The proof sync touches the field          *)
(* paymentProof.status alone.                                              *)
SaveStatus(r) ==
  LET j == job[r] IN
  /\ At(r, "loaded", "updateStatus")
  /\ orders' = [orders EXCEPT
       ![j.order].status = Delta(@, j.doc.status, j.call.to),
       ![j.order].proof.status =
          IF SyncsProof(j.call, j.doc) THEN "verified" ELSE @]
  /\ Goto(r, IF Awards(j.call, j.order, j.doc) THEN "saved" ELSE "done")
  /\ UNCHANGED <<stock, vtoTokens, job>>

(* updateStatus after the notification: the $inc of the owner's tokens.    *)
AwardTokens(r) ==
  /\ At(r, "saved", "updateStatus")
  /\ vtoTokens' = [vtoTokens EXCEPT ![Owner[job[r].order]] =
                     @ + TokensPerPurchase]
  /\ Goto(r, "done")
  /\ UNCHANGED <<orders, stock, job>>

(* updatePaymentProof: the proof is assigned, and saved, as a whole; the   *)
(* e-mail about it is awaited before the save.                             *)
SaveProof(r) ==
  LET j == job[r] IN
  /\ At(r, "loaded", "updatePaymentProof")
  /\ orders' = [orders EXCEPT
       ![j.order].status =
          Delta(@, j.doc.status, StatusAfterProof(j.call, j.doc)),
       ![j.order].proof =
          Delta(@, j.doc.proof, MergedProof(j.call, j.doc.proof))]
  /\ Goto(r, "done")
  /\ UNCHANGED <<stock, vtoTokens, job>>

(* Faulty variant: a status that is not in the schema's enum.              *)
SaveTrackingMisspelt(r) ==
  /\ At(r, "loaded", "updateTracking")
  /\ SaveOnlyStatus(r, "enviado")
  /\ Goto(r, "done")
  /\ UNCHANGED <<stock, vtoTokens, job>>

(* updateTracking: adding a tracking number also marks the order shipped.  *)
SaveTracking(r) ==
  /\ At(r, "loaded", "updateTracking")
  /\ SaveOnlyStatus(r, "enviada")
  /\ Goto(r, "done")
  /\ UNCHANGED <<stock, vtoTokens, job>>

(* Faulty variant: the stock is written from a value read earlier.         *)
ReturnItemFromStaleRead(r, v) ==
  /\ At(r, "loaded", "cancelOrder")
  /\ v \in Items(job[r].order) \ job[r].returned
  /\ stock' = [stock EXCEPT ![v] = InitStock[v] + Qty[job[r].order][v]]
  /\ job' = [job EXCEPT ![r].returned = @ \cup {v}]
  /\ UNCHANGED <<orders, vtoTokens, pc>>

(* cancelOrder: one $inc per item ...                                      *)
ReturnItem(r, v) ==
  /\ At(r, "loaded", "cancelOrder")
  /\ v \in Items(job[r].order) \ job[r].returned
  /\ stock' = [stock EXCEPT ![v] = @ + Qty[job[r].order][v]]
  /\ job' = [job EXCEPT ![r].returned = @ \cup {v}]
  /\ UNCHANGED <<orders, vtoTokens, pc>>

(* Faulty variant: the status is saved without waiting for the items.      *)
SaveCancelledEarly(r) ==
  /\ At(r, "loaded", "cancelOrder")
  /\ SaveOnlyStatus(r, "cancelada")
  /\ Goto(r, "done")
  /\ UNCHANGED <<stock, vtoTokens, job>>

(* Faulty variant: the save is dropped if the order changed meanwhile.     *)
SaveCancelledIfUnchanged(r) ==
  /\ At(r, "loaded", "cancelOrder")
  /\ Items(job[r].order) \subseteq job[r].returned
  /\ IF orders[job[r].order] = job[r].doc
       THEN SaveOnlyStatus(r, "cancelada") ELSE UNCHANGED orders
  /\ Goto(r, "done")
  /\ UNCHANGED <<stock, vtoTokens, job>>

(* ... and the save of the status when all items are back.                 *)
SaveCancelled(r) ==
  /\ At(r, "loaded", "cancelOrder")
  /\ Items(job[r].order) \subseteq job[r].returned
  /\ SaveOnlyStatus(r, "cancelada")
  /\ Goto(r, "done")
  /\ UNCHANGED <<stock, vtoTokens, job>>

SaveArchived(r) ==
  /\ At(r, "loaded", "archiveOrder")
  /\ SaveOnlyStatus(r, "archivada")
  /\ Goto(r, "done")
  /\ UNCHANGED <<stock, vtoTokens, job>>

SaveUnarchived(r) ==
  /\ At(r, "loaded", "unarchiveOrder")
  /\ SaveOnlyStatus(r, "completada")
  /\ Goto(r, "done")
  /\ UNCHANGED <<stock, vtoTokens, job>>

(* A database call of the handler throws, or the process restarts.         *)
Abort(r) ==
  /\ MayAbort
  /\ InFlight(r)
  /\ Goto(r, "aborted")
  /\ UNCHANGED <<orders, stock, vtoTokens, job>>

-----------------------------------------------------------------------------
(* The steps a started handler takes by itself.                            *)
Continue(r) ==
  \/ SaveStatus(r)
  \/ AwardTokens(r)
  \/ SaveProof(r)
  \/ SaveTracking(r)
  \/ \E v \in Variants : ReturnItem(r, v)
  \/ SaveCancelled(r)
  \/ SaveArchived(r)
  \/ SaveUnarchived(r)

Next ==
  \E r \in Requests :
    \/ \E c \in Calls, o \in Orders : FindOrder(r, c, o)
    \/ Continue(r)
    \/ Abort(r)

Spec == Init /\ [][Next]_vars

(* The event loop resumes every handler whose await has settled.  Nobody   *)
(* is obliged to make a call.                                              *)
FairSpec == Spec /\ \A r \in Requests : WF_vars(Continue(r))
=============================================================================
