---------------------------- MODULE OrdersProps -----------------------------
(***************************************************************************)
(* Correctness of OrdersService: properties of module Orders, and the      *)
(* refinement of OrderLifecycle.                                           *)
(***************************************************************************)
EXTENDS Orders, Functions

Op(r) == job[r].call.op

(* r carried its call through to the end.                                  *)
Finished(r, op, o) == pc[r] = "done" /\ Op(r) = op /\ job[r].order = o

(* The cancellations, whatever became of them, that returned v to stock.   *)
ReturnsOf(v) ==
  {r \in Requests : pc[r] # "new" /\ Op(r) = "cancelOrder"
                                  /\ v \in job[r].returned}

(* The requests that paid, or still have to pay, tokens to u.              *)
RewardsOf(u, at) ==
  {r \in Requests : /\ pc[r] = at
                    /\ Op(r) = "updateStatus"
                    /\ Owner[job[r].order] = u
                    /\ Awards(job[r].call, job[r].order, job[r].doc)}

(* The pieces of v among the items of the orders of the requests rs.       *)
Pieces(v, rs) ==
  SumFunctionOnSet([r \in Requests |-> Qty[job[r].order][v]], rs)

-----------------------------------------------------------------------------
(* A cancelled order has all its items back in stock: cancelOrder returns  *)
(* every item before it shows the order cancelled, so neither a failure    *)
(* between the two nor any other request on the order can leave a          *)
(* cancelled order whose stock is still held.  The exception is an order   *)
(* set to cancelada by updateStatus, which returns nothing.                *)
CancelledStockReturned ==
  \A o \in Orders : orders[o].status = "cancelada" =>
    \E r \in Requests :
      \/ /\ Finished(r, "cancelOrder", o)
         /\ Items(o) \subseteq job[r].returned
      \/ /\ Finished(r, "updateStatus", o)
         /\ job[r].call.to = "cancelada"

(* No returned piece is lost or counted twice when cancellations of        *)
(* several orders interleave on one variant, or stop half way: the stock   *)
(* is the initial one plus what each cancellation returned so far.         *)
StockExact ==
  \A v \in Variants :
    stock[v] = InitStock[v] + Pieces(v, ReturnsOf(v))

(* Tokens are only paid by a status call that moved its order to completada*)
(* from another status, once for each such call, and never for an order    *)
(* of a guest.                                                             *)
TokensExact ==
  \A u \in Users :
    vtoTokens[u] = FreeTokens
                   + TokensPerPurchase * Cardinality(RewardsOf(u, "done"))

(* A cancellation is only undone on purpose: a cancelled order changes its *)
(* status when somebody sets, ships, archives or unarchives it, or by an   *)
(* approval that loaded the order while it waited for payment.  Uploads,   *)
(* rejections, gateway notices and other cancellations that loaded it      *)
(* before the cancellation and save after it do not bring the earlier      *)
(* status back.                                                            *)
CancelIsFinal ==
  [][\A o \in Orders :
       /\ orders[o].status = "cancelada"
       /\ orders'[o].status # "cancelada"
       => \E r \in Requests :
            /\ pc[r] = "loaded"
            /\ job[r].order = o
            /\ \/ Op(r) \in {"updateStatus", "updateTracking",
                             "archiveOrder", "unarchiveOrder"}
               \/ /\ Op(r) = "updatePaymentProof"
                  /\ job[r].call.status = "verified"
                  /\ job[r].doc.status = "esperando_pago"]_vars

(* With one request at a time on an order, an uploaded file is only ever   *)
(* replaced by another upload: reviews, gateway notices and status changes *)
(* keep it.                                                                *)
UploadKept ==
  [][\A o \in Orders :
       orders'[o].proof.url # orders[o].proof.url =>
         \E r \in Requests :
           /\ At(r, "loaded", "updatePaymentProof")
           /\ job[r].order = o
           /\ job[r].call.url # None
           /\ job[r].call.url = orders'[o].proof.url]_vars

(* With one request at a time on an order, marking it paid by updateStatus *)
(* leaves no proof waiting for review.                                     *)
PaidMarkVerifies ==
  [][\A r \in Requests :
       /\ At(r, "loaded", "updateStatus")
       /\ pc'[r] \in {"saved", "done"}
       /\ job[r].call.to \in PaidStatuses
       => orders'[job[r].order].proof.status # "pending"]_vars

(* The service looks atomic: with one request at a time on an order and no *)
(* failures, its handlers implement OrderLifecycle.  Pieces returned by a  *)
(* cancellation that has not yet saved its status do not count, tokens a   *)
(* completion still has to pay do.                                         *)
CommittedStock ==
  [v \in Variants |->
     stock[v] - Pieces(v, {r \in ReturnsOf(v) : InFlight(r)})]

PromisedTokens ==
  [u \in Users |->
     vtoTokens[u] + TokensPerPurchase * Cardinality(RewardsOf(u, "saved"))]

Lifecycle == INSTANCE OrderLifecycle
               WITH stock <- CommittedStock, vtoTokens <- PromisedTokens

ImplementsLifecycle == Lifecycle!Spec

-----------------------------------------------------------------------------
(* Without failures, an order a cancellation has begun to return items of  *)
(* does become cancelled in the end, whatever else happens to the order in *)
(* the meantime.                                                           *)
CancelCompletes ==
  \A o \in Orders :
    (\E r \in Requests : /\ At(r, "loaded", "cancelOrder")
                         /\ job[r].order = o
                         /\ job[r].returned # {})
      ~> (orders[o].status = "cancelada")

-----------------------------------------------------------------------------
(* What comments of the repository say of the handlers, and overlapping    *)
(* or repeated requests refute.                                            *)

(* orders.service.ts:410 "Only advance to 'pagada' if currently waiting    *)
(* for payment": the save of a verification moves no order that is not     *)
(* waiting for payment at that moment.                                     *)
ApprovalOnlyFromWaiting ==
  [][\A r \in Requests :
       LET o == job[r].order IN
       /\ At(r, "loaded", "updatePaymentProof")
       /\ pc'[r] = "done"
       /\ orders'[o].status # orders[o].status
       => orders[o].status = "esperando_pago"]_vars

(* orders.service.ts:537 "Order is already cancelled": no item goes back   *)
(* to stock for an order that is cancelled already.                        *)
NoReturnOnceCancelled ==
  [][\A r \in Requests :
       /\ At(r, "loaded", "cancelOrder")
       /\ job'[r].returned # job[r].returned
       => orders[job[r].order].status # "cancelada"]_vars
=============================================================================
