--------------------------- MODULE OrderLifecycle ---------------------------
(***************************************************************************)
(* What OrdersService promises to its callers: every call takes effect at  *)
(* one instant, on the order as it is at that instant.  A cancellation     *)
(* returns all the items with the status change, a completion pays the     *)
(* owner's try-on tokens with it.  The handlers of module Orders implement *)
(* this when the requests on one order do not overlap.                     *)
(***************************************************************************)
EXTENDS OrderTypes

VARIABLES orders, stock, vtoTokens

vars == <<orders, stock, vtoTokens>>

Init ==
  /\ orders \in [Orders -> NewOrders]
  /\ stock = InitStock
  /\ vtoTokens = [u \in Users |-> FreeTokens]

SetStatus(o, status) == orders' = [orders EXCEPT ![o].status = status]

UpdateStatus(o, c) ==
  /\ c.op = "updateStatus"
  /\ orders' = [orders EXCEPT
       ![o].status = c.to,
       ![o].proof.status = IF SyncsProof(c, orders[o]) THEN "verified" ELSE @]
  /\ vtoTokens' = [u \in Users |->
       IF u = Owner[o] /\ Awards(c, o, orders[o])
         THEN vtoTokens[u] + TokensPerPurchase ELSE vtoTokens[u]]
  /\ UNCHANGED stock

UpdatePaymentProof(o, c) ==
  /\ c.op = "updatePaymentProof"
  /\ orders' = [orders EXCEPT
       ![o] = [status |-> StatusAfterProof(c, @),
               proof  |-> MergedProof(c, @.proof)]]
  /\ UNCHANGED <<stock, vtoTokens>>

UpdateTracking(o, c) ==
  /\ c.op = "updateTracking"
  /\ SetStatus(o, "enviada")
  /\ UNCHANGED <<stock, vtoTokens>>

CancelOrder(o, c) ==
  /\ c.op = "cancelOrder"
  /\ SetStatus(o, "cancelada")
  /\ stock' = [v \in Variants |-> stock[v] + Qty[o][v]]
  /\ UNCHANGED vtoTokens

ArchiveOrder(o, c) ==
  /\ c.op = "archiveOrder"
  /\ SetStatus(o, "archivada")
  /\ UNCHANGED <<stock, vtoTokens>>

UnarchiveOrder(o, c) ==
  /\ c.op = "unarchiveOrder"
  /\ SetStatus(o, "completada")
  /\ UNCHANGED <<stock, vtoTokens>>

Next ==
  \E o \in Orders, c \in Calls :
    /\ Accepts(c, orders[o])
    /\ \/ UpdateStatus(o, c)
       \/ UpdatePaymentProof(o, c)
       \/ UpdateTracking(o, c)
       \/ CancelOrder(o, c)
       \/ ArchiveOrder(o, c)
       \/ UnarchiveOrder(o, c)

Spec == Init /\ [][Next]_vars
=============================================================================
