--------------------------- MODULE TelegramProps ---------------------------
(***************************************************************************)
(* What the admin may expect of the buttons of the Telegram group.         *)
(***************************************************************************)
EXTENDS TelegramReview, OrdersProps

CallsOf(p) == {r \in Requests : cause[r] = p}

(* A button that acts is carried out exactly once for each press.  When    *)
(* Telegram's answer fails after the message was deleted, the press is     *)
(* delivered again and must still lead to its order call although the      *)
(* message is gone; and no delivery may follow once the call was made.     *)
(* (Requests bounds the calls of a behaviour: a press that finds no free   *)
(* slot is not expected to act.)                                           *)
PressActsOnce ==
  /\ [](\A p \in Presses : Cardinality(CallsOf(p)) <= 1)
  /\ \A p \in Presses :
       (press[p].at = "queued" /\ press[p].button \in DOMAIN OrderCall)
         ~> (CallsOf(p) # {} \/ \A r \in Requests : pc[r] # "new")

(* A status button moves the order on from the status its message shows.   *)
(* The exceptions are a third call on the order, and the message of a      *)
(* verification: it is in the group before the verification is saved, and  *)
(* it says pagada of an order that was not waiting for payment.            *)
ButtonMovesShown ==
  [][\A r \in Requests :
       LET m == press[cause[r]].message
           o == job[r].order
           verification == job[m].call.op = "updatePaymentProof" IN
       /\ cause[r] # NoPress
       /\ At(r, "loaded", "updateStatus")
       /\ pc'[r] # "loaded"
       => \/ orders[o].status = Announces(job[m].call, job[m].doc)
          \/ verification /\ \/ pc[m] = "loaded"
                             \/ job[m].doc.status # "esperando_pago"
          \/ \E q \in Requests \ {m, r} :
               pc[q] # "new" /\ job[q].order = o]_reviewVars
=============================================================================
