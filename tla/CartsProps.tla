----------------------------- MODULE CartsProps -----------------------------
(***************************************************************************)
(* Correctness of carts, coupons and reminders: properties of modules      *)
(* Carts and Reminders.                                                    *)
(***************************************************************************)
EXTENDS Reminders

(* s saves the cart of u in this step.                                     *)
Saves(s, u) ==
  /\ cartPc[s] \in {"loaded", "checked"}
  /\ cartPc'[s] \in {"done", "load"}
  /\ cartJob[s].user = u

Has(items, g) == IndexOf(items, g) # 0

(* What a customer put into the cart stays there until a call names it, or *)
(* clears a cart in which it was: a list written back from a copy loaded   *)
(* before an item was added never drops the item, whatever handlers        *)
(* overlap on the cart.                                                    *)
LinesKept ==
  [][\A u \in Shoppers, g \in Goods :
       /\ Has(carts[u].items, g)
       /\ ~ Has(carts'[u].items, g)
       => \E s \in CartSlots :
            /\ Saves(s, u)
            /\ \/ /\ cartJob[s].call.op = "removeItem"
                  /\ cartJob[s].call.item = g
               \/ /\ cartJob[s].call.op = "clearCart"
                  /\ Has(cartJob[s].cart.items, g)]_<<carts, cartPc, cartJob>>

(* The quantity of item g, the largest if lines of it are repeated.        *)
Quantity(items, g) ==
  Max({0} \cup {items[i].quantity : i \in {k \in DOMAIN items : items[k].item = g}})

(* The quantity of an item never grows beyond the stock that the call      *)
(* which made it grow had read, although several additions make up one     *)
(* line and others edit or remove it meanwhile.  It also grows, to what it *)
(* was, when a removal writes a whole list that it loaded before the       *)
(* quantity was lowered: a change of a quantity does not raise the version.*)
LinesWithinStock ==
  [][\A u \in Shoppers, g \in Goods :
       LET new == Quantity(carts'[u].items, g) IN
       new > Quantity(carts[u].items, g)
       => \E s \in CartSlots :
            /\ Saves(s, u)
            /\ IF cartJob[s].call.op \in SettingOps
                 THEN ItemOf(cartJob[s]) = g /\ new <= cartJob[s].stock
                 ELSE new = Quantity(cartJob[s].cart.items, g)]_<<carts, cartPc, cartJob>>

(* No coupon that there is, or that an administrator writes, takes more    *)
(* than 100 percent; the DTOs of the code bound no value from above.       *)
AtMostAll(coupon) == coupon.type = "percentage" => coupon.value <= 100

NoCouponOverAll ==
  /\ \A f \in InitCoupons : \A code \in Codes : AtMostAll(f[code])
  /\ \A c \in CartCalls : c.op \in {"create", "update"} => AtMostAll(c.coupon)

(* No coupon makes a cart cost less than nothing, whatever is added,       *)
(* removed, sold out or changed after it was applied, as long as           *)
(* NoCouponOverAll.                                                        *)
TotalNotNegative == \A u \in Shoppers : Total(carts[u]) >= 0

(* The owner of a cart gets one reminder, and another one only for each    *)
(* reminder whose mark was lost to a failure; cart handlers that save the  *)
(* cart meanwhile do not undo the mark.                                    *)
RemindedOnce ==
  \A u \in Shoppers : mails[u] <= 1 + unmarked[u]

(* The carts that the query finds before that of u, every day again: they  *)
(* have no item to show, and so they are neither reminded nor marked.      *)
StuckBefore(u) ==
  {CartOrder[i] : i \in {k \in DOMAIN CartOrder :
     /\ \E n \in k + 1 .. Len(CartOrder) : CartOrder[n] = u
     /\ Abandoned(carts[CartOrder[k]])
     /\ ~ Presentable(carts[CartOrder[k]].items)}}

(* No cart stays abandoned for ever without a reminder, unless the shop    *)
(* has none of its items or carts of which this is true fill the batch     *)
(* before it: fewer of them than the batch holds up, none of the others.   *)
AbandonedReminded ==
  \A u \in Shoppers :
    Abandoned(carts[u]) ~> \/ ~ Abandoned(carts[u])
                           \/ ~ Presentable(carts[u].items)
                           \/ Cardinality(StuckBefore(u)) >= Batch
=============================================================================
