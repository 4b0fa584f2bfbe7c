------------------------------- MODULE MCShop -------------------------------
(***************************************************************************)
(* Instances of carts and of the reminders of abandoned ones for TLC.      *)
(***************************************************************************)
EXTENDS CartsProps, TLC
CONSTANTS u1, u2, u3, g1, g2, s1, s2, s3, c1, c2
VARIABLE component  \* what a behaviour is about

SlotOrder == <<s1, s2, s3>>
(* Slots are interchangeable: they are used in this order.                 *)
InOrder == \A i \in 1..2 : cartPc'[SlotOrder[i + 1]] # "new" => cartPc'[SlotOrder[i]] # "new"

Line(g, n) == [item |-> g, quantity |-> n]
MCPrice == g1 :> 2 @@ g2 :> 3
CartOf(items) == [EmptyCart EXCEPT !.items = items]
NoCarts == [u \in Shoppers |-> NoCart]
Idle(items) == [CartOf(items) EXCEPT !.idle = TRUE]
(* Without g2, one cart that cannot be reminded is before two that can, or *)
(* two fill the batch before one that can.                                 *)
IdleCarts ==
  {u1 :> Idle(<<Line(g2, 1)>>) @@ u2 :> Idle(<<Line(g1, 1)>>)
     @@ u3 :> Idle(<<Line(g2, 2), Line(g1, 1)>>),
   u1 :> Idle(<<Line(g2, 1)>>) @@ u2 :> Idle(<<Line(g2, 1)>>)
     @@ u3 :> Idle(<<Line(g1, 1)>>)}
MCInitCarts == {NoCarts} \cup IdleCarts
MCInitShelves == {g1 :> 2 @@ g2 :> 1}
Fixed(n, min) ==
  [NoCoupon EXCEPT !.exists = TRUE, !.active = TRUE, !.value = n, !.minPurchase = min]
Percent(n) == [Fixed(n, 0) EXCEPT !.type = "percentage"]
MCInitCoupons == {c1 :> Fixed(5, 4) @@ c2 :> NoCoupon}
MCCartCalls ==
  [op : {"mergeCart"}, lines : {<<Line(g1, 1)>>, <<Line(g2, 1), Line(g1, 2)>>}]
  \cup [op : {"updateItemQuantity"}, item : {g1}, quantity : {1, 2}]
  \cup [op : {"removeItem"}, item : Goods]
  \cup [op : {"applyCoupon"}, code : {c1, c2}]
  \cup [op : {"clearCart", "removeCoupon"}]
  \cup {[op |-> "create", code |-> c2, coupon |-> Percent(100)],
        [op |-> "update", code |-> c1, coupon |-> [Fixed(3, 0) EXCEPT !.active = FALSE]],
        [op |-> "remove", code |-> c1],
        [op |-> "setStock", item |-> g1, stock |-> 1],
        [op |-> "setStock", item |-> g2, stock |-> Gone]}
MCOrder == <<u1, u2, u3>>

Init ==
  /\ RemindersInit
  /\ component \in {"carts", "reminders"}
  /\ component = "reminders" <=> carts \in IdleCarts

(* Three requests of one shopper, or one request and the job.              *)
Next ==
  /\ UNCHANGED component
  /\ \/ /\ component = "carts"
        /\ CartsNext /\ UNCHANGED jobVars
        /\ InOrder
        /\ \A s \in CartSlots : cartJob'[s].user = u1
        /\ \A u \in Shoppers : ~ carts'[u].idle
     \/ /\ component = "reminders"
        /\ \/ CartsNext /\ UNCHANGED jobVars /\ InOrder /\ cartPc'[s2] = "new"
           \/ JobNext

vars == <<component, remindersVars>>

(* The scheduler starts the job, and a run of it goes on to its end.       *)
Spec ==
  /\ Init /\ [][Next]_vars
  /\ WF_vars(component = "reminders" /\ StartRun /\ UNCHANGED component)
  /\ WF_vars(component = "reminders" /\ RunStep /\ UNCHANGED component)

ASSUME CouponsOfTheInstance == NoCouponOverAll

(* The lists that are filtered are those which SelectSeq returns.          *)
ASSUME FilteredIsSelectSeq ==
  \A n \in 0..4 : \A s \in [1..n -> 1..3], K \in SUBSET (1..3) :
    Filtered(s, K) = SelectSeq(s, LAMBDA x : x \in K)
=============================================================================
