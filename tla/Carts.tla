------------------------------- MODULE Carts --------------------------------
(***************************************************************************)
(* The carts of cart/cart.service.ts and the coupons of                    *)
(* coupon/coupon.service.ts, at the grain of their awaits.                 *)
(*                                                                         *)
(* A cart handler loads the cart, reads a variant or a coupon, changes its *)
(* copy and saves it.  Mongoose writes the paths that differ from the copy *)
(* and guards the array: a changed or replaced array is written only if    *)
(* the document still has the version that was loaded, and an appended or  *)
(* replaced one raises the version; an append is not guarded.              *)
(*                                                                         *)
(* The reads of one getCart are taken at one moment.  A coupon's maxUses   *)
(* is left out: incrementUsage has no caller, so that currentUses is 0 and *)
(* below every limit for ever.                                             *)
(***************************************************************************)
EXTENDS Integers, SequencesExt, Lists

CONSTANTS
  Shoppers,   \* users with a cart
  Goods,      \* variants that can be bought
  Price,      \* Price[g]: price of the product of g
  Codes,      \* coupon codes
  InitCarts,  \* the carts, the stocks and the coupons a behaviour may
  InitShelves,\* start with
  InitCoupons,
  CartCalls,  \* the calls the environment makes in a configuration
  CartSlots   \* request slots, each used for one call

Gone == -1        \* the stock of a variant that was deleted
NoCode == "no code"

Lines == [item : Goods, quantity : Nat \ {0}]

(* idle stands for a lastUpdated of more than three days ago, reminded for *)
(* a reminderSentAt, version for __v.                                      *)
CartDocs == [exists : BOOLEAN, items : Seq(Lines), coupon : Codes \cup {NoCode},
             version : Nat, idle : BOOLEAN, reminded : BOOLEAN]

NoCart == [exists |-> FALSE, items |-> << >>, coupon |-> NoCode,
           version |-> 0, idle |-> FALSE, reminded |-> FALSE]

EmptyCart == [NoCart EXCEPT !.exists = TRUE]

(* A minPurchase of 0 is one that is not set.                              *)
CouponDocs == [exists : BOOLEAN, active : BOOLEAN, expired : BOOLEAN,
               type : {"percentage", "fixed"}, value : Nat, minPurchase : Nat]

NoCoupon == [exists |-> FALSE, active |-> FALSE, expired |-> FALSE,
             type |-> "fixed", value |-> 0, minPurchase |-> 0]

(* addItem is a mergeCart of one line, and a mergeCart of none a getCart.  *)
(* getCart creates a missing cart.                                         *)
CustomerCalls ==
  [op : {"mergeCart"}, lines : Seq(Lines) \ {<< >>}]
  \cup [op : {"updateItemQuantity"}, item : Goods, quantity : Nat \ {0}]
  \cup [op : {"removeItem"}, item : Goods]
  \cup [op : {"applyCoupon"}, code : Codes]
  \cup [op : {"clearCart", "removeCoupon", "getCart"}]

(* What the administrator does to coupons and stock meanwhile.             *)
AdminCalls ==
  [op : {"create", "update"}, code : Codes, coupon : CouponDocs]
  \cup [op : {"remove"}, code : Codes]
  \cup [op : {"setStock"}, item : Goods, stock : Nat \cup {Gone}]

ASSUME CartsAssumption ==
  /\ Shoppers # {} /\ CartCalls # {}
  /\ Price \in [Goods -> Nat]
  /\ NoCode \notin Codes
  /\ \A c \in CartCalls : c \in CustomerCalls \cup AdminCalls
  /\ \A f \in InitCarts :
       /\ f \in [Shoppers -> CartDocs]
       /\ \A u \in Shoppers : ~ f[u].exists => f[u] = NoCart
  /\ \A f \in InitShelves : f \in [Goods -> Nat]
  /\ \A f \in InitCoupons : f \in [Codes -> CouponDocs]

-----------------------------------------------------------------------------
VARIABLES
  carts,    \* collection "carts", by user
  shelf,    \* stock of every variant, or Gone
  coupons,  \* collection "coupons", by code
  cartPc,   \* control state of every request
  cartJob   \* call, user, loaded documents of every started request

cartsVars == <<carts, shelf, coupons, cartPc, cartJob>>

(* new (-> load) (-> missing) -> loaded (-> checked) -> done; a getCart    *)
(* ends loaded.                                                            *)
CartPCs == {"new", "load", "missing", "loaded", "checked", "done"}

IdleCartJob == [call |-> CHOOSE c \in CartCalls : TRUE,
                user |-> CHOOSE u \in Shoppers : TRUE,
                cart |-> NoCart, coupon |-> NoCoupon, stock |-> Gone,
                left |-> << >>]

CartJobs == [call : CartCalls, user : Shoppers, cart : CartDocs,
             coupon : CouponDocs, stock : Int, left : Seq(Lines)]

CartsTypeOK ==
  /\ carts \in [Shoppers -> CartDocs]
  /\ shelf \in [Goods -> Nat \cup {Gone}]
  /\ coupons \in [Codes -> CouponDocs]
  /\ cartPc \in [CartSlots -> CartPCs]
  /\ cartJob \in [CartSlots -> CartJobs]

-----------------------------------------------------------------------------
(* findIndex: the first line of an item, 0 if there is none.               *)
IndexOf(items, g) ==
  IF \E i \in DOMAIN items : items[i].item = g
    THEN CHOOSE i \in DOMAIN items :
           items[i].item = g /\ \A k \in 1..(i - 1) : items[k].item # g
    ELSE 0

(* What getCart adds up: lines whose variant is gone are left out.         *)
Subtotal(items) ==
  LET cost == [i \in DOMAIN items |->
                 IF shelf[items[i].item] = Gone
                   THEN 0 ELSE Price[items[i].item] * items[i].quantity]
  IN  SumFunctionOnSet(cost, DOMAIN items)

(* Faulty variant: a fixed coupon is not capped by the subtotal.           *)
DiscountUncapped(coupon, subtotal) ==
  IF coupon.type = "percentage" THEN (subtotal * coupon.value + 50) \div 100
                                ELSE coupon.value

(* Math.round of a percentage, or a fixed amount of at most the subtotal.  *)
Discount(coupon, subtotal) ==
  IF coupon.type = "percentage"
    THEN (subtotal * coupon.value + 50) \div 100
    ELSE IF coupon.value < subtotal THEN coupon.value ELSE subtotal

(* The coupon getCart applies: it has to exist and to be active, nothing   *)
(* else is looked at again.                                                *)
Discounts(cart) ==
  /\ cart.coupon # NoCode
  /\ coupons[cart.coupon].exists
  /\ coupons[cart.coupon].active

Total(cart) ==
  LET subtotal == Subtotal(cart.items)
  IN  subtotal - (IF Discounts(cart) THEN Discount(coupons[cart.coupon], subtotal)
                                     ELSE 0)

(* applyCoupon and validate, before they look at the cart.                 *)
Redeemable(coupon) == coupon.exists /\ coupon.active /\ ~ coupon.expired

(* Faulty variant: updateItemQuantity takes the quantity off the line.     *)
WantedTakenOff(j) ==
  LET items == j.cart.items IN
  IF j.call.op = "mergeCart"
    THEN LET i == IndexOf(items, Head(j.left).item)
         IN  Head(j.left).quantity + IF i = 0 THEN 0 ELSE items[i].quantity
    ELSE items[IndexOf(items, j.call.item)].quantity - j.call.quantity

(* The quantity a handler wants a line to have.                            *)
Wanted(j) ==
  IF j.call.op = "mergeCart"
    THEN LET line == Head(j.left)
             i == IndexOf(j.cart.items, line.item)
         IN  IF i = 0 THEN line.quantity
                      ELSE j.cart.items[i].quantity + line.quantity
    ELSE j.call.quantity

(* The calls that set the quantity of a line, and the line they set.       *)
SettingOps == {"mergeCart", "updateItemQuantity"}

ItemOf(j) == IF j.call.op = "mergeCart" THEN Head(j.left).item ELSE j.call.item

(* Faulty variant: addItem compares only what it adds with the stock.      *)
InStockAlone(j, stock) ==
  /\ stock # Gone
  /\ (IF j.call.op = "mergeCart" THEN Head(j.left).quantity
                                 ELSE j.call.quantity) <= stock

InStock(j, stock) == stock # Gone /\ Wanted(j) <= stock

(* The list a handler wants, and how Mongoose writes it: nothing if the    *)
(* list is what it was, a $push, a $set of one quantity, or the whole list.*)
SetLine(items, g, quantity) ==
  LET i == IndexOf(items, g)
  IN  IF i = 0
        THEN [how |-> "push", at |-> 0,
              list |-> Append(items, [item |-> g, quantity |-> quantity])]
        ELSE [how  |-> IF quantity = items[i].quantity THEN "nothing" ELSE "quantity",
              at   |-> i,
              list |-> [items EXCEPT ![i].quantity = quantity]]

SetList(items, list) ==
  [how |-> IF list = items THEN "nothing" ELSE "list", at |-> 0, list |-> list]

Edit(j) ==
  LET items == j.cart.items IN
  CASE j.call.op \in SettingOps -> SetLine(items, ItemOf(j), Wanted(j))
    [] j.call.op = "removeItem" ->
         SetList(items, Filtered(items, {line \in Range(items) : line.item # j.call.item}))
    [] j.call.op = "clearCart" -> SetList(items, << >>)
    [] OTHER -> SetList(items, items)

(* The coupon code a handler wants in the cart.                            *)
CodeAfter(j) ==
  CASE j.call.op = "applyCoupon" -> j.call.code
    [] j.call.op \in {"clearCart", "removeCoupon"} -> NoCode
    [] OTHER -> j.cart.coupon

(* Faulty variant: the version of the document is not compared.            *)
WritableAlways(edit, loaded, stored) == TRUE

(* save throws a VersionError if the list changed since it was loaded.     *)
Writable(edit, loaded, stored) ==
  edit.how \in {"quantity", "list"} => stored.version = loaded.version

Written(edit, stored) ==
  CASE edit.how = "nothing"  -> stored
    [] edit.how = "push"     -> Append(stored, Last(edit.list))
    [] edit.how = "quantity" -> [stored EXCEPT ![edit.at] = edit.list[edit.at]]
    [] edit.how = "list"     -> edit.list

-----------------------------------------------------------------------------
CartsGoto(s, at) == cartPc' = [cartPc EXCEPT ![s] = at]

(* The call ends here, unless mergeCart has lines left: it skips a line    *)
(* whose addItem failed.                                                   *)
EndOfLine(s) ==
  IF Len(cartJob[s].left) > 1
    THEN /\ CartsGoto(s, "load")
         /\ cartJob' = [cartJob EXCEPT ![s].left = Tail(@)]
    ELSE /\ CartsGoto(s, "done")
         /\ UNCHANGED cartJob

(* getOrCreateCart: findOne ...                                            *)
FindCart(s, j) ==
  /\ CartsGoto(s, IF carts[j.user].exists THEN "loaded" ELSE "missing")
  /\ cartJob' = [cartJob EXCEPT ![s] = [j EXCEPT !.cart = carts[j.user]]]
  /\ UNCHANGED <<carts, shelf, coupons>>

BeginCall(s, c, u) ==
  /\ cartPc[s] = "new"
  /\ c.op \in {"mergeCart", "updateItemQuantity", "removeItem", "clearCart",
               "removeCoupon", "getCart"}
  /\ FindCart(s, [IdleCartJob EXCEPT !.call = c, !.user = u,
                    !.left = IF c.op = "mergeCart" THEN c.lines ELSE << >>])

LoadCart(s) ==
  /\ cartPc[s] = "load"
  /\ FindCart(s, cartJob[s])

(* ... and create, which fails on the unique index if the cart is there.   *)
CreateCart(s) ==
  LET u == cartJob[s].user IN
  /\ cartPc[s] = "missing"
  /\ IF carts[u].exists
       THEN EndOfLine(s) /\ UNCHANGED carts
       ELSE /\ carts' = [carts EXCEPT ![u] = EmptyCart]
            /\ CartsGoto(s, "loaded")
            /\ cartJob' = [cartJob EXCEPT ![s].cart = EmptyCart]
  /\ UNCHANGED <<shelf, coupons>>

(* addItem and updateItemQuantity read the variant.                        *)
CheckStock(s) ==
  LET j == cartJob[s] IN
  /\ cartPc[s] = "loaded"
  /\ j.call.op \in SettingOps
  /\ IF /\ j.call.op = "updateItemQuantity" =>
             IndexOf(j.cart.items, j.call.item) # 0
        /\ InStock(j, shelf[ItemOf(j)])
       THEN /\ CartsGoto(s, "checked")
            /\ cartJob' = [cartJob EXCEPT ![s].stock = shelf[ItemOf(j)]]
       ELSE EndOfLine(s)
  /\ UNCHANGED <<carts, shelf, coupons>>

(* applyCoupon: the coupon is checked before the cart is loaded, ...       *)
CheckCoupon(s, c, u) ==
  /\ cartPc[s] = "new"
  /\ c.op = "applyCoupon"
  /\ Redeemable(coupons[c.code])
  /\ CartsGoto(s, "load")
  /\ cartJob' = [cartJob EXCEPT ![s] =
       [IdleCartJob EXCEPT !.call = c, !.user = u, !.coupon = coupons[c.code]]]
  /\ UNCHANGED <<carts, shelf, coupons>>

(* ... the minimum with the subtotal of a cart that getCart loads anew.    *)
CheckMinimum(s) ==
  LET j == cartJob[s] IN
  /\ cartPc[s] = "loaded"
  /\ j.call.op = "applyCoupon"
  /\ CartsGoto(s, IF Subtotal(carts[j.user].items) >= j.coupon.minPurchase
                    THEN "checked" ELSE "done")
  /\ UNCHANGED <<carts, shelf, coupons, cartJob>>

(* cart.save()                                                             *)
SaveCart(s) ==
  LET j == cartJob[s]
      u == j.user
      edit == Edit(j)
  IN  /\ \/ cartPc[s] = "checked"
         \/ /\ cartPc[s] = "loaded"
            /\ j.call.op \in {"removeItem", "clearCart", "removeCoupon"}
      /\ carts' =
           IF Writable(edit, j.cart, carts[u])
             THEN [carts EXCEPT
                    ![u].items   = Written(edit, @),
                    ![u].version = IF edit.how \in {"push", "list"} THEN @ + 1 ELSE @,
                    ![u].coupon  = IF CodeAfter(j) # j.cart.coupon THEN CodeAfter(j) ELSE @,
                    ![u].idle    = FALSE]
             ELSE carts
      /\ EndOfLine(s)
      /\ UNCHANGED <<shelf, coupons>>

-----------------------------------------------------------------------------
(* coupon.service.ts: create finds that the code is free and then inserts  *)
(* on a unique index, so that the insert alone decides.                    *)
WriteCoupon(s, c) ==
  /\ cartPc[s] = "new"
  /\ \/ /\ c.op = "create" /\ ~ coupons[c.code].exists
        /\ coupons' = [coupons EXCEPT ![c.code] = c.coupon]
     \/ /\ c.op = "update" /\ coupons[c.code].exists
        /\ coupons' = [coupons EXCEPT ![c.code] = c.coupon]
     \/ /\ c.op = "remove" /\ coupons[c.code].exists
        /\ coupons' = [coupons EXCEPT ![c.code] = NoCoupon]
  /\ CartsGoto(s, "done")
  /\ UNCHANGED <<carts, shelf, cartJob>>

(* editVariant sets a stock, deleteVariant ends it.                        *)
SetStock(s, c) ==
  /\ cartPc[s] = "new"
  /\ c.op = "setStock"
  /\ shelf[c.item] # Gone
  /\ shelf' = [shelf EXCEPT ![c.item] = c.stock]
  /\ CartsGoto(s, "done")
  /\ UNCHANGED <<carts, coupons, cartJob>>

(* Time passes: a coupon expires, a cart has not been touched for 3 days.  *)
ExpireCoupon(code) ==
  /\ coupons[code].exists /\ ~ coupons[code].expired
  /\ coupons' = [coupons EXCEPT ![code].expired = TRUE]
  /\ UNCHANGED <<carts, shelf, cartPc, cartJob>>

GrowIdle(u) ==
  /\ carts[u].exists /\ ~ carts[u].idle
  /\ carts' = [carts EXCEPT ![u].idle = TRUE]
  /\ UNCHANGED <<shelf, coupons, cartPc, cartJob>>

CartsInit ==
  /\ carts \in InitCarts
  /\ shelf \in InitShelves
  /\ coupons \in InitCoupons
  /\ cartPc = [s \in CartSlots |-> "new"]
  /\ cartJob = [s \in CartSlots |-> IdleCartJob]

CartsNext ==
  \/ \E s \in CartSlots :
       \/ \E c \in CartCalls :
            \/ \E u \in Shoppers : BeginCall(s, c, u) \/ CheckCoupon(s, c, u)
            \/ WriteCoupon(s, c)
            \/ SetStock(s, c)
       \/ LoadCart(s)
       \/ CreateCart(s)
       \/ CheckStock(s)
       \/ CheckMinimum(s)
       \/ SaveCart(s)
  \/ \E code \in Codes : ExpireCoupon(code)
  \/ \E u \in Shoppers : GrowIdle(u)

CartsSpec == CartsInit /\ [][CartsNext]_cartsVars
=============================================================================
