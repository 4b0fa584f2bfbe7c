---------------------------- MODULE Carts_proofs -----------------------------
(***************************************************************************)
(* Proofs about carts, coupons and reminders.                              *)
(***************************************************************************)
EXTENDS CartsProps, SumsAndLists_proofs, SequenceTheorems

(***************************************************************************)
(* Lists of lines, and the calls.                                          *)
(***************************************************************************)

LEMMA LineFields ==
  /\ \A l \in Lines : l.item \in Goods /\ l.quantity \in Nat \ {0}
  /\ \A g \in Goods, n \in Nat \ {0} : [item |-> g, quantity |-> n] \in Lines
  /\ \A l \in Lines, n \in Nat \ {0} :
       /\ [l EXCEPT !.quantity = n] \in Lines
       /\ [l EXCEPT !.quantity = n].item = l.item
       /\ [l EXCEPT !.quantity = n].quantity = n
  BY DEF Lines

(* findIndex returns the place of a line of the item, or 0 if it has none. *)
LEMMA IndexOfIs ==
  ASSUME NEW items \in Seq(Lines), NEW g
  PROVE  /\ IndexOf(items, g) \in 0..Len(items)
         /\ IndexOf(items, g) # 0 =>
              /\ IndexOf(items, g) \in DOMAIN items
              /\ items[IndexOf(items, g)].item = g
         /\ \A i \in DOMAIN items : items[i].item = g => IndexOf(items, g) # 0
<1>1. Len(items) \in Nat /\ DOMAIN items = 1..Len(items)
  OBVIOUS
<1> DEFINE T == {i \in DOMAIN items : items[i].item = g}
<1>2. CASE T = {}
  <2>1. IndexOf(items, g) = 0
    BY <1>2 DEF IndexOf
  <2> QED
    BY <1>1, <1>2, <2>1
<1>3. CASE T # {}
  <2>1. T \in SUBSET Nat
    BY <1>1
  <2>2. PICK i \in T : \A k \in T : i <= k
    <3> HIDE DEF T
    <3> QED
      BY <1>3, <2>1, LeastNatural
  <2>3. i \in DOMAIN items /\ items[i].item = g
    BY <2>2
  <2>4. ASSUME NEW k \in 1..(i - 1) PROVE items[k].item # g
    <3>1. k \in DOMAIN items /\ ~ (i <= k)
      BY <1>1, <2>3
    <3> QED
      BY <2>2, <3>1
  <2>5. /\ IndexOf(items, g) \in DOMAIN items
        /\ items[IndexOf(items, g)].item = g
    BY <2>3, <2>4 DEF IndexOf
  <2> QED
    BY <1>1, <2>5
<1> QED
  BY <1>2, <1>3

(* What the calls of an instance carry.                                    *)
LEMMA CallFields ==
  ASSUME NEW c \in CartCalls
  PROVE  /\ c.op \in {"mergeCart", "updateItemQuantity", "removeItem", "applyCoupon",
                      "clearCart", "removeCoupon", "getCart", "create", "update",
                      "remove", "setStock"}
         /\ c.op = "mergeCart" => c.lines \in Seq(Lines) /\ c.lines # << >>
         /\ c.op = "updateItemQuantity" => c.item \in Goods /\ c.quantity \in Nat \ {0}
         /\ c.op = "removeItem" => c.item \in Goods
         /\ c.op = "applyCoupon" => c.code \in Codes
         /\ c.op \in {"create", "update"} => c.code \in Codes /\ c.coupon \in CouponDocs
         /\ c.op = "remove" => c.code \in Codes
         /\ c.op = "setStock" => c.item \in Goods /\ c.stock \in Nat \cup {Gone}
<1> DEFINE L == Seq(Lines) \ {<< >>}
           D == CouponDocs
<1> HIDE DEF L, D
<1>1. \/ c \in [op : {"mergeCart"}, lines : L]
      \/ c \in [op : {"updateItemQuantity"}, item : Goods, quantity : Nat \ {0}]
      \/ c \in [op : {"removeItem"}, item : Goods]
      \/ c \in [op : {"applyCoupon"}, code : Codes]
      \/ c \in [op : {"clearCart", "removeCoupon", "getCart"}]
      \/ c \in [op : {"create", "update"}, code : Codes, coupon : D]
      \/ c \in [op : {"remove"}, code : Codes]
      \/ c \in [op : {"setStock"}, item : Goods, stock : Nat \cup {Gone}]
  BY CartsAssumption DEF CustomerCalls, AdminCalls, L, D
<1>2. CASE c \in [op : {"mergeCart"}, lines : L]
  BY <1>2 DEF L
<1>3. CASE c \in [op : {"updateItemQuantity"}, item : Goods, quantity : Nat \ {0}]
  BY <1>3
<1>4. CASE c \in [op : {"removeItem"}, item : Goods]
  BY <1>4
<1>5. CASE c \in [op : {"applyCoupon"}, code : Codes]
  BY <1>5
<1>6. CASE c \in [op : {"clearCart", "removeCoupon", "getCart"}]
  BY <1>6
<1>7. CASE c \in [op : {"create", "update"}, code : Codes, coupon : D]
  BY <1>7 DEF D
<1>8. CASE c \in [op : {"remove"}, code : Codes]
  BY <1>8
<1>9. CASE c \in [op : {"setStock"}, item : Goods, stock : Nat \cup {Gone}]
  BY <1>9
<1> QED
  BY <1>1, <1>2, <1>3, <1>4, <1>5, <1>6, <1>7, <1>8, <1>9

(* The documents that the code creates.                                    *)
LEMMA NewDocuments ==
  /\ NoCart \in CartDocs /\ EmptyCart \in CartDocs /\ NoCoupon \in CouponDocs
  /\ ~ NoCart.exists /\ EmptyCart.exists
  /\ NoCart.items = << >> /\ EmptyCart.items = << >>
  /\ ~ NoCart.reminded /\ ~ EmptyCart.reminded
<1> DEFINE S == Seq(Lines)
<1>1. << >> \in S
  OBVIOUS
<1> HIDE DEF S
<1>2. NoCart \in [exists : BOOLEAN, items : S, coupon : Codes \cup {NoCode},
                  version : Nat, idle : BOOLEAN, reminded : BOOLEAN]
  BY <1>1 DEF NoCart
<1>3. EmptyCart \in [exists : BOOLEAN, items : S, coupon : Codes \cup {NoCode},
                     version : Nat, idle : BOOLEAN, reminded : BOOLEAN]
  BY <1>1 DEF NoCart, EmptyCart
<1>4. NoCoupon \in CouponDocs
  BY DEF NoCoupon, CouponDocs
<1> QED
  BY <1>2, <1>3, <1>4 DEF CartDocs, NoCart, EmptyCart, S

(***************************************************************************)
(* Types.  A merge that is not over has a line left, and a run of the job  *)
(* a cart.                                                                 *)
(***************************************************************************)

SlotOK(pc, j) ==
  /\ pc \in CartPCs /\ j \in CartJobs
  /\ j.call.op = "mergeCart" /\ pc \notin {"new", "done"} => j.left # << >>

TypeInv ==
  /\ RemindersTypeOK
  /\ \A s \in CartSlots : SlotOK(cartPc[s], cartJob[s])
  /\ runPc # "idle" => batch # << >>

LEMMA IdleSlot == SlotOK("new", IdleCartJob)
<1> DEFINE S == Seq(Lines)
<1>1. << >> \in S
  OBVIOUS
<1> HIDE DEF S
<1>2. IdleCartJob \in [call : CartCalls, user : Shoppers, cart : CartDocs,
                       coupon : CouponDocs, stock : Int, left : S]
  <2>1. (CHOOSE c \in CartCalls : TRUE) \in CartCalls
    BY CartsAssumption
  <2>2. (CHOOSE u \in Shoppers : TRUE) \in Shoppers
    BY CartsAssumption
  <2> QED
    BY <1>1, <2>1, <2>2, NewDocuments DEF IdleCartJob, Gone
<1> QED
  BY <1>2 DEF SlotOK, CartPCs, CartJobs, S

LEMMA JobFields ==
  ASSUME NEW j \in CartJobs
  PROVE  /\ j.call \in CartCalls /\ j.user \in Shoppers /\ j.cart \in CartDocs
         /\ j.coupon \in CouponDocs /\ j.stock \in Int /\ j.left \in Seq(Lines)
         /\ \A d \in CartDocs :
              /\ [j EXCEPT !.cart = d] \in CartJobs
              /\ [j EXCEPT !.cart = d].cart = d
              /\ [j EXCEPT !.cart = d].call = j.call
              /\ [j EXCEPT !.cart = d].user = j.user
              /\ [j EXCEPT !.cart = d].left = j.left
         /\ \A n \in Int :
              /\ [j EXCEPT !.stock = n] \in CartJobs
              /\ [j EXCEPT !.stock = n].stock = n
              /\ [j EXCEPT !.stock = n].call = j.call
              /\ [j EXCEPT !.stock = n].user = j.user
              /\ [j EXCEPT !.stock = n].cart = j.cart
              /\ [j EXCEPT !.stock = n].left = j.left
         /\ \A l \in Seq(Lines) :
              /\ [j EXCEPT !.left = l] \in CartJobs
              /\ [j EXCEPT !.left = l].left = l
              /\ [j EXCEPT !.left = l].call = j.call
              /\ [j EXCEPT !.left = l].user = j.user
              /\ [j EXCEPT !.left = l].cart = j.cart
<1> DEFINE S == Seq(Lines)
<1> HIDE DEF S
<1>1. j \in [call : CartCalls, user : Shoppers, cart : CartDocs,
             coupon : CouponDocs, stock : Int, left : S]
  BY DEF CartJobs, S
<1>2. \A d \in CartDocs :
        /\ [j EXCEPT !.cart = d] \in CartJobs
        /\ [j EXCEPT !.cart = d].cart = d
        /\ [j EXCEPT !.cart = d].call = j.call
        /\ [j EXCEPT !.cart = d].user = j.user
        /\ [j EXCEPT !.cart = d].left = j.left
  BY <1>1 DEF CartJobs, S
<1>3. \A n \in Int :
        /\ [j EXCEPT !.stock = n] \in CartJobs
        /\ [j EXCEPT !.stock = n].stock = n
        /\ [j EXCEPT !.stock = n].call = j.call
        /\ [j EXCEPT !.stock = n].user = j.user
        /\ [j EXCEPT !.stock = n].cart = j.cart
        /\ [j EXCEPT !.stock = n].left = j.left
  BY <1>1 DEF CartJobs, S
<1>4. \A l \in S :
        /\ [j EXCEPT !.left = l] \in CartJobs
        /\ [j EXCEPT !.left = l].left = l
        /\ [j EXCEPT !.left = l].call = j.call
        /\ [j EXCEPT !.left = l].user = j.user
        /\ [j EXCEPT !.left = l].cart = j.cart
  BY <1>1 DEF CartJobs, S
<1>5. /\ j.call \in CartCalls /\ j.user \in Shoppers /\ j.cart \in CartDocs
      /\ j.coupon \in CouponDocs /\ j.stock \in Int /\ j.left \in S
  BY <1>1
<1> QED
  BY <1>2, <1>3, <1>4, <1>5 DEF S

(* A request goes on as j, at pc; the others stay as they are.             *)
LEMMA SlotSet ==
  ASSUME TypeInv, NEW s \in CartSlots, NEW pc, NEW j, SlotOK(pc, j),
         cartPc' = [cartPc EXCEPT ![s] = pc], cartJob' = [cartJob EXCEPT ![s] = j]
  PROVE  /\ cartPc' \in [CartSlots -> CartPCs] /\ cartJob' \in [CartSlots -> CartJobs]
         /\ \A t \in CartSlots : SlotOK(cartPc'[t], cartJob'[t])
         /\ cartPc'[s] = pc /\ cartJob'[s] = j
         /\ \A t \in CartSlots \ {s} : cartPc'[t] = cartPc[t] /\ cartJob'[t] = cartJob[t]
<1>1. cartPc \in [CartSlots -> CartPCs] /\ cartJob \in [CartSlots -> CartJobs]
      /\ \A t \in CartSlots : SlotOK(cartPc[t], cartJob[t])
  BY DEF TypeInv, RemindersTypeOK, CartsTypeOK
<1>2. pc \in CartPCs /\ j \in CartJobs
  BY DEF SlotOK
<1>3. /\ cartPc' \in [CartSlots -> CartPCs] /\ cartJob' \in [CartSlots -> CartJobs]
      /\ cartPc'[s] = pc /\ cartJob'[s] = j
      /\ \A t \in CartSlots \ {s} : cartPc'[t] = cartPc[t] /\ cartJob'[t] = cartJob[t]
  BY <1>1, <1>2
<1> QED
  BY <1>1, <1>3

(***************************************************************************)
(* What a save writes.                                                     *)
(***************************************************************************)

NewLine(j) == [item |-> ItemOf(j), quantity |-> Wanted(j)]

Others(j) == {line \in Range(j.cart.items) : line.item # j.call.item}

LEMMA WantedIs ==
  ASSUME NEW pc, NEW j, SlotOK(pc, j), pc \notin {"new", "done"}, j.call.op \in SettingOps
  PROVE  /\ ItemOf(j) \in Goods /\ Wanted(j) \in Nat \ {0}
         /\ NewLine(j) \in Lines
         /\ NewLine(j).item = ItemOf(j) /\ NewLine(j).quantity = Wanted(j)
<1>1. j.call \in CartCalls /\ j.cart.items \in Seq(Lines) /\ j.left \in Seq(Lines)
  BY JobFields DEF SlotOK, CartDocs
<1>2. ItemOf(j) \in Goods /\ Wanted(j) \in Nat \ {0}
  <2>1. CASE j.call.op = "mergeCart"
    <3>1. Head(j.left) \in Lines
      BY <1>1, <2>1 DEF SlotOK
    <3> DEFINE line == Head(j.left)
               i == IndexOf(j.cart.items, line.item)
    <3>2. i # 0 => i \in DOMAIN j.cart.items
      BY <1>1, IndexOfIs
    <3>3. line.item \in Goods /\ line.quantity \in Nat \ {0}
      BY <3>1, LineFields
    <3>4. i # 0 => j.cart.items[i].quantity \in Nat \ {0}
      <4> HIDE DEF i
      <4> QED
        BY <1>1, <3>2, LineFields
    <3>5. Wanted(j) = IF i = 0 THEN line.quantity
                               ELSE j.cart.items[i].quantity + line.quantity
      BY <2>1 DEF Wanted
    <3> HIDE DEF i, line
    <3>6. Wanted(j) \in Nat \ {0}
      BY <3>3, <3>4, <3>5
    <3> QED
      BY <2>1, <3>3, <3>6 DEF ItemOf, line
  <2>2. CASE j.call.op = "updateItemQuantity"
    BY <1>1, <2>2, CallFields DEF ItemOf, Wanted
  <2> QED
    BY <2>1, <2>2 DEF SettingOps
<1> QED
  BY <1>2, LineFields DEF NewLine

(* The five things a save can do to the list of a cart.                    *)
LEMMA EditIs ==
  ASSUME NEW pc, NEW j, SlotOK(pc, j), pc \notin {"new", "done"}
  PROVE  \/ Edit(j).how = "nothing"
         \/ /\ Edit(j).how = "push" /\ j.call.op \in SettingOps
            /\ Last(Edit(j).list) = NewLine(j)
         \/ /\ Edit(j).how = "quantity" /\ j.call.op \in SettingOps
            /\ Edit(j).at \in DOMAIN j.cart.items
            /\ Edit(j).list[Edit(j).at] \in Lines
            /\ Edit(j).list[Edit(j).at].item = ItemOf(j)
            /\ Edit(j).list[Edit(j).at].quantity = Wanted(j)
            /\ j.cart.items[Edit(j).at].item = ItemOf(j)
         \/ /\ Edit(j).how = "list" /\ j.call.op = "removeItem"
            /\ Edit(j).list = Filtered(j.cart.items, Others(j))
         \/ /\ Edit(j).how = "list" /\ j.call.op = "clearCart"
            /\ Edit(j).list = << >>
<1>1. j.cart.items \in Seq(Lines)
  BY JobFields DEF SlotOK, CartDocs
<1>2. CASE j.call.op \in SettingOps
  <2> DEFINE items == j.cart.items
             g == ItemOf(j)
             i == IndexOf(items, g)
  <2>1. Edit(j) = SetLine(items, g, Wanted(j))
    BY <1>2 DEF Edit, SettingOps
  <2>2. CASE i = 0
    <3>1. Edit(j).how = "push" /\ Edit(j).list = Append(items, NewLine(j))
      BY <2>1, <2>2 DEF SetLine, NewLine
    <3>2. Last(Append(items, NewLine(j))) = NewLine(j)
      <4>1. NewLine(j) \in Lines
        BY <1>2, WantedIs
      <4> HIDE DEF items
      <4> QED
        BY <1>1, <4>1 DEF items, Last
    <3> QED
      BY <1>2, <3>1, <3>2
  <2>3. CASE i # 0
    <3>1. i \in DOMAIN items /\ items[i].item = g
      BY <1>1, <2>3, IndexOfIs
    <3> HIDE DEF i
    <3>2. /\ Edit(j).how \in {"nothing", "quantity"}
          /\ Edit(j).at = i
          /\ Edit(j).list = [items EXCEPT ![i].quantity = Wanted(j)]
      BY <2>1, <2>3 DEF SetLine, i
    <3>3. items[i] \in Lines /\ Wanted(j) \in Nat \ {0}
      BY <1>1, <1>2, <3>1, WantedIs
    <3>4. Edit(j).list[i] = [items[i] EXCEPT !.quantity = Wanted(j)]
      BY <1>1, <3>1, <3>2
    <3>5. /\ Edit(j).list[i] \in Lines /\ Edit(j).list[i].item = items[i].item
          /\ Edit(j).list[i].quantity = Wanted(j)
      BY <3>3, <3>4, LineFields
    <3> QED
      BY <1>2, <3>1, <3>2, <3>5
  <2> QED
    BY <2>2, <2>3
<1>3. CASE j.call.op = "removeItem"
  BY <1>3 DEF Edit, SetList, SettingOps, Others
<1>4. CASE j.call.op = "clearCart"
  BY <1>4 DEF Edit, SetList, SettingOps
<1>5. CASE j.call.op \notin SettingOps \cup {"removeItem", "clearCart"}
  BY <1>5 DEF Edit, SetList
<1> QED
  BY <1>2, <1>3, <1>4, <1>5

LEMMA PutIsList ==
  ASSUME NEW S, NEW list \in Seq(S), NEW i, NEW x \in S
  PROVE  [list EXCEPT ![i] = x] \in Seq(S)
<1>1. CASE i \in DOMAIN list
  BY <1>1
<1>2. CASE i \notin DOMAIN list
  <2>1. [list EXCEPT ![i] = x] = list
    BY <1>2
  <2> QED
    BY <2>1
<1> QED
  BY <1>1, <1>2

(* How the list of the stored cart follows.                                *)
LEMMA WrittenIs ==
  ASSUME NEW pc, NEW j, SlotOK(pc, j), pc \notin {"new", "done"}, NEW stored \in Seq(Lines)
  PROVE  /\ Written(Edit(j), stored) \in Seq(Lines)
         /\ Edit(j).how = "nothing" => Written(Edit(j), stored) = stored
         /\ Edit(j).how = "push" => Written(Edit(j), stored) = Append(stored, NewLine(j))
         /\ Edit(j).how = "quantity" =>
              Written(Edit(j), stored) = [stored EXCEPT ![Edit(j).at] = Edit(j).list[Edit(j).at]]
         /\ Edit(j).how = "list" => Written(Edit(j), stored) = Edit(j).list
<1>1. CASE Edit(j).how = "nothing"
  BY <1>1 DEF Written
<1>2. CASE Edit(j).how = "push"
  <2>1. j.call.op \in SettingOps /\ Last(Edit(j).list) = NewLine(j)
    BY <1>2, EditIs
  <2>2. Written(Edit(j), stored) = Append(stored, NewLine(j))
    BY <1>2, <2>1 DEF Written
  <2>3. NewLine(j) \in Lines
    BY <2>1, WantedIs
  <2> QED
    BY <1>2, <2>2, <2>3
<1>3. CASE Edit(j).how = "quantity"
  <2>1. Written(Edit(j), stored) = [stored EXCEPT ![Edit(j).at] = Edit(j).list[Edit(j).at]]
    BY <1>3 DEF Written
  <2>2. Edit(j).list[Edit(j).at] \in Lines
    BY <1>3, EditIs
  <2>3. [stored EXCEPT ![Edit(j).at] = Edit(j).list[Edit(j).at]] \in Seq(Lines)
    BY <2>2, PutIsList
  <2> QED
    BY <1>3, <2>1, <2>3
<1>4. CASE Edit(j).how = "list"
  <2>1. Written(Edit(j), stored) = Edit(j).list
    BY <1>4 DEF Written
  <2>2. j.cart.items \in Seq(Lines)
    BY JobFields DEF SlotOK, CartDocs
  <2>3. Edit(j).list \in {Filtered(j.cart.items, Others(j)), << >>}
    BY <1>4, EditIs
  <2>4. Filtered(j.cart.items, Others(j)) \in Seq(Lines)
    <3> DEFINE items == j.cart.items
               K == Others(j)
    <3> HIDE DEF items, K
    <3>1. Filtered(items, K) \in Seq(Lines)
      BY <2>2, FilteredIs DEF items
    <3> QED
      BY <3>1 DEF items, K
  <2>5. Written(Edit(j), stored) \in Seq(Lines)
    <3>1. << >> \in Seq(Lines)
      OBVIOUS
    <3> QED
      BY <2>1, <2>3, <2>4, <3>1
  <2> QED
    BY <1>4, <2>1, <2>5
<1> QED
  BY <1>1, <1>2, <1>3, <1>4, EditIs

(***************************************************************************)
(* What the steps do to the requests and the carts.                        *)
(***************************************************************************)

(* A request goes on as j, at pc.                                          *)
GoesOn(s, pc, j) ==
  /\ SlotOK(pc, j)
  /\ cartPc' = [cartPc EXCEPT ![s] = pc]
  /\ cartJob' = [cartJob EXCEPT ![s] = j]

LEMMA SlotIs ==
  ASSUME TypeInv, NEW s \in CartSlots
  PROVE  /\ SlotOK(cartPc[s], cartJob[s])
         /\ cartPc[s] \in CartPCs /\ cartJob[s] \in CartJobs
         /\ cartJob[s].user \in Shoppers /\ cartJob[s].call \in CartCalls
         /\ cartPc = [cartPc EXCEPT ![s] = cartPc[s]]
         /\ cartJob = [cartJob EXCEPT ![s] = cartJob[s]]
<1>1. cartPc \in [CartSlots -> CartPCs] /\ cartJob \in [CartSlots -> CartJobs]
  BY DEF TypeInv, RemindersTypeOK, CartsTypeOK
<1>2. SlotOK(cartPc[s], cartJob[s])
  BY DEF TypeInv
<1> QED
  BY <1>1, <1>2, JobFields

LEMMA CartIs ==
  ASSUME TypeInv, NEW u \in Shoppers
  PROVE  /\ carts[u] \in CartDocs /\ carts[u].items \in Seq(Lines)
         /\ carts[u].version \in Nat /\ carts[u].exists \in BOOLEAN
         /\ carts[u].reminded \in BOOLEAN
<1>1. carts[u] \in CartDocs
  BY DEF TypeInv, RemindersTypeOK, CartsTypeOK
<1> QED
  BY <1>1 DEF CartDocs

(* A call ends, or goes on with the next line of a merge.                  *)
LEMMA EndOfLineIs ==
  ASSUME TypeInv, NEW s \in CartSlots, cartPc[s] \notin {"new", "done"}, EndOfLine(s)
  PROVE  \E pc \in {"load", "done"} : \E j :
           /\ GoesOn(s, pc, j)
           /\ j.user = cartJob[s].user /\ j.call = cartJob[s].call
<1> DEFINE old == cartJob[s]
<1>1. SlotOK(cartPc[s], old) /\ old \in CartJobs
  BY SlotIs
<1>2. CASE Len(old.left) > 1
  <2>1. Tail(old.left) \in Seq(Lines) /\ Tail(old.left) # << >>
    <3>1. old.left \in Seq(Lines)
      BY <1>1, JobFields
    <3> DEFINE left == old.left
    <3> HIDE DEF left
    <3>2. Len(left) > 1 /\ left \in Seq(Lines)
      BY <1>2, <3>1 DEF left
    <3>3. Tail(left) \in Seq(Lines) /\ Tail(left) # << >>
      <4>1. left # << >> /\ Len(left) \in Nat
        BY <3>2
      <4>2. Tail(left) \in Seq(Lines) /\ Len(Tail(left)) = Len(left) - 1
        BY <3>2, <4>1, HeadTailProperties
      <4> DEFINE tail == Tail(left)
                 m == Len(left)
                 n == Len(tail)
      <4>3. m > 1 /\ m \in Nat /\ n = m - 1 /\ tail \in Seq(Lines)
        BY <3>2, <4>1, <4>2
      <4> HIDE DEF tail, m, n
      <4>4. n > 0
        BY <4>3
      <4>5. tail # << >>
        BY <4>4 DEF n
      <4> QED
        BY <4>3, <4>5 DEF tail
    <3> QED
      BY <3>3 DEF left
  <2> DEFINE new == [old EXCEPT !.left = Tail(old.left)]
  <2>2. /\ new \in CartJobs /\ new.left # << >>
        /\ new.user = old.user /\ new.call = old.call
    <3> HIDE DEF old
    <3> QED
      BY <1>1, <2>1, JobFields
  <2>3. SlotOK("load", new)
    <3> HIDE DEF new
    <3> QED
      BY <2>2 DEF SlotOK, CartPCs
  <2>4. GoesOn(s, "load", new)
    BY <1>2, <2>3 DEF EndOfLine, CartsGoto, GoesOn
  <2> HIDE DEF new
  <2> QED
    BY <2>2, <2>4
<1>3. CASE ~ (Len(old.left) > 1)
  <2>1. SlotOK("done", old)
    BY <1>1 DEF SlotOK, CartPCs
  <2>2. GoesOn(s, "done", old)
    BY <1>3, <2>1, SlotIs DEF EndOfLine, CartsGoto, GoesOn
  <2> QED
    BY <2>2
<1> QED
  BY <1>2, <1>3

(* A cart is looked up.                                                    *)
LEMMA FindCartIs ==
  ASSUME TypeInv, NEW s \in CartSlots, NEW j, SlotOK("load", j), FindCart(s, j)
  PROVE  \E pc \in {"loaded", "missing"} : \E k :
           /\ GoesOn(s, pc, k)
           /\ k.user = j.user /\ k.call = j.call
           /\ k.cart = carts[j.user]
           /\ pc = "loaded" => carts[j.user].exists
           /\ UNCHANGED <<carts, shelf, coupons>>
<1> DEFINE d == carts[j.user]
           k == [j EXCEPT !.cart = d]
<1> HIDE DEF d
<1>1. j \in CartJobs /\ j.user \in Shoppers
  BY JobFields DEF SlotOK
<1>2. d \in CartDocs
  BY <1>1, CartIs DEF d
<1>3. k \in CartJobs /\ k.cart = d /\ k.call = j.call /\ k.user = j.user /\ k.left = j.left
  BY <1>1, <1>2, JobFields
<1>4. /\ cartJob' = [cartJob EXCEPT ![s] = k]
      /\ cartPc' = [cartPc EXCEPT ![s] = IF d.exists THEN "loaded" ELSE "missing"]
      /\ UNCHANGED <<carts, shelf, coupons>>
  BY DEF FindCart, CartsGoto, d
<1> HIDE DEF k
<1>5. SlotOK("loaded", k) /\ SlotOK("missing", k)
  BY <1>3 DEF SlotOK, CartPCs
<1>6. CASE d.exists
  <2>1. GoesOn(s, "loaded", k)
    BY <1>4, <1>5, <1>6 DEF GoesOn
  <2> QED
    BY <1>3, <1>4, <1>6, <2>1 DEF d
<1>7. CASE ~ d.exists
  <2>1. GoesOn(s, "missing", k)
    BY <1>4, <1>5, <1>7 DEF GoesOn
  <2> QED
    BY <1>3, <1>4, <2>1 DEF d
<1> QED
  BY <1>6, <1>7

(* A request finds the cart, or that there is none; ...                    *)
LoadsCart(pc, j) ==
  /\ pc \in {"loaded", "missing"}
  /\ j.cart = carts[j.user]
  /\ pc = "loaded" => carts[j.user].exists
  /\ UNCHANGED carts

(* ... creates it; ...                                                     *)
CreatesCart(pc, j) ==
  /\ pc = "loaded"
  /\ ~ carts[j.user].exists
  /\ j.cart = EmptyCart
  /\ carts' = [carts EXCEPT ![j.user] = EmptyCart]

(* ... ends without a change; ...                                          *)
EndsCall(pc, j) == pc \in {"load", "done"} /\ UNCHANGED carts

(* ... finds the stock or the subtotal high enough; ...                    *)
PassesCheck(s, pc, j) ==
  /\ cartPc[s] = "loaded" /\ pc = "checked"
  /\ j.cart = cartJob[s].cart /\ j.user = cartJob[s].user
  /\ j.call.op \in SettingOps => Wanted(j) <= j.stock
  /\ UNCHANGED carts

(* ... or saves.                                                           *)
SavesCart(s, pc, j) ==
  /\ pc \in {"load", "done"}
  /\ SaveCart(s)

RequestStep(s, pc, j) ==
  /\ GoesOn(s, pc, j)
  /\ \/ LoadsCart(pc, j)
     \/ CreatesCart(pc, j)
     \/ EndsCall(pc, j)
     \/ PassesCheck(s, pc, j)
     \/ SavesCart(s, pc, j)

LEMMA BeginCallIs ==
  ASSUME TypeInv, NEW s \in CartSlots, NEW c \in CartCalls, NEW u \in Shoppers,
         BeginCall(s, c, u)
  PROVE  \E pc, j : RequestStep(s, pc, j) /\ UNCHANGED <<shelf, coupons>>
<1> DEFINE left == IF c.op = "mergeCart" THEN c.lines ELSE << >>
           j == [IdleCartJob EXCEPT !.call = c, !.user = u, !.left = left]
<1>1. left \in Seq(Lines) /\ (c.op = "mergeCart" => left # << >>)
  <2>1. << >> \in Seq(Lines)
    OBVIOUS
  <2>2. c.op = "mergeCart" => c.lines \in Seq(Lines) /\ c.lines # << >>
    BY CallFields
  <2> QED
    BY <2>1, <2>2
<1> HIDE DEF left
<1>2. j \in CartJobs /\ j.call = c /\ j.user = u /\ j.left = left
  <2> DEFINE S == Seq(Lines)
  <2>1. IdleCartJob \in CartJobs
    BY IdleSlot DEF SlotOK
  <2> HIDE DEF S
  <2>2. IdleCartJob \in [call : CartCalls, user : Shoppers, cart : CartDocs,
                         coupon : CouponDocs, stock : Int, left : S]
    BY <2>1 DEF CartJobs, S
  <2>3. left \in S
    BY <1>1 DEF S
  <2> QED
    BY <2>2, <2>3 DEF CartJobs, S
<1>3. FindCart(s, j)
  BY DEF BeginCall, left
<1> HIDE DEF j
<1>4. SlotOK("load", j)
  BY <1>1, <1>2 DEF SlotOK, CartPCs
<1>5. PICK pc \in {"loaded", "missing"} : \E k :
        /\ GoesOn(s, pc, k)
        /\ k.user = j.user /\ k.call = j.call
        /\ k.cart = carts[j.user]
        /\ pc = "loaded" => carts[j.user].exists
        /\ UNCHANGED <<carts, shelf, coupons>>
  BY <1>3, <1>4, FindCartIs
<1> QED
  BY <1>5 DEF RequestStep, LoadsCart

LEMMA LoadCartIs ==
  ASSUME TypeInv, NEW s \in CartSlots, LoadCart(s)
  PROVE  \E pc, j : RequestStep(s, pc, j) /\ UNCHANGED <<shelf, coupons>>
<1> DEFINE j == cartJob[s]
<1>1. SlotOK("load", j) /\ FindCart(s, j)
  BY SlotIs DEF LoadCart
<1> HIDE DEF j
<1>2. PICK pc \in {"loaded", "missing"} : \E k :
        /\ GoesOn(s, pc, k)
        /\ k.user = j.user /\ k.call = j.call
        /\ k.cart = carts[j.user]
        /\ pc = "loaded" => carts[j.user].exists
        /\ UNCHANGED <<carts, shelf, coupons>>
  BY <1>1, FindCartIs
<1> QED
  BY <1>2 DEF RequestStep, LoadsCart

LEMMA CreateCartIs ==
  ASSUME TypeInv, NEW s \in CartSlots, CreateCart(s)
  PROVE  \E pc, j : RequestStep(s, pc, j) /\ UNCHANGED <<shelf, coupons>>
<1> DEFINE old == cartJob[s]
<1>1. cartPc[s] = "missing" /\ UNCHANGED <<shelf, coupons>>
  BY DEF CreateCart
<1>2. CASE carts[old.user].exists
  <2>1. EndOfLine(s) /\ UNCHANGED carts
    BY <1>2 DEF CreateCart
  <2> QED
    BY <1>1, <2>1, EndOfLineIs DEF RequestStep, EndsCall
<1>3. CASE ~ carts[old.user].exists
  <2> DEFINE j == [old EXCEPT !.cart = EmptyCart]
  <2>1. SlotOK("missing", old) /\ old \in CartJobs
    BY <1>1, SlotIs
  <2> HIDE DEF old
  <2>2. /\ j \in CartJobs /\ j.call = old.call /\ j.user = old.user
        /\ j.cart = EmptyCart /\ j.left = old.left
    BY <2>1, NewDocuments, JobFields
  <2>3. /\ carts' = [carts EXCEPT ![old.user] = EmptyCart]
        /\ cartPc' = [cartPc EXCEPT ![s] = "loaded"]
        /\ cartJob' = [cartJob EXCEPT ![s] = j]
    BY <1>3 DEF CreateCart, CartsGoto, old
  <2> HIDE DEF j
  <2>4. GoesOn(s, "loaded", j)
    BY <2>1, <2>2, <2>3 DEF GoesOn, SlotOK, CartPCs
  <2>5. RequestStep(s, "loaded", j)
    BY <1>3, <2>2, <2>3, <2>4 DEF RequestStep, CreatesCart
  <2> QED
    BY <1>1, <2>5
<1> QED
  BY <1>2, <1>3

LEMMA CheckStockIs ==
  ASSUME TypeInv, NEW s \in CartSlots, CheckStock(s)
  PROVE  \E pc, j : RequestStep(s, pc, j) /\ UNCHANGED <<shelf, coupons>>
<1> DEFINE old == cartJob[s]
           stock == shelf[ItemOf(old)]
           Fits == /\ old.call.op = "updateItemQuantity" =>
                        IndexOf(old.cart.items, old.call.item) # 0
                   /\ InStock(old, stock)
<1>1. /\ cartPc[s] = "loaded" /\ old.call.op \in SettingOps
      /\ UNCHANGED <<carts, shelf, coupons>>
  BY DEF CheckStock
<1>2. CASE ~ Fits
  <2>1. EndOfLine(s)
    BY <1>2 DEF CheckStock
  <2> QED
    BY <1>1, <2>1, EndOfLineIs DEF RequestStep, EndsCall
<1>3. CASE Fits
  <2> DEFINE j == [old EXCEPT !.stock = stock]
  <2>1. SlotOK("loaded", old) /\ old \in CartJobs
    BY <1>1, SlotIs
  <2>2. stock \in Int
    <3>1. ItemOf(old) \in Goods
      <4> HIDE DEF old
      <4> QED
        BY <1>1, <2>1, WantedIs
    <3>2. shelf \in [Goods -> Nat \cup {Gone}]
      BY DEF TypeInv, RemindersTypeOK, CartsTypeOK
    <3> QED
      BY <3>1, <3>2 DEF Gone
  <2>3. Wanted(old) <= stock
    BY <1>3 DEF InStock
  <2>4. /\ cartPc' = [cartPc EXCEPT ![s] = "checked"]
        /\ cartJob' = [cartJob EXCEPT ![s] = j]
    BY <1>3 DEF CheckStock, CartsGoto
  <2> HIDE DEF stock, old
  <2>5. /\ j \in CartJobs /\ j.call = old.call /\ j.user = old.user
        /\ j.cart = old.cart /\ j.left = old.left /\ j.stock = stock
    BY <2>1, <2>2, JobFields
  <2> HIDE DEF j
  <2>6. Wanted(j) = Wanted(old)
    BY <2>5 DEF Wanted
  <2>7. GoesOn(s, "checked", j)
    BY <2>1, <2>4, <2>5 DEF GoesOn, SlotOK, CartPCs
  <2>8. PassesCheck(s, "checked", j)
    BY <1>1, <2>3, <2>5, <2>6 DEF PassesCheck, old
  <2>9. RequestStep(s, "checked", j)
    BY <2>7, <2>8 DEF RequestStep
  <2> QED
    BY <1>1, <2>9
<1> QED
  BY <1>2, <1>3

LEMMA CheckCouponIs ==
  ASSUME TypeInv, NEW s \in CartSlots, NEW c \in CartCalls, NEW u \in Shoppers,
         CheckCoupon(s, c, u)
  PROVE  \E pc, j : RequestStep(s, pc, j) /\ UNCHANGED <<shelf, coupons>>
<1> DEFINE k == coupons[c.code]
           j == [IdleCartJob EXCEPT !.call = c, !.user = u, !.coupon = k]
<1>1. c.op = "applyCoupon" /\ UNCHANGED <<carts, shelf, coupons>>
      /\ cartPc' = [cartPc EXCEPT ![s] = "load"]
      /\ cartJob' = [cartJob EXCEPT ![s] = j]
  BY DEF CheckCoupon, CartsGoto
<1>2. k \in CouponDocs
  BY <1>1, CallFields DEF TypeInv, RemindersTypeOK, CartsTypeOK
<1> HIDE DEF k
<1>3. j \in CartJobs /\ j.call = c
  <2> DEFINE S == Seq(Lines)
  <2>1. IdleCartJob \in CartJobs
    BY IdleSlot DEF SlotOK
  <2> HIDE DEF S
  <2>2. IdleCartJob \in [call : CartCalls, user : Shoppers, cart : CartDocs,
                         coupon : CouponDocs, stock : Int, left : S]
    BY <2>1 DEF CartJobs, S
  <2> QED
    BY <1>2, <2>2 DEF CartJobs, S
<1> HIDE DEF j
<1>4. GoesOn(s, "load", j)
  BY <1>1, <1>3 DEF GoesOn, SlotOK, CartPCs
<1>5. RequestStep(s, "load", j)
  BY <1>1, <1>4 DEF RequestStep, EndsCall
<1> QED
  BY <1>1, <1>5

LEMMA CheckMinimumIs ==
  ASSUME TypeInv, NEW s \in CartSlots, CheckMinimum(s)
  PROVE  \E pc, j : RequestStep(s, pc, j) /\ UNCHANGED <<shelf, coupons>>
<1> DEFINE j == cartJob[s]
           enough == Subtotal(carts[j.user].items) >= j.coupon.minPurchase
<1> HIDE DEF enough
<1>1. /\ cartPc[s] = "loaded" /\ j.call.op = "applyCoupon"
      /\ UNCHANGED <<carts, shelf, coupons>>
      /\ cartPc' = [cartPc EXCEPT ![s] = IF enough THEN "checked" ELSE "done"]
      /\ cartJob' = [cartJob EXCEPT ![s] = j]
  BY SlotIs DEF CheckMinimum, CartsGoto, enough
<1>2. SlotOK("checked", j) /\ SlotOK("done", j)
  BY <1>1, SlotIs DEF SlotOK, CartPCs
<1>3. CASE enough
  <2>1. GoesOn(s, "checked", j)
    BY <1>1, <1>2, <1>3 DEF GoesOn
  <2>2. PassesCheck(s, "checked", j)
    BY <1>1 DEF PassesCheck, SettingOps
  <2> QED
    BY <1>1, <2>1, <2>2 DEF RequestStep
<1>4. CASE ~ enough
  <2>1. GoesOn(s, "done", j)
    BY <1>1, <1>2, <1>4 DEF GoesOn
  <2> QED
    BY <1>1, <2>1 DEF RequestStep, EndsCall
<1> QED
  BY <1>3, <1>4

LEMMA SaveCartIs ==
  ASSUME TypeInv, NEW s \in CartSlots, SaveCart(s)
  PROVE  \E pc, j : RequestStep(s, pc, j) /\ UNCHANGED <<shelf, coupons>>
<1>1. cartPc[s] \in {"loaded", "checked"} /\ EndOfLine(s) /\ UNCHANGED <<shelf, coupons>>
  BY DEF SaveCart
<1>2. PICK pc \in {"load", "done"} : \E j : GoesOn(s, pc, j)
  BY <1>1, EndOfLineIs
<1> QED
  BY <1>1, <1>2 DEF RequestStep, SavesCart

LEMMA AdministratorIs ==
  ASSUME TypeInv, NEW s \in CartSlots, NEW c \in CartCalls,
         WriteCoupon(s, c) \/ SetStock(s, c)
  PROVE  \E pc, j : RequestStep(s, pc, j)
<1> DEFINE j == cartJob[s]
<1>1. /\ cartPc' = [cartPc EXCEPT ![s] = "done"]
      /\ cartJob' = [cartJob EXCEPT ![s] = j]
      /\ UNCHANGED carts
  BY SlotIs DEF WriteCoupon, SetStock, CartsGoto
<1>2. SlotOK("done", j)
  BY SlotIs DEF SlotOK, CartPCs
<1>3. GoesOn(s, "done", j)
  BY <1>1, <1>2 DEF GoesOn
<1> QED
  BY <1>1, <1>3 DEF RequestStep, EndsCall

(* A save leaves the carts as they are, or writes the list, and raises the *)
(* version if it was pushed to or replaced.                                *)
LEMMA SavedIs ==
  ASSUME TypeInv, NEW s \in CartSlots, SaveCart(s)
  PROVE  LET j == cartJob[s]
             u == j.user
         IN  /\ carts' \in [Shoppers -> CartDocs]
             /\ \A v \in Shoppers \ {u} : carts'[v] = carts[v]
             /\ \/ carts'[u] = carts[u]
                \/ /\ Writable(Edit(j), j.cart, carts[u])
                   /\ carts'[u].items = Written(Edit(j), carts[u].items)
                   /\ carts'[u].version = IF Edit(j).how \in {"push", "list"}
                                            THEN carts[u].version + 1
                                            ELSE carts[u].version
                   /\ carts'[u].exists = carts[u].exists
                   /\ carts'[u].reminded = carts[u].reminded
<1> DEFINE j == cartJob[s]
           u == j.user
           edit == Edit(j)
           doc == carts[u]
           S == Seq(Lines)
<1>0. carts \in [Shoppers -> CartDocs]
  BY DEF TypeInv, RemindersTypeOK, CartsTypeOK
<1>1. SlotOK(cartPc[s], j) /\ j \in CartJobs /\ u \in Shoppers /\ cartPc[s] \notin {"new", "done"}
  BY SlotIs DEF SaveCart
<1>2. doc \in [exists : BOOLEAN, items : S, coupon : Codes \cup {NoCode},
               version : Nat, idle : BOOLEAN, reminded : BOOLEAN]
  BY <1>1, CartIs DEF CartDocs
<1>3. CASE ~ Writable(edit, j.cart, doc)
  <2>1. carts' = carts
    BY <1>3 DEF SaveCart
  <2> QED
    BY <1>0, <2>1
<1>4. CASE Writable(edit, j.cart, doc)
  <2> DEFINE items == Written(edit, doc.items)
             version == IF edit.how \in {"push", "list"} THEN doc.version + 1 ELSE doc.version
             code == IF CodeAfter(j) # j.cart.coupon THEN CodeAfter(j) ELSE doc.coupon
             new == [[[[doc EXCEPT !.items = items] EXCEPT !.version = version]
                        EXCEPT !.coupon = code] EXCEPT !.idle = FALSE]
  <2>1. carts' = [carts EXCEPT ![u].items = items, ![u].version = version,
                               ![u].coupon = code, ![u].idle = FALSE]
    BY <1>4 DEF SaveCart
  <2>2. items \in S
    <3> DEFINE stored == doc.items
    <3>1. stored \in Seq(Lines)
      BY <1>1, CartIs
    <3> HIDE DEF stored, j
    <3>2. Written(Edit(j), stored) \in Seq(Lines)
      BY <1>1, <3>1, WrittenIs
    <3> QED
      BY <3>2 DEF stored
  <2>3. version \in Nat
    <3> HIDE DEF edit, doc, S
    <3> QED
      BY <1>2
  <2>4. code \in Codes \cup {NoCode}
    <3>1. CodeAfter(j) \in Codes \cup {NoCode}
      <4>1. j.call \in CartCalls /\ j.cart.coupon \in Codes \cup {NoCode}
        BY <1>1, JobFields DEF CartDocs
      <4>2. j.call.op = "applyCoupon" => j.call.code \in Codes
        BY <4>1, CallFields
      <4> HIDE DEF j
      <4>3. CASE j.call.op = "applyCoupon"
        BY <4>2, <4>3 DEF CodeAfter
      <4>4. CASE j.call.op \in {"clearCart", "removeCoupon"}
        BY <4>4 DEF CodeAfter
      <4>5. CASE j.call.op \notin {"applyCoupon", "clearCart", "removeCoupon"}
        BY <4>1, <4>5 DEF CodeAfter
      <4> QED
        BY <4>3, <4>4, <4>5
    <3> HIDE DEF j, S
    <3> QED
      BY <1>2, <3>1
  <2> HIDE DEF items, version, code, j, S
  <2>5. /\ new \in CartDocs /\ new.items = items /\ new.version = version
        /\ new.exists = doc.exists /\ new.reminded = doc.reminded
    <3> HIDE DEF doc
    <3> QED
      BY <1>2, <2>2, <2>3, <2>4 DEF CartDocs, S
  <2>6. carts' = [carts EXCEPT ![u] = new]
    BY <1>0, <1>1, <2>1
  <2> HIDE DEF new
  <2>7. /\ carts' \in [Shoppers -> CartDocs] /\ carts'[u] = new
        /\ \A v \in Shoppers \ {u} : carts'[v] = carts[v]
    BY <1>0, <1>1, <2>5, <2>6
  <2> QED
    BY <1>4, <2>5, <2>7 DEF items, version, j
<1> QED
  BY <1>3, <1>4

(* The types of the carts are kept by every step of a request.             *)
LEMMA RequestTypes ==
  ASSUME TypeInv, NEW s \in CartSlots, NEW pc, NEW j, RequestStep(s, pc, j)
  PROVE  /\ carts' \in [Shoppers -> CartDocs]
         /\ cartPc' \in [CartSlots -> CartPCs] /\ cartJob' \in [CartSlots -> CartJobs]
         /\ \A t \in CartSlots : SlotOK(cartPc'[t], cartJob'[t])
<1>1. carts \in [Shoppers -> CartDocs]
  BY DEF TypeInv, RemindersTypeOK, CartsTypeOK
<1>2. carts' \in [Shoppers -> CartDocs]
  <2>1. CASE CreatesCart(pc, j)
    BY <1>1, <2>1, NewDocuments DEF CreatesCart
  <2>2. CASE SavesCart(s, pc, j)
    BY <2>2, SavedIs DEF SavesCart
  <2>3. CASE UNCHANGED carts
    BY <1>1, <2>3
  <2> QED
    BY <2>1, <2>2, <2>3 DEF RequestStep, LoadsCart, EndsCall, PassesCheck
<1> QED
  BY <1>2, SlotSet DEF RequestStep, GoesOn

(* Every step of the carts is one of a request, or time passes.            *)
TimePasses ==
  /\ UNCHANGED <<cartPc, cartJob>>
  /\ \/ UNCHANGED carts
     \/ \E u \in Shoppers : GrowIdle(u)

LEMMA CartsStepIs ==
  ASSUME TypeInv, CartsNext
  PROVE  \/ \E s \in CartSlots : \E pc, j : RequestStep(s, pc, j)
         \/ TimePasses
<1>1. CASE \E s \in CartSlots, c \in CartCalls, u \in Shoppers :
             BeginCall(s, c, u) \/ CheckCoupon(s, c, u)
  BY <1>1, BeginCallIs, CheckCouponIs
<1>2. CASE \E s \in CartSlots, c \in CartCalls : WriteCoupon(s, c) \/ SetStock(s, c)
  BY <1>2, AdministratorIs
<1>3. CASE \E s \in CartSlots : \/ LoadCart(s) \/ CreateCart(s) \/ CheckStock(s)
                                \/ CheckMinimum(s) \/ SaveCart(s)
  BY <1>3, LoadCartIs, CreateCartIs, CheckStockIs, CheckMinimumIs, SaveCartIs
<1>4. CASE \E code \in Codes : ExpireCoupon(code)
  BY <1>4 DEF ExpireCoupon, TimePasses
<1>5. CASE \E u \in Shoppers : GrowIdle(u)
  BY <1>5 DEF GrowIdle, TimePasses
<1> QED
  BY <1>1, <1>2, <1>3, <1>4, <1>5 DEF CartsNext

(* What the administrator and time do to stocks and coupons.               *)
LEMMA ShelfAndCoupons ==
  ASSUME TypeInv, CartsNext
  PROVE  /\ shelf' \in [Goods -> Nat \cup {Gone}]
         /\ coupons' \in [Codes -> CouponDocs]
<1>1. shelf \in [Goods -> Nat \cup {Gone}] /\ coupons \in [Codes -> CouponDocs]
  BY DEF TypeInv, RemindersTypeOK, CartsTypeOK
<1>2. CASE UNCHANGED <<shelf, coupons>>
  BY <1>1, <1>2
<1>3. ASSUME NEW s \in CartSlots, NEW c \in CartCalls, WriteCoupon(s, c)
      PROVE  UNCHANGED shelf /\ coupons' \in [Codes -> CouponDocs]
  <2>1. CASE c.op \in {"create", "update"}
    <3>1. coupons' = [coupons EXCEPT ![c.code] = c.coupon]
      BY <1>3, <2>1 DEF WriteCoupon
    <3> QED
      BY <1>1, <1>3, <2>1, <3>1, CallFields DEF WriteCoupon
  <2>2. CASE c.op = "remove"
    <3>1. coupons' = [coupons EXCEPT ![c.code] = NoCoupon]
      BY <1>3, <2>2 DEF WriteCoupon
    <3> QED
      BY <1>1, <1>3, <3>1, NewDocuments DEF WriteCoupon
  <2> QED
    BY <1>3, <2>1, <2>2 DEF WriteCoupon
<1>4. ASSUME NEW s \in CartSlots, NEW c \in CartCalls, SetStock(s, c)
      PROVE  UNCHANGED coupons /\ shelf' \in [Goods -> Nat \cup {Gone}]
  <2>1. c.item \in Goods /\ c.stock \in Nat \cup {Gone}
    BY <1>4, CallFields DEF SetStock
  <2> QED
    BY <1>1, <1>4, <2>1 DEF SetStock
<1>5. ASSUME NEW code \in Codes, ExpireCoupon(code)
      PROVE  UNCHANGED shelf /\ coupons' \in [Codes -> CouponDocs]
  <2> DEFINE new == [coupons[code] EXCEPT !.expired = TRUE]
  <2>1. new \in CouponDocs
    BY <1>1 DEF CouponDocs
  <2>2. coupons' = [coupons EXCEPT ![code] = new]
    BY <1>1, <1>5 DEF ExpireCoupon
  <2> HIDE DEF new
  <2> QED
    BY <1>1, <1>5, <2>1, <2>2 DEF ExpireCoupon
<1>6. \/ UNCHANGED <<shelf, coupons>>
      \/ \E s \in CartSlots, c \in CartCalls : WriteCoupon(s, c) \/ SetStock(s, c)
      \/ \E code \in Codes : ExpireCoupon(code)
  <2>1. CASE \E s \in CartSlots, c \in CartCalls, u \in Shoppers :
               BeginCall(s, c, u) \/ CheckCoupon(s, c, u)
    BY <2>1 DEF BeginCall, FindCart, CheckCoupon
  <2>2. CASE \E s \in CartSlots : \/ LoadCart(s) \/ CreateCart(s) \/ CheckStock(s)
                                  \/ CheckMinimum(s) \/ SaveCart(s)
    BY <2>2 DEF LoadCart, FindCart, CreateCart, CheckStock, CheckMinimum, SaveCart
  <2>3. CASE \E u \in Shoppers : GrowIdle(u)
    BY <2>3 DEF GrowIdle
  <2> QED
    BY <2>1, <2>2, <2>3 DEF CartsNext
<1> QED
  BY <1>1, <1>2, <1>3, <1>4, <1>5, <1>6

(***************************************************************************)
(* The job.                                                                *)
(***************************************************************************)

BatchCarts == [user : Shoppers, items : Seq(Lines)]

LEMMA JobIs ==
  ASSUME TypeInv
  PROVE  /\ batch \in Seq(BatchCarts) /\ runPc \in RunPCs
         /\ mails \in [Shoppers -> Nat] /\ unmarked \in [Shoppers -> Nat]
         /\ failures \in 0..MaxFailures
         /\ \A i \in DOMAIN batch : batch[i].user \in Shoppers
         /\ runPc # "idle" => 1 \in DOMAIN batch /\ Head(batch) = batch[1]
                              /\ Head(batch).user \in Shoppers
<1>1. /\ batch \in Seq(BatchCarts) /\ runPc \in RunPCs
      /\ mails \in [Shoppers -> Nat] /\ unmarked \in [Shoppers -> Nat]
      /\ failures \in 0..MaxFailures
      /\ runPc # "idle" => batch # << >>
  BY DEF TypeInv, RemindersTypeOK, BatchCarts
<1>2. \A b \in BatchCarts : b.user \in Shoppers
  BY DEF BatchCarts
<1>3. runPc # "idle" => 1 \in DOMAIN batch /\ Head(batch) = batch[1]
  BY <1>1
<1> QED
  BY <1>1, <1>2, <1>3

(* The next cart of the batch, if there is one.                            *)
LEMMA NextCartIs ==
  ASSUME TypeInv, runPc # "idle", NextCartOfRun
  PROVE  /\ batch' \in Seq(BatchCarts)
         /\ runPc' \in {"items", "idle"} /\ (runPc' # "idle" => batch' # << >>)
         /\ \A i \in DOMAIN batch' : i + 1 \in DOMAIN batch /\ batch'[i] = batch[i + 1]
<1>1. batch \in Seq(BatchCarts) /\ batch # << >>
  BY JobIs DEF TypeInv
<1>2. PICK tail : tail = Tail(batch)
  OBVIOUS
<1>3. /\ tail \in Seq(BatchCarts) /\ Len(tail) = Len(batch) - 1
      /\ \A i \in 1..Len(tail) : tail[i] = batch[i + 1]
  BY <1>1, <1>2, HeadTailProperties
<1>4. batch' = tail /\ runPc' = IF Len(batch) > 1 THEN "items" ELSE "idle"
  BY <1>2 DEF NextCartOfRun
<1>5. Len(batch) > 1 => tail # << >>
  <2> SUFFICES ASSUME Len(batch) > 1, tail = << >> PROVE FALSE
    OBVIOUS
  <2>1. Len(tail) = 0
    OBVIOUS
  <2>2. Len(tail) = Len(batch) - 1 /\ Len(batch) \in Nat
    BY <1>1, <1>3
  <2> DEFINE m == Len(batch)
             n == Len(tail)
  <2>3. m > 1 /\ n = 0 /\ n = m - 1 /\ m \in Nat
    BY <2>1, <2>2
  <2> HIDE DEF m, n
  <2> QED
    BY <2>3
<1>6. \A i \in DOMAIN tail : i + 1 \in DOMAIN batch /\ tail[i] = batch[i + 1]
  <2>1. DOMAIN tail = 1..Len(tail) /\ DOMAIN batch = 1..Len(batch)
        /\ Len(batch) \in Nat /\ Len(tail) \in Nat
    BY <1>1, <1>3
  <2> QED
    BY <1>3, <2>1
<1> QED
  BY <1>3, <1>4, <1>5, <1>6

(* The carts that a run finds are abandoned, and of different shoppers.    *)
LEMMA StartRunIs ==
  ASSUME TypeInv, StartRun
  PROVE  /\ batch' \in Seq(BatchCarts) /\ batch' # << >>
         /\ \A i \in DOMAIN batch' : Abandoned(carts[batch'[i].user])
         /\ \A i, k \in DOMAIN batch' : batch'[i].user = batch'[k].user => i = k
<1> DEFINE K == {u \in Shoppers : Abandoned(carts[u])}
           found == Filtered(CartOrder, K)
           n == IF Len(found) < Batch THEN Len(found) ELSE Batch
           first == SubSeq(found, 1, n)
<1>1. CartOrder \in Seq(Shoppers) /\ IsInjective(CartOrder) /\ Batch \in Nat \ {0}
  BY RemindersAssumption
<1>2. /\ found # << >>
      /\ batch' = [i \in DOMAIN first |-> [user |-> first[i], items |-> carts[first[i]].items]]
  BY DEF StartRun
<1>3. /\ found \in Seq(Shoppers) /\ IsInjective(found)
      /\ \A i \in DOMAIN found : found[i] \in K
  <2> HIDE DEF K
  <2> QED
    BY <1>1, FilteredIs
<1> HIDE DEF found
<1>4. n \in 1..Len(found)
  BY <1>1, <1>2, <1>3
<1> HIDE DEF n
<1>5. /\ first \in Seq(Shoppers) /\ DOMAIN first = 1..n
      /\ \A i \in 1..n : i \in DOMAIN found /\ first[i] = found[i]
  BY <1>3, <1>4
<1> HIDE DEF first
<1>6. \A i \in DOMAIN first : Abandoned(carts[first[i]])
  BY <1>3, <1>5
<1>7. \A i, k \in DOMAIN first : first[i] = first[k] => i = k
  BY <1>3, <1>5 DEF IsInjective
<1>8. \A i \in DOMAIN first : first[i] \in Shoppers
  BY <1>3, <1>5
<1>9. ASSUME NEW i \in 1..n
      PROVE  [user |-> first[i], items |-> carts[first[i]].items] \in BatchCarts
  <2>1. carts[first[i]].items \in Seq(Lines)
    BY <1>5, <1>8, CartIs
  <2> DEFINE S == Seq(Lines)
             list == carts[first[i]].items
  <2>2. list \in S
    BY <2>1
  <2> HIDE DEF S, list
  <2>3. [user |-> first[i], items |-> list] \in BatchCarts
    BY <1>5, <1>8, <2>2 DEF BatchCarts, S
  <2> QED
    BY <2>3 DEF list
<1>10. /\ DOMAIN batch' = 1..n
       /\ \A i \in 1..n : batch'[i] \in BatchCarts /\ batch'[i].user = first[i]
  BY <1>2, <1>5, <1>9
<1>11. batch' \in Seq(BatchCarts) /\ batch' # << >>
  <2>1. n \in Nat /\ n # 0
    BY <1>4
  <2>2. batch' = [i \in 1..n |-> batch'[i]]
    BY <1>2, <1>5
  <2>3. batch' \in Seq(BatchCarts)
    BY <1>10, <2>1, <2>2
  <2> QED
    BY <1>10, <2>1, <2>3
<1> QED
  BY <1>5, <1>6, <1>7, <1>10, <1>11

LEMMA MarkIs ==
  ASSUME TypeInv, MarkReminded
  PROVE  /\ carts' \in [Shoppers -> CartDocs]
         /\ \A u \in Shoppers \ {batch[1].user} : carts'[u] = carts[u]
         /\ \A u \in Shoppers : /\ carts'[u].items = carts[u].items
                                /\ carts'[u].version = carts[u].version
                                /\ carts'[u].exists = carts[u].exists
         /\ carts'[batch[1].user].reminded
<1> DEFINE u == batch[1].user
           S == Seq(Lines)
<1> HIDE DEF u
<1>1. u \in Shoppers /\ carts' = [carts EXCEPT ![u].reminded = TRUE]
  BY JobIs DEF MarkReminded, u
<1>2. carts \in [Shoppers -> CartDocs]
  BY DEF TypeInv, RemindersTypeOK, CartsTypeOK
<1>3. PICK new : new = [carts[u] EXCEPT !.reminded = TRUE]
  OBVIOUS
<1>4. carts[u] \in [exists : BOOLEAN, items : S, coupon : Codes \cup {NoCode},
                    version : Nat, idle : BOOLEAN, reminded : BOOLEAN]
  BY <1>1, <1>2 DEF CartDocs
<1> HIDE DEF S
<1>5. /\ new \in CartDocs /\ new.reminded /\ new.items = carts[u].items
      /\ new.version = carts[u].version /\ new.exists = carts[u].exists
  BY <1>3, <1>4 DEF CartDocs, S
<1>6. carts' = [carts EXCEPT ![u] = new]
  BY <1>1, <1>2, <1>3
<1>7. carts' \in [Shoppers -> CartDocs] /\ carts'[u] = new
      /\ \A v \in Shoppers \ {u} : carts'[v] = carts[v]
  BY <1>1, <1>2, <1>5, <1>6
<1> QED
  BY <1>5, <1>7 DEF u

LEMMA JobTypes ==
  ASSUME TypeInv, JobNext
  PROVE  TypeInv'
<1>1. CASE StartRun
  <2>1. /\ UNCHANGED <<cartsVars, mails, unmarked, failures>> /\ runPc' = "items"
        /\ batch' \in Seq(BatchCarts) /\ batch' # << >>
    BY <1>1, StartRunIs DEF StartRun
  <2> QED
    BY <2>1 DEF TypeInv, RemindersTypeOK, CartsTypeOK, cartsVars, RunPCs, BatchCarts
<1>2. CASE ReadItems \/ FindReturnCoupon \/ SendReminder
  <2>1. /\ UNCHANGED <<cartsVars, unmarked, failures>>
        /\ runPc' \in RunPCs /\ batch' \in Seq(BatchCarts)
        /\ runPc' # "idle" => batch' # << >>
    <3>1. CASE ReadItems
      <4>1. CASE Presentable(Head(batch).items)
        BY <3>1, <4>1, JobIs DEF ReadItems, RunPCs, TypeInv
      <4>2. CASE ~ Presentable(Head(batch).items)
        <5>1. NextCartOfRun /\ runPc # "idle"
          BY <3>1, <4>2 DEF ReadItems
        <5> QED
          BY <3>1, <5>1, NextCartIs DEF ReadItems, RunPCs
      <4> QED
        BY <4>1, <4>2
    <3>2. CASE FindReturnCoupon
      BY <3>2, JobIs DEF FindReturnCoupon, RunPCs, TypeInv
    <3>3. CASE SendReminder
      BY <3>3, JobIs DEF SendReminder, RunPCs, TypeInv
    <3> QED
      BY <1>2, <3>1, <3>2, <3>3
  <2>2. mails' \in [Shoppers -> Nat]
    BY <1>2, JobIs DEF ReadItems, FindReturnCoupon, SendReminder
  <2> QED
    BY <2>1, <2>2 DEF TypeInv, RemindersTypeOK, CartsTypeOK, cartsVars, BatchCarts
<1>3. CASE CreateReturnCoupon
  <2>1. /\ runPc' \in RunPCs /\ batch' \in Seq(BatchCarts)
        /\ runPc' # "idle" => batch' # << >>
    <3>1. CASE coupons[ReturnCode].exists
      <4>1. NextCartOfRun /\ runPc # "idle"
        BY <1>3, <3>1 DEF CreateReturnCoupon
      <4> QED
        BY <4>1, NextCartIs DEF RunPCs
    <3>2. CASE ~ coupons[ReturnCode].exists
      BY <1>3, <3>2, JobIs DEF CreateReturnCoupon, RunPCs, TypeInv
    <3> QED
      BY <3>1, <3>2
  <2>2. coupons' \in [Codes -> CouponDocs]
    <3> DEFINE new == [NoCoupon EXCEPT !.exists = TRUE, !.active = TRUE,
                                       !.type = "percentage", !.value = 5]
    <3>1. new \in CouponDocs
      BY DEF NoCoupon, CouponDocs
    <3>2. coupons' = coupons \/ coupons' = [coupons EXCEPT ![ReturnCode] = new]
      BY <1>3 DEF CreateReturnCoupon
    <3> HIDE DEF new
    <3> QED
      BY <3>1, <3>2 DEF TypeInv, RemindersTypeOK, CartsTypeOK
  <2>3. UNCHANGED <<carts, shelf, cartPc, cartJob, mails, unmarked, failures>>
    BY <1>3 DEF CreateReturnCoupon
  <2> QED
    BY <2>1, <2>2, <2>3 DEF TypeInv, RemindersTypeOK, CartsTypeOK, BatchCarts
<1>4. CASE MarkReminded
  <2>1. NextCartOfRun /\ runPc # "idle" /\ carts' \in [Shoppers -> CartDocs]
        /\ UNCHANGED <<shelf, coupons, cartPc, cartJob, mails, unmarked, failures>>
    BY <1>4, MarkIs DEF MarkReminded
  <2>2. /\ runPc' \in RunPCs /\ batch' \in Seq(BatchCarts)
        /\ runPc' # "idle" => batch' # << >>
    BY <2>1, NextCartIs DEF RunPCs
  <2> QED
    BY <2>1, <2>2 DEF TypeInv, RemindersTypeOK, CartsTypeOK, BatchCarts
<1>5. CASE CartFails \/ CrashRun
  <2>1. runPc # "idle" /\ UNCHANGED <<cartsVars, mails>>
        /\ failures < MaxFailures /\ failures' = failures + 1
        /\ unmarked' = [unmarked EXCEPT ![Head(batch).user] =
                          IF runPc = "mark" THEN @ + 1 ELSE @]
    BY <1>5 DEF CartFails, CrashRun
  <2>2. failures' \in 0..MaxFailures
    BY <2>1, JobIs, RemindersAssumption
  <2>3. unmarked' \in [Shoppers -> Nat]
    BY <2>1, JobIs
  <2>4. /\ runPc' \in RunPCs /\ batch' \in Seq(BatchCarts)
        /\ runPc' # "idle" => batch' # << >>
    <3>1. CASE CartFails
      BY <2>1, <3>1, NextCartIs DEF CartFails, RunPCs
    <3>2. CASE CrashRun
      BY <3>2 DEF CrashRun, RunPCs
    <3> QED
      BY <1>5, <3>1, <3>2
  <2> QED
    BY <2>1, <2>2, <2>3, <2>4 DEF TypeInv, RemindersTypeOK, CartsTypeOK, cartsVars, BatchCarts
<1> QED
  BY <1>1, <1>2, <1>3, <1>4, <1>5 DEF JobNext, RunStep

(* The last cart that grew idle.                                           *)
LEMMA GrowIdleIs ==
  ASSUME TypeInv, NEW u \in Shoppers, GrowIdle(u)
  PROVE  /\ carts' \in [Shoppers -> CartDocs]
         /\ \A v \in Shoppers \ {u} : carts'[v] = carts[v]
         /\ \A v \in Shoppers : /\ carts'[v].items = carts[v].items
                                /\ carts'[v].version = carts[v].version
                                /\ carts'[v].exists = carts[v].exists
                                /\ carts'[v].reminded = carts[v].reminded
         /\ carts[u].exists
<1> DEFINE S == Seq(Lines)
<1>1. carts' = [carts EXCEPT ![u].idle = TRUE] /\ carts[u].exists
  BY DEF GrowIdle
<1>2. carts \in [Shoppers -> CartDocs]
  BY DEF TypeInv, RemindersTypeOK, CartsTypeOK
<1>3. PICK new : new = [carts[u] EXCEPT !.idle = TRUE]
  OBVIOUS
<1>4. carts[u] \in [exists : BOOLEAN, items : S, coupon : Codes \cup {NoCode},
                    version : Nat, idle : BOOLEAN, reminded : BOOLEAN]
  BY <1>2 DEF CartDocs
<1> HIDE DEF S
<1>5. /\ new \in CartDocs /\ new.reminded = carts[u].reminded /\ new.items = carts[u].items
      /\ new.version = carts[u].version /\ new.exists = carts[u].exists
  BY <1>3, <1>4 DEF CartDocs, S
<1>6. carts' = [carts EXCEPT ![u] = new]
  BY <1>1, <1>2, <1>3
<1>7. carts' \in [Shoppers -> CartDocs] /\ carts'[u] = new
      /\ \A v \in Shoppers \ {u} : carts'[v] = carts[v]
  BY <1>2, <1>5, <1>6
<1> QED
  BY <1>1, <1>5, <1>7

LEMMA TypeInit == RemindersInit => TypeInv
<1> SUFFICES ASSUME RemindersInit PROVE TypeInv
  OBVIOUS
<1>1. /\ carts \in [Shoppers -> CartDocs] /\ shelf \in [Goods -> Nat \cup {Gone}]
      /\ coupons \in [Codes -> CouponDocs]
  BY CartsAssumption DEF RemindersInit, CartsInit
<1>2. /\ cartPc = [s \in CartSlots |-> "new"] /\ cartJob = [s \in CartSlots |-> IdleCartJob]
  BY DEF RemindersInit, CartsInit
<1>3. \A s \in CartSlots : SlotOK(cartPc[s], cartJob[s])
  BY <1>2, IdleSlot
<1>4. cartPc \in [CartSlots -> CartPCs] /\ cartJob \in [CartSlots -> CartJobs]
  BY <1>2, IdleSlot DEF SlotOK
<1>5. /\ runPc = "idle" /\ batch \in Seq(BatchCarts) /\ mails \in [Shoppers -> Nat]
      /\ unmarked \in [Shoppers -> Nat] /\ failures \in 0..MaxFailures
  BY RemindersAssumption DEF RemindersInit, JobInit
<1> QED
  BY <1>1, <1>3, <1>4, <1>5 DEF TypeInv, RemindersTypeOK, CartsTypeOK, RunPCs, BatchCarts

LEMMA TypeStep == TypeInv /\ [RemindersNext]_remindersVars => TypeInv'
<1> SUFFICES ASSUME TypeInv, [RemindersNext]_remindersVars PROVE TypeInv'
  OBVIOUS
<1>1. CASE JobNext
  BY <1>1, JobTypes
<1>2. CASE CartsNext /\ UNCHANGED jobVars
  <2>1. /\ carts' \in [Shoppers -> CartDocs]
        /\ cartPc' \in [CartSlots -> CartPCs] /\ cartJob' \in [CartSlots -> CartJobs]
        /\ \A t \in CartSlots : SlotOK(cartPc'[t], cartJob'[t])
    <3>1. ASSUME NEW s \in CartSlots, NEW pc, NEW j, RequestStep(s, pc, j)
          PROVE  /\ carts' \in [Shoppers -> CartDocs]
                 /\ cartPc' \in [CartSlots -> CartPCs] /\ cartJob' \in [CartSlots -> CartJobs]
                 /\ \A t \in CartSlots : SlotOK(cartPc'[t], cartJob'[t])
      BY <3>1, RequestTypes
    <3>2. CASE TimePasses
      <4>1. carts' \in [Shoppers -> CartDocs]
        BY <3>2, GrowIdleIs DEF TimePasses, TypeInv, RemindersTypeOK, CartsTypeOK
      <4> QED
        BY <3>2, <4>1 DEF TimePasses, TypeInv, RemindersTypeOK, CartsTypeOK
    <3> QED
      BY <1>2, <3>1, <3>2, CartsStepIs
  <2> QED
    BY <1>2, <2>1, ShelfAndCoupons DEF jobVars, TypeInv, RemindersTypeOK, CartsTypeOK
<1>3. CASE UNCHANGED remindersVars
  BY <1>3 DEF remindersVars, cartsVars, jobVars, TypeInv, RemindersTypeOK, CartsTypeOK
<1> QED
  BY <1>1, <1>2, <1>3 DEF RemindersNext

(* Every cart, coupon, request and batch is always of its type: what       *)
(* handlers, administrators and the job write through one another included.*)
THEOREM RemindersTypeCorrect == RemindersSpec => []RemindersTypeOK
<1>1. TypeInv => RemindersTypeOK
  BY DEF TypeInv
<1> QED
  BY <1>1, TypeInit, TypeStep, PTL DEF RemindersSpec

(***************************************************************************)
(* The copies that handlers work on.  A copy is of a cart that exists, is  *)
(* not newer than it, and has the same items at the same places as long as *)
(* the versions are equal: only then may it be written by place or whole.  *)
(* The job, too, has carts that exist.                                     *)
(***************************************************************************)

SameItems(a, b) == Len(a) = Len(b) /\ \A i \in DOMAIN a : a[i].item = b[i].item

CopyOf(d, stored) ==
  /\ stored.exists
  /\ d.version <= stored.version
  /\ d.version = stored.version => SameItems(d.items, stored.items)

CopyInv ==
  /\ \A u \in Shoppers : ~ carts[u].exists => carts[u] = NoCart
  /\ \A i \in DOMAIN batch : carts[batch[i].user].exists
  /\ \A s \in CartSlots :
       /\ cartPc[s] \in {"loaded", "checked"} =>
            CopyOf(cartJob[s].cart, carts[cartJob[s].user])
       /\ cartPc[s] = "checked" /\ cartJob[s].call.op \in SettingOps =>
            Wanted(cartJob[s]) <= cartJob[s].stock

(* Later states of a cart, as far as its copies go.                        *)
Later(old, new) ==
  /\ old.exists => new.exists
  /\ old.version <= new.version
  /\ old.version = new.version => SameItems(old.items, new.items)

LEMMA CopyOfLater ==
  ASSUME NEW d \in CartDocs, NEW old \in CartDocs, NEW new \in CartDocs,
         CopyOf(d, old), Later(old, new)
  PROVE  CopyOf(d, new)
<1>1. /\ d.version \in Nat /\ old.version \in Nat /\ new.version \in Nat
      /\ d.items \in Seq(Lines) /\ old.items \in Seq(Lines) /\ new.items \in Seq(Lines)
  BY DEF CartDocs
<1>2. new.exists /\ d.version <= new.version
  BY <1>1 DEF CopyOf, Later
<1>3. ASSUME d.version = new.version PROVE SameItems(d.items, new.items)
  <2>1. d.version = old.version /\ old.version = new.version
    BY <1>1, <1>3 DEF CopyOf, Later
  <2>2. SameItems(d.items, old.items) /\ SameItems(old.items, new.items)
    BY <2>1 DEF CopyOf, Later
  <2> DEFINE a == d.items
             b == old.items
             c == new.items
  <2>3. a \in Seq(Lines) /\ b \in Seq(Lines) /\ c \in Seq(Lines)
    BY <1>1
  <2>4. SameItems(a, b) /\ SameItems(b, c)
    BY <2>2
  <2> HIDE DEF a, b, c
  <2>5. SameItems(a, c)
    BY <2>3, <2>4 DEF SameItems
  <2> QED
    BY <2>5 DEF a, c
<1> QED
  BY <1>2, <1>3 DEF CopyOf

(* A save that does not raise the version leaves every item at its place.  *)
LEMMA SavedLater ==
  ASSUME TypeInv, CopyInv, NEW s \in CartSlots, SaveCart(s)
  PROVE  /\ carts[cartJob[s].user].exists /\ carts'[cartJob[s].user].exists
         /\ Later(carts[cartJob[s].user], carts'[cartJob[s].user])
         /\ carts'[cartJob[s].user].reminded = carts[cartJob[s].user].reminded
<1> DEFINE j == cartJob[s]
           u == j.user
           old == carts[u]
           new == carts'[u]
           edit == Edit(j)
<1>1. /\ SlotOK(cartPc[s], j) /\ j \in CartJobs /\ u \in Shoppers
      /\ cartPc[s] \notin {"new", "done"} /\ CopyOf(j.cart, old)
  BY SlotIs DEF SaveCart, CopyInv
<1>2. old.items \in Seq(Lines) /\ old.version \in Nat
  BY <1>1, CartIs
<1>3. CASE new = old
  BY <1>1, <1>2, <1>3 DEF Later, SameItems, CopyOf
<1>4. CASE /\ Writable(edit, j.cart, old)
           /\ new.items = Written(edit, old.items)
           /\ new.version = IF edit.how \in {"push", "list"} THEN old.version + 1
                                                            ELSE old.version
           /\ new.exists = old.exists
           /\ new.reminded = old.reminded
  <2>1. CASE edit.how \in {"push", "list"}
    BY <1>1, <1>2, <1>4, <2>1 DEF Later, CopyOf
  <2>2. CASE edit.how = "nothing"
    <3>1. new.items = old.items /\ new.version = old.version
      <4> HIDE DEF old, j
      <4> QED
        BY <1>1, <1>2, <1>4, <2>2, WrittenIs
    <3> QED
      BY <1>1, <1>2, <1>4, <3>1 DEF Later, SameItems, CopyOf
  <2>3. CASE edit.how = "quantity"
    <3> DEFINE at == edit.at
               line == edit.list[at]
    <3>1. /\ j.call.op \in SettingOps /\ at \in DOMAIN j.cart.items
          /\ line \in Lines /\ line.item = ItemOf(j)
          /\ j.cart.items[at].item = ItemOf(j)
      <4> HIDE DEF j
      <4> QED
        BY <1>1, <2>3, EditIs
    <3>2. SameItems(j.cart.items, old.items)
      BY <1>1, <1>4, <2>3 DEF CopyOf, Writable
    <3>3. j.cart.items \in Seq(Lines)
      BY <1>1, JobFields DEF CartDocs
    <3>4. new.items = [old.items EXCEPT ![at] = line] /\ new.version = old.version
      <4> HIDE DEF old, j
      <4> QED
        BY <1>1, <1>2, <1>4, <2>3, WrittenIs
    <3> DEFINE a == old.items
               b == j.cart.items
    <3> HIDE DEF at, line
    <3>5. /\ a \in Seq(Lines) /\ b \in Seq(Lines) /\ at \in DOMAIN b
          /\ b[at].item = line.item /\ SameItems(b, a)
      BY <1>2, <3>1, <3>2, <3>3
    <3> HIDE DEF a, b
    <3>6. SameItems(a, [a EXCEPT ![at] = line])
      BY <3>5 DEF SameItems
    <3>7. SameItems(old.items, new.items)
      BY <3>4, <3>6 DEF a
    <3> QED
      BY <1>1, <1>2, <1>4, <3>4, <3>7 DEF Later, CopyOf
  <2> QED
    BY <2>1, <2>2, <2>3, EditIs, <1>1
<1> QED
  BY <1>3, <1>4, SavedIs

(* What every step of the shop does to a cart.                             *)
LEMMA CartLater ==
  ASSUME TypeInv, CopyInv, [RemindersNext]_remindersVars, NEW u \in Shoppers
  PROVE  /\ Later(carts[u], carts'[u])
         /\ ~ carts'[u].exists => carts'[u] = NoCart
         /\ ~ MarkReminded => carts'[u].reminded = carts[u].reminded
<1>1. /\ carts[u].version \in Nat /\ carts[u].exists \in BOOLEAN /\ carts[u] \in CartDocs
      /\ carts[u].items \in Seq(Lines) /\ (~ carts[u].exists => carts[u] = NoCart)
  BY CartIs DEF CopyInv
<1>2. CASE carts'[u] = carts[u]
  BY <1>1, <1>2 DEF Later, SameItems
<1>3. CASE MarkReminded /\ u = batch[1].user
  <2>1. /\ carts'[u].items = carts[u].items /\ carts'[u].version = carts[u].version
        /\ carts'[u].exists = carts[u].exists
    BY <1>3, MarkIs
  <2>2. carts[u].exists
    BY <1>3, JobIs DEF CopyInv, MarkReminded
  <2> QED
    BY <1>1, <1>3, <2>1, <2>2 DEF Later, SameItems
<1>4. CASE \E v \in Shoppers : GrowIdle(v) /\ u = v
  BY <1>1, <1>4, GrowIdleIs DEF Later, SameItems
<1>5. ASSUME NEW s \in CartSlots, NEW pc, NEW j, RequestStep(s, pc, j),
             carts'[u] # carts[u], CartsNext
      PROVE  /\ Later(carts[u], carts'[u])
             /\ ~ carts'[u].exists => carts'[u] = NoCart
             /\ carts'[u].reminded = carts[u].reminded
  <2>1. CASE CreatesCart(pc, j)
    <3>1. carts \in [Shoppers -> CartDocs]
      BY DEF TypeInv, RemindersTypeOK, CartsTypeOK
    <3>2. u = j.user /\ carts'[u] = EmptyCart /\ carts[u] = NoCart
      BY <1>1, <1>5, <2>1, <3>1 DEF CreatesCart
    <3>3. /\ EmptyCart.version = 0 /\ NoCart.version = 0 /\ SameItems(<< >>, << >>)
          /\ EmptyCart.reminded = NoCart.reminded
      BY DEF EmptyCart, NoCart, SameItems
    <3> QED
      BY <3>2, <3>3, NewDocuments DEF Later
  <2>2. CASE SaveCart(s)
    <3>1. u = cartJob[s].user
      BY <1>5, <2>2, SavedIs
    <3> QED
      BY <2>2, <3>1, SavedLater
  <2> QED
    BY <1>5, <2>1, <2>2
       DEF RequestStep, LoadsCart, EndsCall, PassesCheck, SavesCart
<1>6. \/ carts'[u] = carts[u]
      \/ MarkReminded /\ u = batch[1].user
      \/ /\ CartsNext
         /\ \/ \E s \in CartSlots : \E pc, j : RequestStep(s, pc, j)
            \/ \E v \in Shoppers : GrowIdle(v) /\ u = v
  <2>1. CASE JobNext
    <3>1. CASE MarkReminded
      BY <3>1, MarkIs
    <3>2. CASE ~ MarkReminded
      BY <2>1, <3>2 DEF JobNext, RunStep, StartRun, ReadItems, FindReturnCoupon,
        CreateReturnCoupon, SendReminder, CartFails, CrashRun, cartsVars
    <3> QED
      BY <3>1, <3>2
  <2>2. CASE CartsNext
    <3>1. CASE TimePasses
      BY <2>2, <3>1, GrowIdleIs DEF TimePasses
    <3> QED
      BY <2>2, <3>1, CartsStepIs
  <2>3. CASE UNCHANGED remindersVars
    BY <2>3 DEF remindersVars, cartsVars
  <2> QED
    BY <2>1, <2>2, <2>3 DEF RemindersNext
<1> QED
  BY <1>2, <1>3, <1>4, <1>5, <1>6

(* The batch after a step: a new one, or what is left of the old one.      *)
LEMMA BatchIs ==
  ASSUME TypeInv, [RemindersNext]_remindersVars
  PROVE  \/ StartRun
         \/ batch' = batch
         \/ /\ runPc # "idle"
            /\ \A i \in DOMAIN batch' : i + 1 \in DOMAIN batch /\ batch'[i] = batch[i + 1]
<1>1. CASE runPc # "idle" /\ NextCartOfRun
  BY <1>1, NextCartIs
<1>2. CASE CrashRun
  BY <1>2 DEF CrashRun
<1>3. CASE JobNext
  <2>1. \/ StartRun \/ CrashRun \/ batch' = batch
        \/ runPc # "idle" /\ NextCartOfRun
    BY <1>3 DEF JobNext, RunStep, ReadItems, FindReturnCoupon, CreateReturnCoupon,
      SendReminder, MarkReminded, CartFails
  <2> QED
    BY <1>1, <1>2, <2>1
<1> QED
  BY <1>3 DEF RemindersNext, remindersVars, jobVars

LEMMA CopyInit == RemindersInit => CopyInv
<1> SUFFICES ASSUME RemindersInit PROVE CopyInv
  OBVIOUS
<1>1. /\ \A u \in Shoppers : ~ carts[u].exists => carts[u] = NoCart
      /\ cartPc = [s \in CartSlots |-> "new"] /\ batch = << >>
  BY CartsAssumption DEF RemindersInit, CartsInit, JobInit
<1> QED
  BY <1>1 DEF CopyInv

LEMMA CopyStep == TypeInv /\ CopyInv /\ [RemindersNext]_remindersVars => CopyInv'
<1> SUFFICES ASSUME TypeInv, CopyInv, [RemindersNext]_remindersVars PROVE CopyInv'
  OBVIOUS
<1>0. /\ carts \in [Shoppers -> CartDocs] /\ carts' \in [Shoppers -> CartDocs]
      /\ cartJob \in [CartSlots -> CartJobs]
  BY TypeStep DEF TypeInv, RemindersTypeOK, CartsTypeOK
<1>1. \A u \in Shoppers : ~ carts'[u].exists => carts'[u] = NoCart
  BY CartLater
<1>2. \A i \in DOMAIN batch' : carts'[batch'[i].user].exists
  <2>1. \A u \in Shoppers : carts[u].exists => carts'[u].exists
    BY CartLater DEF Later
  <2>2. \A i \in DOMAIN batch : carts'[batch[i].user].exists
    BY <2>1, JobIs DEF CopyInv
  <2>3. CASE StartRun
    BY <2>3, StartRunIs DEF Abandoned, StartRun, cartsVars
  <2> QED
    BY <2>2, <2>3, BatchIs
<1>3. ASSUME NEW t \in CartSlots, cartPc'[t] = cartPc[t], cartJob'[t] = cartJob[t],
             cartPc[t] \in {"loaded", "checked"}
      PROVE  CopyOf(cartJob'[t].cart, carts'[cartJob'[t].user])
  <2> DEFINE d == cartJob[t].cart
             u == cartJob[t].user
  <2>1. u \in Shoppers /\ d \in CartDocs /\ CopyOf(d, carts[u])
    BY <1>3, SlotIs, JobFields DEF CopyInv
  <2> HIDE DEF d, u
  <2>2. Later(carts[u], carts'[u])
    BY <2>1, CartLater
  <2>3. CopyOf(d, carts'[u])
    BY <1>0, <2>1, <2>2, CopyOfLater
  <2> QED
    BY <1>3, <2>3 DEF d, u
<1>4. ASSUME NEW s \in CartSlots, NEW pc, NEW j, RequestStep(s, pc, j)
      PROVE  \A t \in CartSlots :
               /\ cartPc'[t] \in {"loaded", "checked"} =>
                    CopyOf(cartJob'[t].cart, carts'[cartJob'[t].user])
               /\ cartPc'[t] = "checked" /\ cartJob'[t].call.op \in SettingOps =>
                    Wanted(cartJob'[t]) <= cartJob'[t].stock
  <2>1. /\ cartPc'[s] = pc /\ cartJob'[s] = j /\ SlotOK(pc, j)
        /\ \A t \in CartSlots \ {s} : cartPc'[t] = cartPc[t] /\ cartJob'[t] = cartJob[t]
    BY <1>4, SlotSet DEF RequestStep, GoesOn
  <2>2. j \in CartJobs /\ j.user \in Shoppers /\ j.cart \in CartDocs
    BY <2>1, JobFields DEF SlotOK
  <2>3. pc \in {"loaded", "checked"} => CopyOf(j.cart, carts'[j.user])
    <3>1. CASE LoadsCart(pc, j)
      <4>1. carts[j.user].items \in Seq(Lines) /\ carts[j.user].version \in Nat
        BY <2>2, CartIs
      <4> QED
        BY <3>1, <4>1 DEF LoadsCart, CopyOf, SameItems
    <3>2. CASE CreatesCart(pc, j)
      <4>1. carts'[j.user] = EmptyCart /\ j.cart = EmptyCart
        BY <1>0, <2>2, <3>2 DEF CreatesCart
      <4>2. EmptyCart.version = 0 /\ EmptyCart.exists /\ SameItems(<< >>, << >>)
        BY DEF EmptyCart, NoCart, SameItems
      <4> QED
        BY <4>1, <4>2, NewDocuments DEF CopyOf
    <3>3. CASE EndsCall(pc, j) \/ SavesCart(s, pc, j)
      BY <3>3 DEF EndsCall, SavesCart
    <3>4. CASE PassesCheck(s, pc, j)
      BY <3>4 DEF PassesCheck, CopyInv
    <3> QED
      BY <1>4, <3>1, <3>2, <3>3, <3>4 DEF RequestStep
  <2>4. pc = "checked" /\ j.call.op \in SettingOps => Wanted(j) <= j.stock
    BY <1>4 DEF RequestStep, LoadsCart, CreatesCart, EndsCall, PassesCheck, SavesCart
  <2> QED
    BY <1>3, <2>1, <2>3, <2>4 DEF CopyInv
<1>5. CASE UNCHANGED <<cartPc, cartJob>>
  <2>1. \A t \in CartSlots : cartPc'[t] = cartPc[t] /\ cartJob'[t] = cartJob[t]
    BY <1>5
  <2> QED
    BY <1>1, <1>2, <1>3, <2>1 DEF CopyInv
<1>6. \/ \E s \in CartSlots : \E pc, j : RequestStep(s, pc, j)
      \/ UNCHANGED <<cartPc, cartJob>>
  <2>1. CASE JobNext
    BY <2>1 DEF JobNext, RunStep, StartRun, ReadItems, FindReturnCoupon,
      CreateReturnCoupon, SendReminder, MarkReminded, CartFails, CrashRun, cartsVars
  <2>2. CASE CartsNext
    BY <2>2, CartsStepIs DEF TimePasses
  <2> QED
    BY <2>1, <2>2 DEF RemindersNext, remindersVars, cartsVars
<1> QED
  BY <1>1, <1>2, <1>4, <1>5, <1>6 DEF CopyInv

(* The copy a handler works on is of the stored cart: its version is no    *)
(* newer, and at the same version it lists the items the cart still lists. *)
(* A handler that sets a quantity found that much in stock.                *)
THEOREM CopiesAreOld == RemindersSpec => [](TypeInv /\ CopyInv)
  BY TypeInit, TypeStep, CopyInit, CopyStep, PTL DEF RemindersSpec

(***************************************************************************)
(* Reminders.  A shopper whose cart carries no mark, and is not about to   *)
(* get one, has been sent no more reminders than marks were lost; the job  *)
(* holds carts without a mark only, and none twice.                        *)
(***************************************************************************)

Marking(u) == runPc = "mark" /\ batch[1].user = u

MailInv ==
  /\ \A i \in DOMAIN batch : ~ carts[batch[i].user].reminded
  /\ \A i, k \in DOMAIN batch : batch[i].user = batch[k].user => i = k
  /\ \A u \in Shoppers :
       /\ mails[u] <= 1 + unmarked[u]
       /\ ~ carts[u].reminded /\ ~ Marking(u) => mails[u] <= unmarked[u]

LEMMA MailStep ==
  TypeInv /\ CopyInv /\ MailInv /\ [RemindersNext]_remindersVars => MailInv'
<1> SUFFICES ASSUME TypeInv, CopyInv, MailInv, [RemindersNext]_remindersVars PROVE MailInv'
  OBVIOUS
<1>1. \A i, k \in DOMAIN batch' : batch'[i].user = batch'[k].user => i = k
  <2>1. CASE StartRun
    BY <2>1, StartRunIs
  <2>2. CASE batch' = batch
    BY <2>2 DEF MailInv
  <2>3. CASE \A i \in DOMAIN batch' : i + 1 \in DOMAIN batch /\ batch'[i] = batch[i + 1]
    <3>1. DOMAIN batch' \subseteq Int
      <4>1. batch' \in Seq(BatchCarts)
        BY TypeStep DEF TypeInv, RemindersTypeOK, BatchCarts
      <4> QED
        BY <4>1
    <3>2. \A i, k \in DOMAIN batch' : batch'[i].user = batch'[k].user => i + 1 = k + 1
      BY <2>3 DEF MailInv
    <3> QED
      BY <3>1, <3>2
  <2> QED
    BY <2>1, <2>2, <2>3, BatchIs
<1>2. \A i \in DOMAIN batch' : ~ carts'[batch'[i].user].reminded
  <2>1. CASE MarkReminded
    <3>1. runPc # "idle" /\ NextCartOfRun
      BY <2>1 DEF MarkReminded
    <3>2. ASSUME NEW i \in DOMAIN batch' PROVE ~ carts'[batch'[i].user].reminded
      <4>1. i + 1 \in DOMAIN batch /\ batch'[i] = batch[i + 1] /\ 1 \in DOMAIN batch
        BY <3>1, <3>2, NextCartIs, JobIs
      <4>2. i + 1 # 1
        <5>1. batch' \in Seq(BatchCarts)
          BY <3>1, NextCartIs
        <5> QED
          BY <3>2, <5>1
      <4>3. batch[i + 1].user # batch[1].user
        BY <4>1, <4>2 DEF MailInv
      <4>4. batch[i + 1].user \in Shoppers /\ ~ carts[batch[i + 1].user].reminded
        BY <4>1, JobIs DEF MailInv
      <4> QED
        BY <2>1, <4>1, <4>3, <4>4, MarkIs
    <3> QED
      BY <3>2
  <2>2. CASE ~ MarkReminded
    <3>1. \A i \in DOMAIN batch : ~ carts'[batch[i].user].reminded
      BY <2>2, CartLater, JobIs DEF MailInv
    <3>2. CASE StartRun
      BY <3>2, StartRunIs DEF Abandoned, StartRun, cartsVars
    <3> QED
      BY <3>1, <3>2, BatchIs
  <2> QED
    BY <2>1, <2>2
<1>3. ASSUME NEW u \in Shoppers
      PROVE  /\ mails'[u] <= 1 + unmarked'[u]
             /\ ~ carts'[u].reminded /\ ~ Marking(u)' => mails'[u] <= unmarked'[u]
  <2>1. /\ mails[u] \in Nat /\ unmarked[u] \in Nat
        /\ mails[u] <= 1 + unmarked[u]
        /\ ~ carts[u].reminded /\ ~ Marking(u) => mails[u] <= unmarked[u]
    BY JobIs DEF MailInv
  <2>2. ~ MarkReminded => carts'[u].reminded = carts[u].reminded
    BY CartLater
  <2>3. CASE SendReminder
    <3>1. /\ runPc = "mail" /\ runPc' = "mark" /\ batch' = batch /\ unmarked' = unmarked
          /\ mails' = [mails EXCEPT ![batch[1].user] = @ + 1]
          /\ batch[1].user \in Shoppers /\ 1 \in DOMAIN batch
      BY <2>3, JobIs DEF SendReminder
    <3>2. carts' = carts
      BY <2>3 DEF SendReminder, cartsVars
    <3>3. CASE u = batch[1].user
      <4>1. ~ carts[u].reminded /\ ~ Marking(u)
        BY <3>1, <3>3 DEF MailInv, Marking
      <4>2. mails'[u] = mails[u] + 1 /\ Marking(u)'
        BY <3>1, <3>3, JobIs DEF Marking
      <4> QED
        BY <2>1, <3>1, <4>1, <4>2
    <3>4. CASE u # batch[1].user
      <4>1. mails'[u] = mails[u] /\ ~ Marking(u)
        BY <3>1, <3>4, JobIs DEF Marking
      <4> QED
        BY <2>1, <3>1, <3>2, <4>1
    <3> QED
      BY <3>3, <3>4
  <2>4. CASE MarkReminded
    <3>1. mails' = mails /\ unmarked' = unmarked
      BY <2>4 DEF MarkReminded
    <3>2. CASE u = batch[1].user
      BY <2>1, <2>4, <3>1, <3>2, MarkIs
    <3>3. CASE u # batch[1].user
      <4>1. carts'[u] = carts[u] /\ ~ Marking(u)
        BY <2>4, <3>3, MarkIs DEF Marking
      <4> QED
        BY <2>1, <3>1, <4>1
    <3> QED
      BY <3>2, <3>3
  <2>5. CASE CartFails \/ CrashRun
    <3>1. /\ runPc # "idle" /\ mails' = mails /\ batch[1].user \in Shoppers
          /\ unmarked' = [unmarked EXCEPT ![batch[1].user] =
                            IF runPc = "mark" THEN @ + 1 ELSE @]
          /\ ~ MarkReminded
      BY <2>5, JobIs DEF CartFails, CrashRun, MarkReminded
    <3>2. CASE Marking(u)
      <4>1. unmarked'[u] = unmarked[u] + 1
        BY <3>1, <3>2, JobIs DEF Marking
      <4> QED
        BY <2>1, <3>1, <4>1
    <3>3. CASE ~ Marking(u)
      <4>1. unmarked'[u] = unmarked[u]
        BY <3>1, <3>3, JobIs DEF Marking
      <4> QED
        BY <2>1, <2>2, <3>1, <3>3, <4>1
    <3> QED
      BY <3>2, <3>3
  <2>6. CASE /\ ~ SendReminder /\ ~ MarkReminded /\ ~ (CartFails \/ CrashRun)
    <3>1. mails' = mails /\ unmarked' = unmarked
      BY <2>6 DEF RemindersNext, remindersVars, jobVars, JobNext, RunStep, StartRun,
        ReadItems, FindReturnCoupon, CreateReturnCoupon
    <3>2. Marking(u) => Marking(u)'
      <4>1. runPc = "mark" => runPc' = runPc /\ batch' = batch
        BY <2>6 DEF RemindersNext, remindersVars, jobVars, JobNext, RunStep, StartRun,
          ReadItems, FindReturnCoupon, CreateReturnCoupon
      <4> QED
        BY <4>1 DEF Marking
    <3> QED
      BY <2>1, <2>2, <2>6, <3>1, <3>2
  <2> QED
    BY <2>3, <2>4, <2>5, <2>6
<1> QED
  BY <1>1, <1>2, <1>3 DEF MailInv

(* No shopper gets a second reminder unless the mark of one was lost to a  *)
(* failure, whatever cart handlers save meanwhile.                         *)
THEOREM OneReminder == RemindersSpec => []RemindedOnce
<1>1. RemindersInit => MailInv
  BY DEF RemindersInit, JobInit, MailInv
<1>2. MailInv => RemindedOnce
  BY DEF MailInv, RemindedOnce
<1>3. RemindersSpec => []MailInv
  BY <1>1, CopiesAreOld, MailStep, PTL DEF RemindersSpec
<1> QED
  BY <1>2, <1>3, PTL

(***************************************************************************)
(* The lines of a cart.                                                    *)
(***************************************************************************)

(* The list of a cart changes when it is saved only.                       *)
ListSaved(s, u) ==
  /\ Saves(s, u)
  /\ SlotOK(cartPc[s], cartJob[s]) /\ cartPc[s] \notin {"new", "done"}
  /\ cartJob[s].call.op \in SettingOps => cartPc[s] = "checked"
  /\ Writable(Edit(cartJob[s]), cartJob[s].cart, carts[u])
  /\ carts'[u].items = Written(Edit(cartJob[s]), carts[u].items)
  /\ Edit(cartJob[s]).how \in {"nothing", "quantity"} => carts'[u].version = carts[u].version

LEMMA ListIs ==
  ASSUME TypeInv, CopyInv, [RemindersNext]_remindersVars, NEW u \in Shoppers,
         carts'[u].items # carts[u].items
  PROVE  \E s \in CartSlots : ListSaved(s, u)
<1>1. CartsNext
  <2>1. CASE JobNext
    <3>1. ~ MarkReminded
      BY MarkIs
    <3> QED
      BY <2>1, <3>1 DEF JobNext, RunStep, StartRun, ReadItems, FindReturnCoupon,
        CreateReturnCoupon, SendReminder, CartFails, CrashRun, cartsVars
  <2> QED
    BY <2>1 DEF RemindersNext, remindersVars, cartsVars
<1>2. PICK s \in CartSlots : \E pc, j : RequestStep(s, pc, j)
  <2>1. ~ TimePasses
    BY GrowIdleIs DEF TimePasses
  <2> QED
    BY <1>1, <2>1, CartsStepIs
<1>3. PICK pc, j : RequestStep(s, pc, j)
  BY <1>2
<1>4. ~ CreatesCart(pc, j)
  <2> SUFFICES ASSUME CreatesCart(pc, j) PROVE FALSE
    OBVIOUS
  <2>1. carts \in [Shoppers -> CartDocs]
    BY DEF TypeInv, RemindersTypeOK, CartsTypeOK
  <2>2. u = j.user /\ carts'[u] = EmptyCart /\ carts[u] = NoCart
    BY <2>1 DEF CreatesCart, CopyInv
  <2> QED
    BY <2>2, NewDocuments
<1>5. SavesCart(s, pc, j)
  BY <1>3, <1>4 DEF RequestStep, LoadsCart, EndsCall, PassesCheck
<1>6. /\ SaveCart(s) /\ pc \in {"load", "done"} /\ cartPc'[s] = pc
      /\ SlotOK(cartPc[s], cartJob[s])
  BY <1>3, <1>5, SlotSet, SlotIs DEF SavesCart, RequestStep, GoesOn
<1>7. /\ cartPc[s] \in {"loaded", "checked"}
      /\ cartJob[s].call.op \in SettingOps => cartPc[s] = "checked"
  BY <1>6 DEF SaveCart, SettingOps
<1>8. u = cartJob[s].user
  BY <1>6, SavedIs
<1>9. /\ Writable(Edit(cartJob[s]), cartJob[s].cart, carts[u])
      /\ carts'[u].items = Written(Edit(cartJob[s]), carts[u].items)
      /\ Edit(cartJob[s]).how \in {"nothing", "quantity"} =>
           carts'[u].version = carts[u].version
  BY <1>6, <1>8, SavedIs
<1>10. ListSaved(s, u)
  BY <1>6, <1>7, <1>8, <1>9 DEF ListSaved, Saves
<1> QED
  BY <1>10

LEMMA HasIs ==
  ASSUME NEW items \in Seq(Lines), NEW g
  PROVE  Has(items, g) <=> \E i \in DOMAIN items : items[i].item = g
  BY IndexOfIs DEF Has

LEMMA HasSame ==
  ASSUME NEW a \in Seq(Lines), NEW b \in Seq(Lines), SameItems(a, b), NEW g
  PROVE  Has(a, g) <=> Has(b, g)
<1>1. DOMAIN a = DOMAIN b /\ \A i \in DOMAIN a : a[i].item = b[i].item
  BY DEF SameItems
<1> QED
  BY <1>1, HasIs

LEMMA FilteredHas ==
  ASSUME NEW list \in Seq(Lines), NEW K, NEW i \in DOMAIN list, list[i] \in K
  PROVE  \E n \in DOMAIN Filtered(list, K) : Filtered(list, K)[n] = list[i]
  BY FilteredIs

(* No handler drops an item from a cart unless its call names the item, or *)
(* clears a cart in which the item was when the handler loaded it.         *)
THEOREM LinesStay == RemindersSpec => LinesKept
<1> DEFINE Stay ==
      \A u \in Shoppers, g \in Goods :
        /\ Has(carts[u].items, g)
        /\ ~ Has(carts'[u].items, g)
        => \E s \in CartSlots :
             /\ Saves(s, u)
             /\ \/ /\ cartJob[s].call.op = "removeItem"
                   /\ cartJob[s].call.item = g
                \/ /\ cartJob[s].call.op = "clearCart"
                   /\ Has(cartJob[s].cart.items, g)
<1>1. TypeInv /\ CopyInv /\ [RemindersNext]_remindersVars => [Stay]_<<carts, cartPc, cartJob>>
  <2> SUFFICES ASSUME TypeInv, CopyInv, [RemindersNext]_remindersVars,
                      NEW u \in Shoppers, NEW g \in Goods,
                      Has(carts[u].items, g), ~ Has(carts'[u].items, g)
               PROVE  \E s \in CartSlots :
                        /\ Saves(s, u)
                        /\ \/ /\ cartJob[s].call.op = "removeItem"
                              /\ cartJob[s].call.item = g
                           \/ /\ cartJob[s].call.op = "clearCart"
                              /\ Has(cartJob[s].cart.items, g)
    BY DEF Stay
  <2>1. PICK s \in CartSlots : ListSaved(s, u)
    <3>1. carts'[u].items # carts[u].items
      OBVIOUS
    <3> QED
      BY <3>1, ListIs
  <2> DEFINE j == cartJob[s]
             old == carts[u].items
             new == carts'[u].items
             copy == j.cart.items
  <2>2. /\ SlotOK(cartPc[s], j) /\ cartPc[s] \notin {"new", "done"} /\ Saves(s, u)
        /\ Writable(Edit(j), j.cart, carts[u])
        /\ new = Written(Edit(j), old)
        /\ Edit(j).how \in {"nothing", "quantity"} => carts'[u].version = carts[u].version
    BY <2>1 DEF ListSaved
  <2>3. old \in Seq(Lines) /\ copy \in Seq(Lines)
    BY <2>2, CartIs, JobFields DEF SlotOK, CartDocs
  <2>4. new \in Seq(Lines)
    <3>1. carts'[u] \in CartDocs
      BY TypeStep DEF TypeInv, RemindersTypeOK, CartsTypeOK
    <3> QED
      BY <3>1 DEF CartDocs
  <2>5. CopyOf(j.cart, carts[u])
    BY <2>2 DEF Saves, CopyInv
  <2>6. Later(carts[u], carts'[u])
    BY CartLater
  <2>7. Edit(j).how = "list" => SameItems(copy, old)
    BY <2>2, <2>5 DEF Writable, CopyOf
  <2>8. Edit(j).how \notin {"nothing", "quantity"}
    <3> SUFFICES ASSUME Edit(j).how \in {"nothing", "quantity"} PROVE FALSE
      OBVIOUS
    <3>1. SameItems(old, new)
      BY <2>2, <2>6 DEF Later
    <3> HIDE DEF old, new
    <3>2. Has(old, g) <=> Has(new, g)
      BY <2>3, <2>4, <3>1, HasSame
    <3> QED
      BY <3>2 DEF old, new
  <2> HIDE DEF old, new, copy
  <2>9. Has(old, g) /\ ~ Has(new, g)
    BY DEF old, new
  <2>10. Edit(j).how # "push"
    <3> SUFFICES ASSUME Edit(j).how = "push" PROVE FALSE
      OBVIOUS
    <3>1. new = Append(old, NewLine(j))
      <4> HIDE DEF j
      <4> QED
        BY <2>2, <2>3, WrittenIs
    <3>2. PICK i \in DOMAIN old : old[i].item = g
      BY <2>3, <2>9, HasIs
    <3>3. i \in DOMAIN new /\ new[i] = old[i]
      BY <2>3, <3>1
    <3> QED
      BY <2>4, <2>9, <3>2, <3>3, HasIs
  <2>11. Edit(j).how = "list" /\ Has(copy, g) /\ new = Edit(j).list
    <3>1. Edit(j).how = "list"
      <4> HIDE DEF j
      <4> QED
        BY <2>2, <2>8, <2>10, EditIs
    <3>2. new = Edit(j).list
      <4> HIDE DEF j
      <4> QED
        BY <2>2, <2>3, <3>1, WrittenIs
    <3>3. Has(copy, g)
      BY <2>3, <2>7, <2>9, <3>1, HasSame
    <3> QED
      BY <3>1, <3>2, <3>3
  <2>12. CASE j.call.op = "clearCart"
    BY <2>2, <2>11, <2>12 DEF copy
  <2>13. CASE j.call.op = "removeItem" /\ Edit(j).list = Filtered(j.cart.items, Others(j))
    <3> DEFINE K == Others(j)
    <3>1. PICK i \in DOMAIN copy : copy[i].item = g
      BY <2>3, <2>11, HasIs
    <3>2. ASSUME g # j.call.item PROVE FALSE
      <4>1. copy[i] \in K
        BY <3>1, <3>2 DEF Others, Range, copy
      <4> HIDE DEF K
      <4>2. \E n \in DOMAIN Filtered(copy, K) : Filtered(copy, K)[n] = copy[i]
        BY <2>3, <3>1, <4>1, FilteredHas
      <4>3. new = Filtered(copy, K)
        BY <2>11, <2>13 DEF copy, K
      <4> QED
        BY <2>4, <2>9, <3>1, <4>2, <4>3, HasIs
    <3> QED
      BY <2>2, <2>13, <3>2
  <2>14. \/ j.call.op = "clearCart"
         \/ j.call.op = "removeItem" /\ Edit(j).list = Filtered(j.cart.items, Others(j))
    <3> HIDE DEF j
    <3> QED
      BY <2>2, <2>11, EditIs
  <2> QED
    BY <2>12, <2>13, <2>14
<1> QED
  BY <1>1, CopiesAreOld, PTL DEF RemindersSpec, LinesKept, Stay

(***************************************************************************)
(* Quantities.                                                             *)
(***************************************************************************)

LEMMA MaxIs ==
  ASSUME NEW S \in SUBSET Nat, S # {}, NEW b \in Nat, \A m \in S : m <= b
  PROVE  Max(S) \in S /\ \A m \in S : m <= Max(S)
<1> DEFINE T == {n \in Nat : \A m \in S : m <= n}
<1>1. T \in SUBSET Nat /\ T # {}
  <2>1. b \in T
    OBVIOUS
  <2> QED
    BY <2>1
<1>2. PICK n \in T : \A m \in T : n <= m
  <2> HIDE DEF T
  <2> QED
    BY <1>1, LeastNatural
<1>3. n \in Nat /\ \A m \in S : m <= n
  BY <1>2
<1>4. n \in S
  <2> SUFFICES ASSUME n \notin S PROVE FALSE
    OBVIOUS
  <2>1. \A m \in S : m \in Nat /\ m < n
    BY <1>3
  <2>2. n - 1 \in Nat
    <3>1. PICK m \in S : TRUE
      OBVIOUS
    <3> QED
      BY <1>3, <2>1, <3>1
  <2>3. \A m \in S : m <= n - 1
    BY <1>3, <2>1
  <2>4. n - 1 \in T
    BY <2>2, <2>3
  <2> QED
    BY <1>2, <1>3, <2>4
<1>5. Max(S) \in S /\ \A m \in S : Max(S) >= m
  BY <1>3, <1>4 DEF Max
<1> QED
  BY <1>5

LEMMA QuantitiesBounded ==
  ASSUME NEW list \in Seq(Lines)
  PROVE  \E b \in Nat : \A i \in DOMAIN list : list[i].quantity <= b
<1> DEFINE Bounded(n) == \E b \in Nat : \A i \in 1..n : list[i].quantity <= b
           T == {n \in Nat : n <= Len(list) => Bounded(n)}
<1>1. Len(list) \in Nat /\ DOMAIN list = 1..Len(list)
      /\ \A i \in 1..Len(list) : list[i].quantity \in Nat
  BY LineFields
<1>2. 0 \in T
  <2>1. \A i \in 1..0 : list[i].quantity <= 0
    OBVIOUS
  <2> QED
    BY <2>1
<1>3. ASSUME NEW n \in T PROVE n + 1 \in T
  <2> SUFFICES ASSUME n + 1 <= Len(list) PROVE Bounded(n + 1)
    OBVIOUS
  <2>1. n \in Nat /\ Bounded(n) /\ n + 1 \in 1..Len(list)
    BY <1>1
  <2>2. PICK b \in Nat : \A i \in 1..n : list[i].quantity <= b
    BY <2>1
  <2>3. PICK q \in Nat : q = list[n + 1].quantity
    BY <1>1, <2>1
  <2>4. \A i \in 1..(n + 1) : list[i].quantity <= b + q
    <3> SUFFICES ASSUME NEW i \in 1..(n + 1) PROVE list[i].quantity <= b + q
      OBVIOUS
    <3>1. list[i].quantity \in Nat
      BY <1>1, <2>1
    <3>2. CASE i = n + 1
      BY <2>3, <3>2
    <3>3. CASE i # n + 1
      <4>1. i \in 1..n
        BY <2>1, <3>3
      <4> QED
        BY <2>2, <3>1, <4>1
    <3> QED
      BY <3>2, <3>3
  <2>5. b + q \in Nat
    OBVIOUS
  <2> QED
    BY <2>4, <2>5
<1>4. T = Nat
  <2>1. T \in SUBSET Nat
    OBVIOUS
  <2> HIDE DEF T
  <2> QED
    BY <1>2, <1>3, <2>1, AllNaturals
<1>5. Bounded(Len(list))
  <2>1. Len(list) \in T
    <3> HIDE DEF T
    <3> QED
      BY <1>1, <1>4
  <2> QED
    BY <1>1, <2>1
<1> QED
  BY <1>1, <1>5

(* The quantity of an item is that of one of its lines, and of none a      *)
(* smaller one.                                                            *)
LEMMA QuantityIs ==
  ASSUME NEW list \in Seq(Lines), NEW g
  PROVE  /\ Quantity(list, g) \in Nat
         /\ \A i \in DOMAIN list : list[i].item = g => list[i].quantity <= Quantity(list, g)
         /\ \/ Quantity(list, g) = 0
            \/ \E i \in DOMAIN list : list[i].item = g /\ list[i].quantity = Quantity(list, g)
<1> DEFINE P == {k \in DOMAIN list : list[k].item = g}
           S == {0} \cup {list[i].quantity : i \in P}
<1>1. \A i \in DOMAIN list : list[i].quantity \in Nat
  BY LineFields
<1>2. PICK b \in Nat : \A i \in DOMAIN list : list[i].quantity <= b
  BY QuantitiesBounded
<1>3. S \in SUBSET Nat /\ S # {} /\ \A m \in S : m <= b
  BY <1>1, <1>2
<1>4. Quantity(list, g) = Max(S)
  BY DEF Quantity
<1> HIDE DEF S
<1>5. Max(S) \in S /\ \A m \in S : m <= Max(S)
  BY <1>3, MaxIs
<1>6. Max(S) \in Nat
  BY <1>3, <1>5
<1> QED
  BY <1>4, <1>5, <1>6 DEF S

(* A quantity grows to what the call that made it grow asked for and had   *)
(* found in stock, or back to what a removal had loaded.                   *)
THEOREM GrowthWithinStock == RemindersSpec => LinesWithinStock
<1> DEFINE Within ==
      \A u \in Shoppers, g \in Goods :
        LET new == Quantity(carts'[u].items, g) IN
        new > Quantity(carts[u].items, g)
        => \E s \in CartSlots :
             /\ Saves(s, u)
             /\ IF cartJob[s].call.op \in SettingOps
                  THEN ItemOf(cartJob[s]) = g /\ new <= cartJob[s].stock
                  ELSE new = Quantity(cartJob[s].cart.items, g)
<1>1. TypeInv /\ CopyInv /\ [RemindersNext]_remindersVars => [Within]_<<carts, cartPc, cartJob>>
  <2> SUFFICES ASSUME TypeInv, CopyInv, [RemindersNext]_remindersVars,
                      NEW u \in Shoppers, NEW g \in Goods,
                      Quantity(carts'[u].items, g) > Quantity(carts[u].items, g)
               PROVE  \E s \in CartSlots :
                        /\ Saves(s, u)
                        /\ IF cartJob[s].call.op \in SettingOps
                             THEN /\ ItemOf(cartJob[s]) = g
                                  /\ Quantity(carts'[u].items, g) <= cartJob[s].stock
                             ELSE Quantity(carts'[u].items, g)
                                    = Quantity(cartJob[s].cart.items, g)
    BY DEF Within
  <2> DEFINE old == carts[u].items
             new == carts'[u].items
  <2>1. old \in Seq(Lines) /\ new \in Seq(Lines)
    <3>1. carts'[u] \in CartDocs
      BY TypeStep DEF TypeInv, RemindersTypeOK, CartsTypeOK
    <3> QED
      BY <3>1, CartIs DEF CartDocs
  <2> HIDE DEF old, new
  <2>2. Quantity(old, g) \in Nat /\ Quantity(new, g) \in Nat
        /\ Quantity(new, g) > Quantity(old, g)
    <3>1. Quantity(new, g) > Quantity(old, g)
      BY DEF old, new
    <3> QED
      BY <2>1, <3>1, QuantityIs
  <2>3. PICK s \in CartSlots : ListSaved(s, u)
    <3>1. carts'[u].items # carts[u].items
      <4> SUFFICES ASSUME new = old PROVE FALSE
        BY DEF old, new
      <4> QED
        BY <2>2
    <3> QED
      BY <3>1, ListIs
  <2> DEFINE j == cartJob[s]
             copy == j.cart.items
  <2>4. /\ SlotOK(cartPc[s], j) /\ cartPc[s] \notin {"new", "done"} /\ Saves(s, u)
        /\ new = Written(Edit(j), old)
        /\ j.call.op \in SettingOps => cartPc[s] = "checked"
    BY <2>3 DEF ListSaved, old, new
  <2>5. copy \in Seq(Lines) /\ j.stock \in Int
    BY <2>4, JobFields DEF SlotOK, CartDocs
  <2>6. j.call.op \in SettingOps => Wanted(j) <= j.stock
    BY <2>4 DEF CopyInv
  <2>7. PICK i \in DOMAIN new : new[i].item = g /\ new[i].quantity = Quantity(new, g)
    BY <2>1, <2>2, QuantityIs
  <2>8. \A k \in DOMAIN old : old[k] # new[i]
    <3> SUFFICES ASSUME NEW k \in DOMAIN old, old[k] = new[i] PROVE FALSE
      OBVIOUS
    <3>1. old[k].quantity <= Quantity(old, g)
      BY <2>1, <2>7, QuantityIs
    <3> QED
      BY <2>2, <2>7, <3>1
  <2>9. CASE j.call.op \in SettingOps
    <3>1. new[i].item = ItemOf(j) /\ new[i].quantity = Wanted(j)
      <4>1. NewLine(j).item = ItemOf(j) /\ NewLine(j).quantity = Wanted(j)
        <5> HIDE DEF j
        <5> QED
          BY <2>4, <2>9, WantedIs
      <4>2. CASE Edit(j).how = "push"
        <5>1. new = Append(old, NewLine(j))
          <6> HIDE DEF j
          <6> QED
            BY <2>1, <2>4, <4>2, WrittenIs
        <5>2. new[i] = NewLine(j)
          <6>1. i \notin DOMAIN old
            BY <2>1, <2>8, <5>1
          <6> QED
            BY <2>1, <5>1, <6>1
        <5> QED
          BY <4>1, <5>2
      <4>3. CASE Edit(j).how = "quantity"
        <5> DEFINE at == Edit(j).at
                   line == Edit(j).list[at]
        <5>1. /\ new = [old EXCEPT ![at] = line]
              /\ line.item = ItemOf(j) /\ line.quantity = Wanted(j)
          <6> HIDE DEF j
          <6> QED
            BY <2>1, <2>4, <4>3, WrittenIs, EditIs
        <5> HIDE DEF at, line
        <5>2. DOMAIN new = DOMAIN old /\ \A k \in DOMAIN old : k # at => new[k] = old[k]
          BY <5>1
        <5>3. i \in DOMAIN old /\ i = at
          BY <2>8, <5>2
        <5>4. new[i] = line
          BY <5>1, <5>3
        <5> QED
          BY <5>1, <5>4
      <4>4. Edit(j).how # "nothing"
        <5> SUFFICES ASSUME Edit(j).how = "nothing" PROVE FALSE
          OBVIOUS
        <5>1. new = old
          <6> HIDE DEF j
          <6> QED
            BY <2>1, <2>4, WrittenIs
        <5> QED
          BY <2>8, <5>1
      <4>5. Edit(j).how \in {"push", "quantity", "nothing"}
        <5> HIDE DEF j
        <5> QED
          BY <2>4, <2>9, EditIs DEF SettingOps
      <4> QED
        BY <4>2, <4>3, <4>4, <4>5
    <3> HIDE DEF new
    <3>2. ItemOf(j) = g /\ Quantity(new, g) <= j.stock
      BY <2>6, <2>7, <2>9, <3>1
    <3> QED
      BY <2>4, <2>9, <3>2 DEF new
  <2>10. CASE j.call.op \notin SettingOps
    <3>1. Edit(j).how = "list" /\ new = Edit(j).list
      <4>1. Edit(j).how # "nothing"
        <5> SUFFICES ASSUME Edit(j).how = "nothing" PROVE FALSE
          OBVIOUS
        <5>1. new = old
          <6> HIDE DEF j
          <6> QED
            BY <2>1, <2>4, WrittenIs
        <5> QED
          BY <2>8, <5>1
      <4>2. Edit(j).how = "list"
        <5> HIDE DEF j
        <5> QED
          BY <2>4, <2>10, <4>1, EditIs
      <4> HIDE DEF j
      <4> QED
        BY <2>1, <2>4, <4>2, WrittenIs
    <3>2. new # << >>
      BY <2>7
    <3>3. new = Filtered(copy, Others(j))
      <4>1. \/ Edit(j).list = << >>
            \/ Edit(j).list = Filtered(j.cart.items, Others(j))
        <5> HIDE DEF j
        <5> QED
          BY <2>4, <3>1, EditIs
      <4> QED
        BY <3>1, <3>2, <4>1
    <3> DEFINE K == Others(j)
               q == Quantity(copy, g)
    <3>4. \A line \in K : line.item # j.call.item
      BY DEF Others
    <3>5. \A k \in DOMAIN copy : copy[k].item # j.call.item => copy[k] \in K
      BY DEF Others, Range
    <3> HIDE DEF K, copy
    <3>6. new[i] \in K /\ \E k \in DOMAIN copy : new[i] = copy[k]
      <4>1. i \in DOMAIN Filtered(copy, K)
        BY <3>3 DEF K
      <4>2. Filtered(copy, K)[i] \in K
            /\ \E k \in DOMAIN copy : Filtered(copy, K)[i] = copy[k]
        BY <2>5, <4>1, FilteredIs
      <4> QED
        BY <3>3, <4>2 DEF K
    <3>7. g # j.call.item
      BY <2>7, <3>4, <3>6
    <3>8. Quantity(new, g) <= q
      BY <2>5, <2>7, <3>6, QuantityIs
    <3>9. q \in Nat /\ q # 0
      BY <2>2, <2>5, <3>8, QuantityIs
    <3>10. PICK k \in DOMAIN copy : copy[k].item = g /\ copy[k].quantity = q
      BY <2>5, <3>9, QuantityIs
    <3>11. \E n \in DOMAIN new : new[n] = copy[k]
      <4>1. copy[k] \in K
        BY <3>5, <3>7, <3>10
      <4>2. \E n \in DOMAIN Filtered(copy, K) : Filtered(copy, K)[n] = copy[k]
        BY <2>5, <3>10, <4>1, FilteredHas
      <4> QED
        BY <3>3, <4>2 DEF K
    <3>12. q <= Quantity(new, g)
      BY <2>1, <3>10, <3>11, QuantityIs
    <3>13. Quantity(new, g) = q
      BY <2>2, <3>8, <3>9, <3>12
    <3> HIDE DEF new
    <3> QED
      BY <2>4, <2>10, <3>13 DEF new, copy
  <2> QED
    BY <2>9, <2>10
<1> QED
  BY <1>1, CopiesAreOld, PTL DEF RemindersSpec, LinesWithinStock, Within

(***************************************************************************)
(* Totals.                                                                 *)
(***************************************************************************)

CouponsInv == \A code \in Codes : AtMostAll(coupons[code])

LEMMA CouponsStep ==
  ASSUME NoCouponOverAll
  PROVE  TypeInv /\ CouponsInv /\ [RemindersNext]_remindersVars => CouponsInv'
<1> SUFFICES ASSUME TypeInv, CouponsInv, [RemindersNext]_remindersVars PROVE CouponsInv'
  OBVIOUS
<1>1. coupons \in [Codes -> CouponDocs]
  BY DEF TypeInv, RemindersTypeOK, CartsTypeOK
<1>2. CASE UNCHANGED coupons
  BY <1>2 DEF CouponsInv
<1>3. ASSUME NEW code \in Codes, NEW new, AtMostAll(new),
             coupons' = [coupons EXCEPT ![code] = new]
      PROVE  CouponsInv'
  <2>1. \A k \in Codes : coupons'[k] = new \/ coupons'[k] = coupons[k]
    BY <1>1, <1>3
  <2> QED
    BY <1>3, <2>1 DEF CouponsInv
<1>4. ASSUME NEW s \in CartSlots, NEW c \in CartCalls, WriteCoupon(s, c)
      PROVE  CouponsInv'
  <2>1. \E new : AtMostAll(new) /\ c.code \in Codes
                 /\ coupons' = [coupons EXCEPT ![c.code] = new]
    <3>1. CASE c.op \in {"create", "update"}
      <4>1. coupons' = [coupons EXCEPT ![c.code] = c.coupon] /\ c.code \in Codes
        BY <1>4, <3>1, CallFields DEF WriteCoupon
      <4>2. AtMostAll(c.coupon)
        BY <3>1 DEF NoCouponOverAll
      <4> QED
        BY <4>1, <4>2
    <3>2. CASE c.op = "remove"
      <4>1. coupons' = [coupons EXCEPT ![c.code] = NoCoupon] /\ c.code \in Codes
        BY <1>4, <3>2, CallFields DEF WriteCoupon
      <4>2. AtMostAll(NoCoupon)
        BY DEF AtMostAll, NoCoupon
      <4> QED
        BY <4>1, <4>2
    <3> QED
      BY <1>4, <3>1, <3>2 DEF WriteCoupon
  <2> QED
    BY <1>3, <2>1
<1>5. ASSUME NEW code \in Codes, ExpireCoupon(code)
      PROVE  CouponsInv'
  <2> DEFINE new == [coupons[code] EXCEPT !.expired = TRUE]
  <2>1. coupons' = [coupons EXCEPT ![code] = new]
    BY <1>1, <1>5 DEF ExpireCoupon
  <2>2. new.type = coupons[code].type /\ new.value = coupons[code].value
    BY <1>1 DEF CouponDocs
  <2>3. AtMostAll(new)
    <3> HIDE DEF new
    <3> QED
      BY <2>2 DEF CouponsInv, AtMostAll
  <2> HIDE DEF new
  <2> QED
    BY <1>3, <2>1, <2>3
<1>6. CASE CreateReturnCoupon
  <2> DEFINE new == [NoCoupon EXCEPT !.exists = TRUE, !.active = TRUE,
                                     !.type = "percentage", !.value = 5]
  <2>1. UNCHANGED coupons \/ coupons' = [coupons EXCEPT ![ReturnCode] = new]
    BY <1>6 DEF CreateReturnCoupon
  <2>2. AtMostAll(new)
    BY DEF AtMostAll, NoCoupon
  <2> HIDE DEF new
  <2> QED
    BY <1>2, <1>3, <2>1, <2>2, RemindersAssumption
<1>7. CASE JobNext /\ ~ CreateReturnCoupon
  <2>1. UNCHANGED coupons
    BY <1>7 DEF JobNext, RunStep, StartRun, ReadItems, FindReturnCoupon,
      SendReminder, MarkReminded, CartFails, CrashRun, cartsVars
  <2> QED
    BY <1>2, <2>1
<1>8. CASE CartsNext
  <2>1. CASE \E s \in CartSlots, c \in CartCalls, u \in Shoppers :
               BeginCall(s, c, u) \/ CheckCoupon(s, c, u)
    BY <1>2, <2>1 DEF BeginCall, FindCart, CheckCoupon
  <2>2. CASE \E s \in CartSlots : \/ LoadCart(s) \/ CreateCart(s) \/ CheckStock(s)
                                  \/ CheckMinimum(s) \/ SaveCart(s)
    BY <1>2, <2>2 DEF LoadCart, FindCart, CreateCart, CheckStock, CheckMinimum, SaveCart
  <2>3. CASE \E s \in CartSlots, c \in CartCalls : SetStock(s, c)
    BY <1>2, <2>3 DEF SetStock
  <2>4. CASE \E u \in Shoppers : GrowIdle(u)
    BY <1>2, <2>4 DEF GrowIdle
  <2> QED
    BY <1>4, <1>5, <1>8, <2>1, <2>2, <2>3, <2>4 DEF CartsNext
<1> QED
  BY <1>2, <1>6, <1>7, <1>8 DEF RemindersNext, remindersVars, cartsVars

(* A discount of at most 100 percent, rounded, or a fixed amount is not    *)
(* more than the subtotal.                                                 *)
LEMMA DiscountFits ==
  ASSUME NEW coupon \in CouponDocs, AtMostAll(coupon), NEW subtotal \in Nat
  PROVE  Discount(coupon, subtotal) \in Int /\ Discount(coupon, subtotal) <= subtotal
<1>1. coupon.value \in Nat /\ coupon.type \in {"percentage", "fixed"}
  BY DEF CouponDocs
<1>2. CASE coupon.type = "percentage"
  <2>1. PICK value \in Nat : value = coupon.value /\ value <= 100
    BY <1>1, <1>2 DEF AtMostAll
  <2>2. PICK p \in Nat : p = subtotal * value
    OBVIOUS
  <2>3. p <= subtotal * 100
    BY <2>1, <2>2
  <2>4. (p + 50) \div 100 \in Int /\ (p + 50) \div 100 <= subtotal
    BY <2>3
  <2>5. Discount(coupon, subtotal) = (p + 50) \div 100
    BY <1>2, <2>1, <2>2 DEF Discount
  <2> QED
    BY <2>4, <2>5
<1>3. CASE coupon.type = "fixed"
  BY <1>1, <1>3 DEF Discount
<1> QED
  BY <1>1, <1>2, <1>3

LEMMA SubtotalIs ==
  ASSUME TypeInv, NEW list \in Seq(Lines)
  PROVE  Subtotal(list) \in Nat
<1> DEFINE D == DOMAIN list
           cost == [i \in D |-> IF shelf[list[i].item] = Gone
                                  THEN 0 ELSE Price[list[i].item] * list[i].quantity]
<1>1. IsFiniteSet(D)
  <2>1. D = 1..Len(list) /\ Len(list) \in Nat
    OBVIOUS
  <2> QED
    BY <2>1, FS_Interval
<1>2. \A i \in D : cost[i] \in Nat
  <2> SUFFICES ASSUME NEW i \in D PROVE cost[i] \in Nat
    OBVIOUS
  <2>1. list[i].item \in Goods /\ list[i].quantity \in Nat
    BY LineFields
  <2>2. Price[list[i].item] \in Nat
    BY <2>1, CartsAssumption
  <2>3. Price[list[i].item] * list[i].quantity \in Nat
    BY <2>1, <2>2
  <2> QED
    BY <2>3
<1>3. Subtotal(list) = SumFunctionOnSet(cost, D)
  BY DEF Subtotal
<1> HIDE DEF cost, D
<1> QED
  BY <1>1, <1>2, <1>3, SumNat

(* The total that getCart computes is never negative, for every price,     *)
(* stock, list and coupon that the steps of the shop can bring about.      *)
THEOREM TotalsNotNegative ==
  ASSUME NoCouponOverAll
  PROVE  RemindersSpec => []TotalNotNegative
<1>1. RemindersInit => CouponsInv
  BY DEF RemindersInit, CartsInit, CouponsInv, NoCouponOverAll
<1>2. TypeInv /\ CouponsInv => TotalNotNegative
  <2> SUFFICES ASSUME TypeInv, CouponsInv, NEW u \in Shoppers PROVE Total(carts[u]) >= 0
    BY DEF TotalNotNegative
  <2> DEFINE cart == carts[u]
             subtotal == Subtotal(cart.items)
  <2>1. cart.items \in Seq(Lines) /\ cart.coupon \in Codes \cup {NoCode}
    BY CartIs DEF CartDocs
  <2>2. subtotal \in Nat
    BY <2>1, SubtotalIs
  <2> HIDE DEF subtotal
  <2>3. CASE Discounts(cart)
    <3> DEFINE coupon == coupons[cart.coupon]
    <3>1. coupon \in CouponDocs /\ AtMostAll(coupon)
      BY <2>1, <2>3 DEF Discounts, TypeInv, RemindersTypeOK, CartsTypeOK, CouponsInv
    <3> DEFINE d == Discount(coupon, subtotal)
    <3>2. d \in Int /\ d <= subtotal
      <4> HIDE DEF coupon
      <4> QED
        BY <2>2, <3>1, DiscountFits
    <3>3. Total(cart) = subtotal - d
      BY <2>3 DEF Total, subtotal
    <3> HIDE DEF d, cart
    <3>4. Total(cart) >= 0
      BY <2>2, <3>2, <3>3
    <3> QED
      BY <3>4 DEF cart
  <2>4. CASE ~ Discounts(cart)
    <3>1. Total(cart) = subtotal - 0
      BY <2>4 DEF Total, subtotal
    <3> HIDE DEF cart
    <3>2. Total(cart) >= 0
      BY <2>2, <3>1
    <3> QED
      BY <3>2 DEF cart
  <2> QED
    BY <2>3, <2>4
<1> QED
  BY <1>1, <1>2, TypeInit, TypeStep, CouponsStep, PTL DEF RemindersSpec
=============================================================================
