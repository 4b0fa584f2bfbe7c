----------------------------- MODULE Reminders ------------------------------
(***************************************************************************)
(* The daily job of scheduled-tasks/scheduled-tasks.service.ts that mails  *)
(* a reminder to the owners of abandoned carts, beside the cart handlers.  *)
(*                                                                         *)
(* A run loads a batch of carts and treats them one after the other: items *)
(* of the loaded copy, coupon, e-mail, mark.  An error ends the cart, not  *)
(* the run.  Accounts are never removed from the database and always have  *)
(* an e-mail address, so that the user of a cart is always found.          *)
(***************************************************************************)
EXTENDS Carts

CONSTANTS
  CartOrder,   \* the shoppers in the order in which find returns their carts
  Batch,       \* the limit of the query, 50 in the code
  ReturnCode,  \* VUELVE5
  MaxFailures  \* bound on e-mails, marks and runs that fail

ASSUME RemindersAssumption ==
  /\ CartOrder \in Seq(Shoppers) /\ IsInjective(CartOrder)
  /\ Batch \in Nat \ {0}
  /\ MaxFailures \in Nat
  /\ ReturnCode \in Codes

VARIABLES
  runPc,     \* what the job does next for the first cart of its batch
  batch,     \* the carts the run still has to treat
  mails,     \* mails[u]: reminders sent to u
  unmarked,  \* unmarked[u]: of these, the ones whose mark was not saved
  failures   \* failures so far

jobVars == <<runPc, batch, mails, unmarked, failures>>

remindersVars == <<cartsVars, jobVars>>

RunPCs == {"idle", "items", "coupon", "create", "mail", "mark"}

RemindersTypeOK ==
  /\ CartsTypeOK
  /\ runPc \in RunPCs
  /\ batch \in Seq([user : Shoppers, items : Seq(Lines)])
  /\ mails \in [Shoppers -> Nat]
  /\ unmarked \in [Shoppers -> Nat]
  /\ failures \in 0..MaxFailures

JobInit ==
  /\ runPc = "idle"
  /\ batch = << >>
  /\ mails = [u \in Shoppers |-> 0]
  /\ unmarked = [u \in Shoppers |-> 0]
  /\ failures = 0

-----------------------------------------------------------------------------
(* Faulty variant: carts that were reminded are found again.               *)
AbandonedAgain(cart) == cart.exists /\ cart.items # << >> /\ cart.idle

Abandoned(cart) ==
  cart.exists /\ cart.items # << >> /\ cart.idle /\ ~ cart.reminded

(* getCartItemsForEmail: the lines whose variant is still there.           *)
Presentable(items) == \E i \in DOMAIN items : shelf[items[i].item] # Gone

NextCartOfRun ==
  /\ batch' = Tail(batch)
  /\ runPc' = IF Len(batch) > 1 THEN "items" ELSE "idle"

(* handleAbandonedCarts: the query and its limit.                          *)
StartRun ==
  LET found == Filtered(CartOrder, {u \in Shoppers : Abandoned(carts[u])})
      first == SubSeq(found, 1, IF Len(found) < Batch THEN Len(found) ELSE Batch)
  IN  /\ runPc = "idle"
      /\ found # << >>
      /\ batch' = [i \in DOMAIN first |->
                     [user |-> first[i], items |-> carts[first[i]].items]]
      /\ runPc' = "items"
      /\ UNCHANGED <<cartsVars, mails, unmarked, failures>>

(* Faulty variant: a cart without items to show ends the run.              *)
ReadItemsOrEnd ==
  /\ runPc = "items"
  /\ IF Presentable(Head(batch).items)
       THEN runPc' = "coupon" /\ UNCHANGED batch
       ELSE runPc' = "idle" /\ batch' = << >>
  /\ UNCHANGED <<cartsVars, mails, unmarked, failures>>

(* processAbandonedCart: a cart without items to show is left as it is.    *)
ReadItems ==
  /\ runPc = "items"
  /\ IF Presentable(Head(batch).items)
       THEN runPc' = "coupon" /\ UNCHANGED batch
       ELSE NextCartOfRun
  /\ UNCHANGED <<cartsVars, mails, unmarked, failures>>

(* getOrCreateAbandonedCartCoupon: any coupon of that code is taken, ...   *)
FindReturnCoupon ==
  /\ runPc = "coupon"
  /\ runPc' = IF coupons[ReturnCode].exists THEN "mail" ELSE "create"
  /\ UNCHANGED <<cartsVars, batch, mails, unmarked, failures>>

(* ... and one is inserted if there is none.                               *)
CreateReturnCoupon ==
  /\ runPc = "create"
  /\ IF coupons[ReturnCode].exists
       THEN NextCartOfRun /\ UNCHANGED coupons
       ELSE /\ coupons' = [coupons EXCEPT ![ReturnCode] =
                 [NoCoupon EXCEPT !.exists = TRUE, !.active = TRUE,
                                  !.type = "percentage", !.value = 5]]
            /\ runPc' = "mail"
            /\ UNCHANGED batch
  /\ UNCHANGED <<carts, shelf, cartPc, cartJob, mails, unmarked, failures>>

SendReminder ==
  /\ runPc = "mail"
  /\ mails' = [mails EXCEPT ![Head(batch).user] = @ + 1]
  /\ runPc' = "mark"
  /\ UNCHANGED <<cartsVars, batch, unmarked, failures>>

(* The mark is the only field of the copy that changed, so that the save   *)
(* writes nothing else.                                                    *)
MarkReminded ==
  /\ runPc = "mark"
  /\ carts' = [carts EXCEPT ![Head(batch).user].reminded = TRUE]
  /\ NextCartOfRun
  /\ UNCHANGED <<shelf, coupons, cartPc, cartJob, mails, unmarked, failures>>

(* The e-mail or the save of the mark throws: the error is caught and the  *)
(* next cart follows.                                                      *)
CartFails ==
  /\ runPc \in {"mail", "mark"}
  /\ failures < MaxFailures
  /\ failures' = failures + 1
  /\ unmarked' = [unmarked EXCEPT ![Head(batch).user] =
                    IF runPc = "mark" THEN @ + 1 ELSE @]
  /\ NextCartOfRun
  /\ UNCHANGED <<cartsVars, mails>>

(* The process restarts during a run; nothing resumes it.                  *)
CrashRun ==
  /\ runPc # "idle"
  /\ failures < MaxFailures
  /\ failures' = failures + 1
  /\ unmarked' = [unmarked EXCEPT ![Head(batch).user] =
                    IF runPc = "mark" THEN @ + 1 ELSE @]
  /\ runPc' = "idle"
  /\ batch' = << >>
  /\ UNCHANGED <<cartsVars, mails>>

RunStep ==
  \/ ReadItems
  \/ FindReturnCoupon
  \/ CreateReturnCoupon
  \/ SendReminder
  \/ MarkReminded

JobNext == StartRun \/ RunStep \/ CartFails \/ CrashRun

RemindersInit == CartsInit /\ JobInit

RemindersNext == JobNext \/ (CartsNext /\ UNCHANGED jobVars)

RemindersSpec == RemindersInit /\ [][RemindersNext]_remindersVars
=============================================================================
