--------------------------- MODULE TelegramReview ---------------------------
(***************************************************************************)
(* The admin's Telegram group beside the order service: the messages with  *)
(* buttons that the order handlers post (notifications.service.ts,         *)
(* telegram.service.ts), the presses Telegram delivers to the webhook      *)
(* (telegram.controller.ts), and the order calls they end in.              *)
(*                                                                         *)
(* A request of Orders posts at most one message with buttons; it is named *)
(* after the request.  A press is an update that Telegram delivers until   *)
(* the webhook answers 200, so a webhook that throws is called again with  *)
(* the same press.  Two presses of one button (a double tap) are two       *)
(* presses.  Presses of a stranger, which are only answered, and restarts  *)
(* of the process are left out: every request of this module runs to its   *)
(* end.                                                                    *)
(***************************************************************************)
EXTENDS Orders

CONSTANTS
  Presses,    \* the presses of a behaviour, each used once
  RouteCalls  \* the calls the order routes make in a configuration

NoPress == 0

VARIABLES
  message,    \* message[r]: the keyboard of r's message, or what became of it
  press,      \* press[p]: how far the press came, its message and button
  cause       \* cause[r]: the press that made call r, NoPress for the routes

telegram == <<message, press, cause>>
reviewVars == <<orders, stock, vtoTokens, pc, job, message, press, cause>>

(* WORKFLOW_NEXT_STEPS and PAYMENT_REVIEW_BUTTONS: the buttons under the   *)
(* three faces of a review message and under a status message.             *)
Buttons == [initial        |-> {"approve_step1", "reject_step1"},
            confirmApprove |-> {"approve_confirm", "cancel"},
            confirmReject  |-> {"reject_confirm", "cancel"},
            pagada         |-> {"move_produccion"},
            en_produccion  |-> {"move_enviada"},
            enviada        |-> {"move_completada"}]

Keyboards == DOMAIN Buttons

(* The buttons that only change the keyboard, and the keyboard they show.  *)
Turns == [approve_step1 |-> "confirmApprove",
          reject_step1  |-> "confirmReject",
          cancel        |-> "initial"]

Review(status, reason) ==
  [op |-> "updatePaymentProof", url |-> None, method |-> None,
   status |-> status, reason |-> reason]

Move(status) == [op |-> "updateStatus", to |-> status]

(* The other buttons, and the order call handleWebhook makes for them.     *)
OrderCall == [approve_confirm |-> Review("verified", None),
              reject_confirm  |-> Review("rejected", "admin"),
              move_produccion |-> Move("en_produccion"),
              move_enviada    |-> Move("enviada"),
              move_completada |-> Move("completada")]

(* Slots are taken in order: which one a call or a press takes is no       *)
(* choice of the program.                                                  *)
ASSUME TelegramAssumption ==
  /\ Requests \subseteq Nat /\ Requests # {}
  /\ Presses \subseteq Nat \ {NoPress} /\ IsFiniteSet(Presses)
  /\ RouteCalls \subseteq Calls
  /\ \A b \in DOMAIN OrderCall : OrderCall[b] \in Calls

(* The keyboard of the message a call posts, None if it has no buttons:    *)
(* an upload asks for a review; a verification announces pagada, whatever  *)
(* the status of the order; a move announces the new status if there is a  *)
(* next step (completada and a rejection are plain text).                  *)
Announces(call, doc) ==
  CASE call.op = "updatePaymentProof" /\ call.status = "verified" -> "pagada"
    [] /\ call.op = "updatePaymentProof"
       /\ call.status # "rejected"
       /\ call.url # None -> "initial"
    [] /\ call.op = "updateStatus"
       /\ call.to \in {"en_produccion", "enviada"}
       /\ call.to # doc.status -> call.to
    [] call.op = "updateTracking" -> "enviada"
    [] OTHER -> None

Posts(r) == pc[r] # "new" /\ Announces(job[r].call, job[r].doc) # None

(* Faulty variant: every message is on its way before the save.            *)
PostsBeforeAnySave(r) == Posts(r)

(* A verification awaits its message before it saves the proof; an upload  *)
(* does not await it; a move posts it after the save.                      *)
PostsBeforeSave(r) == Posts(r) /\ job[r].call.op = "updatePaymentProof"

AwaitsPost(r) ==
  /\ Posts(r) /\ Announces(job[r].call, job[r].doc) = "pagada"
  /\ message[r] = "unsent"

PressStates == {"unused", "queued", "touched", "answered", "done"}

ReviewTypeOK ==
  /\ TypeOK
  /\ message \in [Requests -> Keyboards \cup {"unsent", "gone"}]
  /\ press \in [Presses ->
       [at : PressStates, message : Requests,
        button : DOMAIN Turns \cup DOMAIN OrderCall]]
  /\ cause \in [Requests -> Presses \cup {NoPress}]

ReviewInit ==
  /\ Init
  /\ message = [r \in Requests |-> "unsent"]
  /\ press = [p \in Presses |->
       [at |-> "unused", message |-> CHOOSE r \in Requests : TRUE,
        button |-> "cancel"]]
  /\ cause = [r \in Requests |-> NoPress]

-----------------------------------------------------------------------------
NextRequest(r) == \A q \in Requests : (q < r => pc[q] # "new")
NextPress(p) == \A q \in Presses : (q < p => press[q].at # "unused")

(* A call of the order routes.                                             *)
RouteCall(r, c, o) ==
  NextRequest(r) /\ FindOrder(r, c, o) /\ UNCHANGED telegram

(* A started handler goes on, unless it waits for its message to be sent.  *)
Proceed(r) == Continue(r) /\ ~AwaitsPost(r) /\ UNCHANGED telegram

(* The message appears in the group, or the send fails and the error is    *)
(* swallowed: nobody sends it again.                                       *)
Post(r) ==
  /\ Posts(r)
  /\ message[r] = "unsent"
  /\ PostsBeforeSave(r) \/ pc[r] = "done"
  /\ AwaitsPost(r) => pc[r] = "loaded"
  /\ \E kept \in BOOLEAN :
       message' = [message EXCEPT ![r] =
         IF kept THEN Announces(job[r].call, job[r].doc) ELSE "gone"]
  /\ UNCHANGED <<vars, press, cause>>

(* The admin presses a button that the message shows.                      *)
Press(p, m, b) ==
  /\ press[p].at = "unused"
  /\ NextPress(p)
  /\ message[m] \in Keyboards
  /\ b \in Buttons[message[m]]
  /\ press' = [press EXCEPT ![p] =
                 [at |-> "queued", message |-> m, button |-> b]]
  /\ UNCHANGED <<vars, message, cause>>

Became(p, at) == press' = [press EXCEPT ![p].at = at]

(* handleCallbackQuery, first call to Telegram.  The keyboard of a message *)
(* that is still there changes; if it cannot, the webhook throws and the   *)
(* press stays queued.                                                     *)
Turn(p) ==
  LET m == press[p].message IN
  /\ press[p].at = "queued"
  /\ press[p].button \in DOMAIN Turns
  /\ message[m] \in Keyboards \ {Turns[press[p].button]}
  /\ message' = [message EXCEPT ![m] = Turns[press[p].button]]
  /\ Became(p, "touched")
  /\ UNCHANGED <<vars, cause>>

(* Faulty variant: an error of deleteMessage leaves the webhook.           *)
DeleteIfShown(p) ==
  /\ press[p].at = "queued"
  /\ press[p].button \in DOMAIN OrderCall
  /\ message[press[p].message] \in Keyboards
  /\ message' = [message EXCEPT ![press[p].message] = "gone"]
  /\ Became(p, "touched")
  /\ UNCHANGED <<vars, cause>>

(* A button that acts deletes its message first.  An error, as for a       *)
(* message that is already deleted, is swallowed.                          *)
Delete(p) ==
  LET m == press[p].message IN
  /\ press[p].at = "queued"
  /\ press[p].button \in DOMAIN OrderCall
  /\ \E left \in {message[m], "gone"} :
       message' = [message EXCEPT ![m] = left]
  /\ Became(p, "touched")
  /\ UNCHANGED <<vars, cause>>

(* answerCallback, second call to Telegram ...                             *)
Answer(p) ==
  /\ press[p].at = "touched"
  /\ Became(p, IF press[p].button \in DOMAIN OrderCall
                 THEN "answered" ELSE "done")
  /\ UNCHANGED <<vars, message, cause>>

(* Faulty variant: an error of the order call fails the webhook too.       *)
FailWheneverCalled(p) ==
  /\ \/ press[p].at = "touched"
     \/ /\ press[p].at = "done"
        /\ press[p].button \in DOMAIN OrderCall
  /\ Became(p, "queued")
  /\ UNCHANGED <<vars, message, cause>>

(* ... which throws when it fails: no order call is made, and Telegram     *)
(* delivers the press again.                                               *)
FailAnswer(p) ==
  /\ press[p].at = "touched"
  /\ Became(p, "queued")
  /\ UNCHANGED <<vars, message, cause>>

(* handleWebhook calls the order service.  Its errors are swallowed, so    *)
(* the press is answered with 200 whatever becomes of the call.            *)
Act(p, r) ==
  /\ press[p].at = "answered"
  /\ NextRequest(r)
  /\ FindOrder(r, OrderCall[press[p].button], job[press[p].message].order)
  /\ cause' = [cause EXCEPT ![r] = p]
  /\ Became(p, "done")
  /\ UNCHANGED message

-----------------------------------------------------------------------------
ReviewNext ==
  \/ \E r \in Requests :
       \/ \E c \in RouteCalls, o \in Orders : RouteCall(r, c, o)
       \/ Proceed(r)
       \/ Post(r)
       \/ \E p \in Presses : Act(p, r)
  \/ \E p \in Presses :
       \/ \E m \in Requests, b \in DOMAIN Turns \cup DOMAIN OrderCall :
            Press(p, m, b)
       \/ Turn(p)
       \/ Delete(p)
       \/ Answer(p)
       \/ FailAnswer(p)

ReviewSpec == ReviewInit /\ [][ReviewNext]_reviewVars

(* Telegram delivers a press until it is accepted, and its API does not    *)
(* refuse the answer to it for ever.                                       *)
Persistence ==
  \A p \in Presses :
    /\ WF_reviewVars(Delete(p))
    /\ SF_reviewVars(Answer(p))
    /\ WF_reviewVars(\E r \in Requests : Act(p, r))

FairReviewSpec == ReviewSpec /\ Persistence
=============================================================================
