--------------------------- MODULE Orders_proofs ----------------------------
(***************************************************************************)
(* Proofs about OrdersService for every set of orders, variants, users,    *)
(* requests and calls, with and without failures.                          *)
(***************************************************************************)
EXTENDS OrdersProps, SumsAndLists_proofs

(* What the operations of a call determine about its other fields.         *)
LEMMA CallFields ==
  ASSUME NEW c \in Calls
  PROVE  /\ c.op = "updateStatus" => c.to \in Statuses
         /\ c.op = "updatePaymentProof" =>
              /\ c.url \in Urls \cup {None}
              /\ c.method \in Methods \cup {None}
              /\ c.status \in ProofStatuses \cup {None}
              /\ c.reason \in Reasons \cup {None}
<1>1. c \in AllCalls
  BY OrdersAssumption
<1>2. CASE c \in StatusCalls
  BY <1>2 DEF StatusCalls
<1>3. CASE c \in ProofCalls
  BY <1>3 DEF ProofCalls
<1>4. CASE c \in PlainCalls
  BY <1>4 DEF PlainCalls
<1> QED
  BY <1>1, <1>2, <1>3, <1>4 DEF AllCalls

(* A merged proof is a proof.                                              *)
LEMMA MergedProofType ==
  ASSUME NEW c \in Calls, c.op = "updatePaymentProof", NEW p \in Proofs
  PROVE  MergedProof(c, p) \in Proofs
<1>1. /\ c.url \in Urls \cup {None}
      /\ c.method \in Methods \cup {None}
      /\ c.status \in ProofStatuses \cup {None}
      /\ c.reason \in Reasons \cup {None}
  BY CallFields
<1>2. /\ p.url \in Urls \cup {None}
      /\ p.method \in Methods \cup {None}
      /\ p.status \in ProofStatuses \cup {None}
      /\ p.reason \in Reasons \cup {None}
  BY DEF Proofs
<1>3. Or(Or(c.status, p.status), "pending") \in ProofStatuses \cup {None}
  BY <1>1, <1>2 DEF Or, ProofStatuses
<1>4. Or(c.reason, IF c.status = "verified" THEN None ELSE p.reason)
        \in Reasons \cup {None}
  BY <1>1, <1>2 DEF Or
<1>5. Or(c.url, p.url) \in Urls \cup {None}
  BY <1>1, <1>2 DEF Or
<1>6. Or(c.method, p.method) \in Methods \cup {None}
  BY <1>1, <1>2 DEF Or
<1> QED
  BY <1>3, <1>4, <1>5, <1>6 DEF MergedProof, Proofs

(* The saves: each replaces one order document by one of the right type.   *)
LEMMA SaveOnlyStatusType ==
  ASSUME TypeOK, NEW r \in Requests, NEW s \in Statuses, SaveOnlyStatus(r, s)
  PROVE  orders' \in [Orders -> OrderDocs]
<1>1. job[r].order \in Orders
  BY DEF TypeOK, Jobs
<1>2. orders[job[r].order] \in OrderDocs
  BY <1>1 DEF TypeOK
<1>3. Delta(orders[job[r].order].status, job[r].doc.status, s) \in Statuses
  BY <1>2 DEF Delta, OrderDocs
<1> QED
  BY <1>1, <1>2, <1>3 DEF SaveOnlyStatus, TypeOK, OrderDocs

LEMMA IdleJobType == IdleJob \in Jobs
<1>1. PICK c \in Calls : TRUE
  BY OrdersAssumption
<1>2. (CHOOSE d \in Calls : TRUE) \in Calls
  BY <1>1
<1>3. PICK o \in Orders : TRUE
  BY OrdersAssumption
<1>4. (CHOOSE o1 \in Orders : TRUE) \in Orders
  BY <1>3
<1>5. [status |-> "esperando_pago", proof |-> NoProof] \in OrderDocs
  BY DEF OrderDocs, Statuses, NoProof, Proofs
<1> QED
  BY <1>2, <1>4, <1>5 DEF IdleJob, Jobs

LEMMA TypeInit == Init => TypeOK
<1> SUFFICES ASSUME Init PROVE TypeOK
  OBVIOUS
<1>1. NewOrders \subseteq OrderDocs
  BY DEF NewOrders, OrderDocs, Statuses, NoProof, Proofs
<1>2. orders \in [Orders -> OrderDocs]
  BY <1>1 DEF Init
<1>3. vtoTokens \in [Users -> Nat]
  BY DEF Init, FreeTokens
<1>4. stock \in [Variants -> Int]
  BY OrdersAssumption DEF Init
<1>5. pc \in [Requests -> PCs]
  BY DEF Init, PCs
<1>6. job \in [Requests -> Jobs]
  BY IdleJobType DEF Init
<1> QED
  BY <1>2, <1>3, <1>4, <1>5, <1>6 DEF TypeOK

LEMMA TypeStep == TypeOK /\ [Next]_vars => TypeOK'
<1> SUFFICES ASSUME TypeOK, [Next]_vars PROVE TypeOK'
  OBVIOUS
<1> USE DEF PCs, Goto
<1>1. ASSUME NEW r \in Requests, NEW c \in Calls, NEW o \in Orders,
             FindOrder(r, c, o)
      PROVE  TypeOK'
  <2>1. [call |-> c, order |-> o, doc |-> orders[o], returned |-> {}] \in Jobs
    BY DEF TypeOK, Jobs
  <2> QED
    BY <1>1, <2>1 DEF FindOrder, TypeOK
<1>2. ASSUME NEW r \in Requests, SaveStatus(r)
      PROVE  TypeOK'
  <2> DEFINE j == job[r]
  <2>1. j.call \in Calls /\ j.order \in Orders /\ j.call.op = "updateStatus"
    BY <1>2 DEF TypeOK, Jobs, SaveStatus, At
  <2>2. j.call.to \in Statuses
    BY <2>1, CallFields
  <2>3. orders[j.order] \in OrderDocs
    BY <2>1 DEF TypeOK
  <2>4. Delta(orders[j.order].status, j.doc.status, j.call.to) \in Statuses
    BY <2>2, <2>3 DEF Delta, OrderDocs
  <2>5. orders[j.order].proof \in Proofs
    BY <2>3 DEF OrderDocs
  <2>6. [orders[j.order].proof EXCEPT !.status =
           IF SyncsProof(j.call, j.doc) THEN "verified" ELSE @] \in Proofs
    BY <2>5 DEF Proofs, ProofStatuses
  <2>7. orders' \in [Orders -> OrderDocs]
    BY <1>2, <2>1, <2>3, <2>4, <2>6 DEF SaveStatus, TypeOK, OrderDocs
  <2> QED
    BY <1>2, <2>7 DEF SaveStatus, TypeOK
<1>3. ASSUME NEW r \in Requests, AwardTokens(r)
      PROVE  TypeOK'
  <2>1. \A u \in Users : vtoTokens[u] + TokensPerPurchase \in Nat
    BY DEF TypeOK, TokensPerPurchase
  <2>2. vtoTokens' \in [Users -> Nat]
    BY <1>3, <2>1 DEF AwardTokens, TypeOK
  <2> QED
    BY <1>3, <2>2 DEF AwardTokens, TypeOK
<1>4. ASSUME NEW r \in Requests, SaveProof(r)
      PROVE  TypeOK'
  <2> DEFINE j == job[r]
  <2>1. /\ j.call \in Calls /\ j.order \in Orders /\ j.doc \in OrderDocs
        /\ j.call.op = "updatePaymentProof"
    BY <1>4 DEF TypeOK, Jobs, SaveProof, At
  <2>2. orders[j.order] \in OrderDocs
    BY <2>1 DEF TypeOK
  <2>3. MergedProof(j.call, j.doc.proof) \in Proofs
    BY <2>1, MergedProofType DEF OrderDocs
  <2>4. Delta(orders[j.order].proof, j.doc.proof,
              MergedProof(j.call, j.doc.proof)) \in Proofs
    BY <2>2, <2>3 DEF Delta, OrderDocs
  <2>5. StatusAfterProof(j.call, j.doc) \in Statuses
    BY <2>1 DEF StatusAfterProof, OrderDocs, Statuses
  <2>6. Delta(orders[j.order].status, j.doc.status,
              StatusAfterProof(j.call, j.doc)) \in Statuses
    BY <2>2, <2>5 DEF Delta, OrderDocs
  <2>7. orders' \in [Orders -> OrderDocs]
    BY <1>4, <2>1, <2>2, <2>4, <2>6 DEF SaveProof, TypeOK, OrderDocs
  <2> QED
    BY <1>4, <2>7 DEF SaveProof, TypeOK
<1>5. ASSUME NEW r \in Requests, SaveTracking(r)
      PROVE  TypeOK'
  BY <1>5, SaveOnlyStatusType DEF SaveTracking, TypeOK, Statuses
<1>6. ASSUME NEW r \in Requests, NEW v \in Variants, ReturnItem(r, v)
      PROVE  TypeOK'
  <2>1. job[r].order \in Orders /\ job[r] \in Jobs
    BY DEF TypeOK, Jobs
  <2>2. stock' \in [Variants -> Int]
    BY <1>6, <2>1, OrdersAssumption DEF ReturnItem, TypeOK
  <2>3. job' \in [Requests -> Jobs]
    BY <1>6, <2>1 DEF ReturnItem, TypeOK, Jobs
  <2> QED
    BY <1>6, <2>2, <2>3 DEF ReturnItem, TypeOK
<1>7. ASSUME NEW r \in Requests, SaveCancelled(r)
      PROVE  TypeOK'
  BY <1>7, SaveOnlyStatusType DEF SaveCancelled, TypeOK, Statuses
<1>8. ASSUME NEW r \in Requests, SaveArchived(r)
      PROVE  TypeOK'
  BY <1>8, SaveOnlyStatusType DEF SaveArchived, TypeOK, Statuses
<1>9. ASSUME NEW r \in Requests, SaveUnarchived(r)
      PROVE  TypeOK'
  BY <1>9, SaveOnlyStatusType DEF SaveUnarchived, TypeOK, Statuses
<1>10. ASSUME NEW r \in Requests, Abort(r)
       PROVE  TypeOK'
  BY <1>10 DEF Abort, TypeOK
<1>11. CASE UNCHANGED vars
  BY <1>11 DEF vars, TypeOK
<1> QED
  BY <1>1, <1>2, <1>3, <1>4, <1>5, <1>6, <1>7, <1>8, <1>9, <1>10, <1>11
     DEF Next, Continue

(* Every reachable state of the order service is well typed, whatever the  *)
(* requests, their overlaps and their failures: in particular no handler   *)
(* ever stores a status outside the schema's enum.                         *)
THEOREM TypeCorrect == Spec => []TypeOK
<1> QED
  BY TypeInit, TypeStep, PTL DEF Spec

-----------------------------------------------------------------------------
(***************************************************************************)
(* Cancelled orders have their stock back.  The invariant is inductive     *)
(* relative to TypeOK: a request that finished never changes again, so the *)
(* witness of a cancelled order stays, and only two saves make an order    *)
(* cancelled.                                                              *)
(***************************************************************************)

(* What a step of a started handler leaves alone: the other requests, the  *)
(* other orders, what the handler was called with and loaded; and while it *)
(* has not saved, every order.                                             *)
HandlerStep(r) ==
  /\ InFlight(r)
  /\ \A q \in Requests \ {r} : pc'[q] = pc[q] /\ job'[q] = job[q]
  /\ \A o \in Orders \ {job[r].order} : orders'[o] = orders[o]
  /\ job'[r].call = job[r].call
  /\ job'[r].order = job[r].order
  /\ job'[r].doc = job[r].doc
  /\ pc'[r] = "loaded" => pc[r] = "loaded" /\ orders' = orders

LEMMA HandlerSteps ==
  ASSUME TypeOK, NEW r \in Requests, Continue(r) \/ Abort(r)
  PROVE  HandlerStep(r)
<1> USE DEF TypeOK, Jobs, At, Goto, InFlight, HandlerStep
<1>1. CASE SaveStatus(r)
  BY <1>1 DEF SaveStatus
<1>2. CASE AwardTokens(r)
  BY <1>2 DEF AwardTokens
<1>3. CASE SaveProof(r)
  BY <1>3 DEF SaveProof
<1>4. CASE SaveTracking(r)
  BY <1>4 DEF SaveTracking, SaveOnlyStatus
<1>5. ASSUME NEW v \in Variants, ReturnItem(r, v)
      PROVE  HandlerStep(r)
  BY <1>5 DEF ReturnItem
<1>6. CASE SaveCancelled(r)
  BY <1>6 DEF SaveCancelled, SaveOnlyStatus
<1>7. CASE SaveArchived(r)
  BY <1>7 DEF SaveArchived, SaveOnlyStatus
<1>8. CASE SaveUnarchived(r)
  BY <1>8 DEF SaveUnarchived, SaveOnlyStatus
<1>9. CASE Abort(r)
  BY <1>9 DEF Abort
<1> QED
  BY <1>1, <1>2, <1>3, <1>4, <1>5, <1>6, <1>7, <1>8, <1>9 DEF Continue

(* A finished request is left alone by every step.                         *)
LEMMA FinishedStays ==
  ASSUME TypeOK, [Next]_vars, NEW q \in Requests, pc[q] = "done"
  PROVE  pc'[q] = "done" /\ job'[q] = job[q]
<1>1. ASSUME NEW r \in Requests, NEW c \in Calls, NEW o \in Orders,
             FindOrder(r, c, o)
      PROVE  pc'[q] = "done" /\ job'[q] = job[q]
  BY <1>1 DEF FindOrder, Goto, TypeOK
<1>2. ASSUME NEW r \in Requests, Continue(r) \/ Abort(r)
      PROVE  pc'[q] = "done" /\ job'[q] = job[q]
  <2>1. HandlerStep(r)
    BY <1>2, HandlerSteps
  <2> QED
    BY <2>1 DEF HandlerStep, InFlight
<1>3. CASE UNCHANGED vars
  BY <1>3 DEF vars
<1> QED
  BY <1>1, <1>2, <1>3 DEF Next

(* The request that justifies that o is shown cancelled.                   *)
CancelWitness(r, o) ==
  \/ Finished(r, "cancelOrder", o) /\ Items(o) \subseteq job[r].returned
  \/ Finished(r, "updateStatus", o) /\ job[r].call.to = "cancelada"

LEMMA WitnessStays ==
  ASSUME TypeOK, [Next]_vars, NEW q \in Requests, NEW o \in Orders,
         CancelWitness(q, o)
  PROVE  CancelWitness(q, o)'
<1>1. pc[q] = "done"
  BY DEF CancelWitness, Finished
<1>2. pc'[q] = "done" /\ job'[q] = job[q]
  BY <1>1, FinishedStays
<1> QED
  BY <1>2 DEF CancelWitness, Finished, Op

(* A save that changes nothing but the status of its order, to a status    *)
(* other than cancelada, cancels nothing.                                  *)
LEMMA OtherStatusCancelsNothing ==
  ASSUME TypeOK, NEW r \in Requests, NEW s \in Statuses \ {"cancelada"},
         SaveOnlyStatus(r, s), NEW o \in Orders,
         orders'[o].status = "cancelada"
  PROVE  orders[o].status = "cancelada"
<1>1. job[r].order \in Orders
  BY DEF TypeOK, Jobs
<1> QED
  BY <1>1 DEF SaveOnlyStatus, Delta, TypeOK, OrderDocs

(* The steps that make an order cancelled: they leave a witness.           *)
LEMMA OnlyCancelsCancel ==
  ASSUME TypeOK, [Next]_vars, NEW o \in Orders,
         orders[o].status # "cancelada", orders'[o].status = "cancelada"
  PROVE  \E q \in Requests : CancelWitness(q, o)'
<1> DEFINE Goal == \E q \in Requests : CancelWitness(q, o)'
<1>1. ASSUME NEW r \in Requests, NEW c \in Calls, NEW p \in Orders,
             FindOrder(r, c, p)
      PROVE  Goal
  BY <1>1 DEF FindOrder
<1>2. ASSUME NEW r \in Requests, SaveStatus(r)
      PROVE  Goal
  <2>1. job[r].order \in Orders /\ pc[r] = "loaded"
    BY <1>2 DEF TypeOK, Jobs, SaveStatus, At
  <2>2. job[r].order = o
    BY <1>2, <2>1 DEF SaveStatus, TypeOK, OrderDocs
  <2>3. orders'[o].status =
          Delta(orders[o].status, job[r].doc.status, job[r].call.to)
    BY <1>2, <2>2 DEF SaveStatus, TypeOK, OrderDocs
  <2>4. job[r].call.to = "cancelada"
    BY <2>3 DEF Delta
  <2>5. pc'[r] = "done" /\ job'[r] = job[r]
    BY <1>2, <2>4 DEF SaveStatus, Goto, Awards, TypeOK
  <2> QED
    BY <1>2, <2>2, <2>4, <2>5
       DEF SaveStatus, At, CancelWitness, Finished, Op
<1>3. ASSUME NEW r \in Requests, AwardTokens(r)
      PROVE  Goal
  BY <1>3 DEF AwardTokens
<1>4. ASSUME NEW r \in Requests, SaveProof(r)
      PROVE  Goal
  <2>1. job[r].order \in Orders
    BY DEF TypeOK, Jobs
  <2>2. job[r].order = o
    BY <1>4, <2>1 DEF SaveProof, TypeOK, OrderDocs
  <2>3. orders'[o].status =
          Delta(orders[o].status, job[r].doc.status,
                StatusAfterProof(job[r].call, job[r].doc))
    BY <1>4, <2>2 DEF SaveProof, TypeOK, OrderDocs
  <2> QED
    BY <2>3 DEF Delta, StatusAfterProof
<1>5. ASSUME NEW r \in Requests,
             SaveTracking(r) \/ SaveArchived(r) \/ SaveUnarchived(r)
      PROVE  Goal
  <2>1. \E s \in Statuses \ {"cancelada"} : SaveOnlyStatus(r, s)
    BY <1>5 DEF SaveTracking, SaveArchived, SaveUnarchived, Statuses
  <2> QED
    BY <2>1, OtherStatusCancelsNothing
<1>6. ASSUME NEW r \in Requests, NEW v \in Variants, ReturnItem(r, v)
      PROVE  Goal
  BY <1>6 DEF ReturnItem
<1>7. ASSUME NEW r \in Requests, SaveCancelled(r)
      PROVE  Goal
  <2>1. job[r].order \in Orders
    BY DEF TypeOK, Jobs
  <2>2. job[r].order = o
    BY <1>7, <2>1 DEF SaveCancelled, SaveOnlyStatus, TypeOK, OrderDocs
  <2>3. pc'[r] = "done" /\ job'[r] = job[r]
    BY <1>7 DEF SaveCancelled, Goto, TypeOK
  <2> QED
    BY <1>7, <2>2, <2>3
       DEF SaveCancelled, At, CancelWitness, Finished, Op
<1>8. ASSUME NEW r \in Requests, Abort(r)
      PROVE  Goal
  BY <1>8 DEF Abort
<1>9. CASE UNCHANGED vars
  BY <1>9 DEF vars
<1> QED
  BY <1>1, <1>2, <1>3, <1>4, <1>5, <1>6, <1>7, <1>8, <1>9 DEF Next, Continue

LEMMA CancelledStep ==
  TypeOK /\ CancelledStockReturned /\ [Next]_vars => CancelledStockReturned'
<1> SUFFICES ASSUME TypeOK, CancelledStockReturned, [Next]_vars,
                    NEW o \in Orders, orders'[o].status = "cancelada"
             PROVE  \E q \in Requests : CancelWitness(q, o)'
  BY DEF CancelledStockReturned, CancelWitness
<1>1. CASE orders[o].status = "cancelada"
  <2>1. PICK q \in Requests : CancelWitness(q, o)
    BY <1>1 DEF CancelledStockReturned, CancelWitness
  <2> QED
    BY <2>1, WitnessStays
<1>2. CASE orders[o].status # "cancelada"
  BY <1>2, OnlyCancelsCancel
<1> QED
  BY <1>1, <1>2

(* Whatever overlaps and whatever fails, an order that is shown cancelled  *)
(* without having been set so by updateStatus has every one of its items   *)
(* back in stock.                                                          *)
THEOREM CancelledStock == Spec => []CancelledStockReturned
<1>1. Init => CancelledStockReturned
  BY DEF Init, NewOrders, CancelledStockReturned
<1> QED
  BY <1>1, CancelledStep, TypeCorrect, PTL DEF Spec

-----------------------------------------------------------------------------
(***************************************************************************)
(* What undoes a cancellation.                                             *)
(***************************************************************************)
(* What a step of r may do to a cancelled order, unless r was told to.     *)
Undoes(r, o) ==
  /\ pc[r] = "loaded"
  /\ job[r].order = o
  /\ \/ Op(r) \in {"updateStatus", "updateTracking", "archiveOrder",
                   "unarchiveOrder"}
     \/ /\ Op(r) = "updatePaymentProof"
        /\ job[r].call.status = "verified"
        /\ job[r].doc.status = "esperando_pago"

(* For any number of overlapping, failing requests, a save that lost the   *)
(* race against a cancellation does not undo it, but for an approval that  *)
(* loaded the order while it waited for payment.                           *)
THEOREM CancelFinal == Spec => CancelIsFinal
<1>1. ASSUME TypeOK, [Next]_vars, NEW o \in Orders,
             orders[o].status = "cancelada", orders'[o].status # "cancelada"
      PROVE  \E r \in Requests : Undoes(r, o)
  <2> USE <1>1
  <2>1. ASSUME NEW r \in Requests, Continue(r)
        PROVE  Undoes(r, o)
    <3>1. job[r].order \in Orders
      BY DEF TypeOK, Jobs
    <3>2. CASE SaveProof(r)
      <4>1. job[r].order = o
        BY <3>1, <3>2 DEF SaveProof, TypeOK
      <4>2. orders'[o].status = Delta(orders[o].status, job[r].doc.status,
                                  StatusAfterProof(job[r].call, job[r].doc))
        BY <3>2, <4>1 DEF SaveProof, TypeOK, OrderDocs
      <4>3. StatusAfterProof(job[r].call, job[r].doc) # job[r].doc.status
        BY <4>2 DEF Delta
      <4>4. pc[r] = "loaded" /\ Op(r) = "updatePaymentProof"
        BY <3>2 DEF SaveProof, At, Op
      <4>5. /\ job[r].call.status = "verified"
            /\ job[r].doc.status = "esperando_pago"
        BY <4>3 DEF StatusAfterProof
      <4> QED
        BY <4>1, <4>4, <4>5 DEF Undoes
    <3>3. CASE SaveCancelled(r)
      BY <3>1, <3>3 DEF SaveCancelled, SaveOnlyStatus, Delta, TypeOK, OrderDocs
    <3>7. ASSUME NEW v \in Variants, ReturnItem(r, v)
          PROVE  FALSE
      BY <3>7 DEF ReturnItem
    <3>4. CASE SaveStatus(r)
      <4>1. job[r].order = o
        BY <3>1, <3>4 DEF SaveStatus, TypeOK
      <4> QED
        BY <3>4, <4>1 DEF SaveStatus, At, Undoes, Op
    <3>5. CASE AwardTokens(r)
      BY <3>5 DEF AwardTokens
    <3>6. CASE SaveTracking(r) \/ SaveArchived(r) \/ SaveUnarchived(r)
      <4>1. job[r].order = o
        BY <3>1, <3>6 DEF SaveTracking, SaveArchived, SaveUnarchived,
                          SaveOnlyStatus, TypeOK
      <4> QED
        BY <3>6, <4>1
           DEF SaveTracking, SaveArchived, SaveUnarchived, At, Undoes, Op
    <3> QED
      BY <2>1, <3>2, <3>3, <3>4, <3>5, <3>6, <3>7 DEF Continue
  <2>2. ASSUME NEW r \in Requests,
               Abort(r) \/ \E c \in Calls, p \in Orders : FindOrder(r, c, p)
        PROVE  FALSE
    BY <2>2 DEF Abort, FindOrder
  <2>3. CASE UNCHANGED vars
    BY <2>3 DEF vars
  <2> QED
    BY <2>1, <2>2, <2>3 DEF Next
<1>2. TypeOK /\ [Next]_vars =>
        [\A o \in Orders :
           /\ orders[o].status = "cancelada"
           /\ orders'[o].status # "cancelada"
           => \E r \in Requests :
                /\ pc[r] = "loaded"
                /\ job[r].order = o
                /\ \/ Op(r) \in {"updateStatus", "updateTracking",
                                 "archiveOrder", "unarchiveOrder"}
                   \/ /\ Op(r) = "updatePaymentProof"
                      /\ job[r].call.status = "verified"
                      /\ job[r].doc.status = "esperando_pago"]_vars
  BY <1>1 DEF Undoes
<1> QED
  BY <1>2, TypeCorrect, PTL DEF Spec, CancelIsFinal

-----------------------------------------------------------------------------
(***************************************************************************)
(* One request at a time on an order.  The inductive invariant: requests   *)
(* in flight are on different orders, and the copy a handler works on is   *)
(* the order as it is stored.                                              *)
(***************************************************************************)
Exclusive ==
  \A r, q \in Requests :
    r # q /\ InFlight(r) /\ InFlight(q) => job[r].order # job[q].order

Fresh ==
  \A r \in Requests : pc[r] = "loaded" => job[r].doc = orders[job[r].order]

LEMMA SerialStep ==
  ASSUME Serial, TypeOK, Exclusive, Fresh, [Next]_vars
  PROVE  Exclusive' /\ Fresh'
<1>1. ASSUME NEW r \in Requests, NEW c \in Calls, NEW o \in Orders,
             FindOrder(r, c, o)
      PROVE  Exclusive' /\ Fresh'
  <2>1. /\ pc' = [pc EXCEPT ![r] = "loaded"]
        /\ job'[r].order = o /\ job'[r].doc = orders[o]
        /\ \A q \in Requests \ {r} : job'[q] = job[q]
        /\ orders' = orders
        /\ \A q \in Requests : InFlight(q) => job[q].order # o
    BY <1>1 DEF FindOrder, Goto, TypeOK
  <2>2. \A q \in Requests \ {r} : pc'[q] = pc[q]
    BY <2>1 DEF TypeOK
  <2>3. Exclusive'
    BY <2>1, <2>2 DEF Exclusive, InFlight
  <2>4. Fresh'
    BY <2>1, <2>2 DEF Fresh
  <2> QED
    BY <2>3, <2>4
<1>2. ASSUME NEW r \in Requests, Continue(r) \/ Abort(r)
      PROVE  Exclusive' /\ Fresh'
  <2>1. HandlerStep(r)
    BY <1>2, HandlerSteps
  <2>2. \A q \in Requests : InFlight(q)' => InFlight(q)
    BY <2>1 DEF HandlerStep, InFlight
  <2>3. \A q \in Requests : job'[q].order = job[q].order
                            /\ job'[q].doc = job[q].doc
    BY <2>1 DEF HandlerStep
  <2>4. Exclusive'
    BY <2>2, <2>3 DEF Exclusive
  <2>5. ASSUME NEW q \in Requests, pc'[q] = "loaded"
        PROVE  job'[q].doc = orders'[job'[q].order]
    <3>1. CASE q = r
      BY <2>1, <2>3, <2>5, <3>1 DEF HandlerStep, Fresh
    <3>2. CASE q # r
      <4>1. pc[q] = "loaded" /\ job[q].order # job[r].order
        BY <2>1, <2>5, <3>2 DEF HandlerStep, Exclusive, InFlight
      <4>2. job[q].order \in Orders
        BY DEF TypeOK, Jobs
      <4> QED
        BY <2>1, <2>3, <4>1, <4>2 DEF HandlerStep, Fresh
    <3> QED
      BY <3>1, <3>2
  <2> QED
    BY <2>4, <2>5 DEF Fresh
<1>3. CASE UNCHANGED vars
  BY <1>3 DEF vars, Exclusive, Fresh, InFlight
<1> QED
  BY <1>1, <1>2, <1>3 DEF Next

(* Serialized requests never work on a stale copy.                         *)
THEOREM SerialWorksOnCurrent == Serial => (Spec => [](Exclusive /\ Fresh))
<1> SUFFICES ASSUME Serial PROVE Spec => [](Exclusive /\ Fresh)
  OBVIOUS
<1>1. Init => Exclusive /\ Fresh
  BY DEF Init, Exclusive, Fresh, InFlight
<1>2. TypeOK /\ (Exclusive /\ Fresh) /\ [Next]_vars => (Exclusive /\ Fresh)'
  BY SerialStep
<1> QED
  BY <1>1, <1>2, TypeCorrect, PTL DEF Spec

(* With one request at a time on an order, a stored file only gives way to *)
(* the file of another upload.                                             *)
THEOREM UploadsKept == Serial => (Spec => UploadKept)
<1> SUFFICES ASSUME Serial PROVE Spec => UploadKept
  OBVIOUS
<1> DEFINE Replaced(o) ==
      \E r \in Requests : /\ At(r, "loaded", "updatePaymentProof")
                          /\ job[r].order = o
                          /\ job[r].call.url # None
                          /\ job[r].call.url = orders'[o].proof.url
<1>1. ASSUME TypeOK, Fresh, [Next]_vars, NEW o \in Orders,
             orders'[o].proof.url # orders[o].proof.url
      PROVE  Replaced(o)
  <2> USE <1>1
  <2>1. ASSUME NEW r \in Requests, SaveStatus(r) PROVE FALSE
    <3>1. job[r].order \in Orders /\ orders[o] \in OrderDocs
      BY DEF TypeOK, Jobs
    <3>2. orders'[o].proof.url = orders[o].proof.url
      BY <2>1, <3>1 DEF SaveStatus, TypeOK, OrderDocs, Proofs
    <3> QED
      BY <3>2
  <2>2. ASSUME NEW r \in Requests, SaveProof(r) PROVE Replaced(o)
    <3>1. job[r].order \in Orders /\ orders[o] \in OrderDocs
      BY DEF TypeOK, Jobs
    <3>2. job[r].order = o
      BY <2>2, <3>1 DEF SaveProof, TypeOK
    <3>3. job[r].doc = orders[o] /\ At(r, "loaded", "updatePaymentProof")
      BY <2>2, <3>2 DEF SaveProof, At, Fresh
    <3>4. orders'[o].proof = MergedProof(job[r].call, orders[o].proof)
      BY <2>2, <3>2, <3>3 DEF SaveProof, Delta, TypeOK
    <3>5. /\ job[r].call.url # None
          /\ job[r].call.url = orders'[o].proof.url
      BY <3>4 DEF MergedProof, Or
    <3> QED
      BY <3>2, <3>3, <3>5
  <2>3. ASSUME NEW r \in Requests, NEW s, SaveOnlyStatus(r, s) PROVE FALSE
    <3>1. job[r].order \in Orders /\ orders[o] \in OrderDocs
      BY DEF TypeOK, Jobs
    <3> QED
      BY <2>3, <3>1 DEF SaveOnlyStatus, TypeOK, OrderDocs
  <2>4. ASSUME NEW r \in Requests, Continue(r) PROVE Replaced(o)
    BY <2>1, <2>2, <2>3, <2>4
       DEF Continue, AwardTokens, SaveTracking, ReturnItem, SaveCancelled,
           SaveArchived, SaveUnarchived
  <2> QED
    BY <2>4 DEF Next, Abort, FindOrder, vars
<1>2. TypeOK /\ (Exclusive /\ Fresh) /\ [Next]_vars =>
        [\A o \in Orders : orders'[o].proof.url # orders[o].proof.url =>
                             Replaced(o)]_vars
  BY <1>1
<1>3. Spec => [](Exclusive /\ Fresh)
  BY SerialWorksOnCurrent
<1> QED
  BY <1>2, <1>3, TypeCorrect, PTL DEF Spec, UploadKept

(* With one request at a time on an order, updateStatus to a paid status   *)
(* leaves no proof pending.                                                *)
THEOREM PaidMarksVerify == Serial => (Spec => PaidMarkVerifies)
<1> SUFFICES ASSUME Serial PROVE Spec => PaidMarkVerifies
  OBVIOUS
<1> DEFINE Saves(r) == /\ At(r, "loaded", "updateStatus")
                       /\ pc'[r] \in {"saved", "done"}
                       /\ job[r].call.to \in PaidStatuses
           Settled(r) == orders'[job[r].order].proof.status # "pending"
<1>1. ASSUME TypeOK, Fresh, [Next]_vars, NEW r \in Requests, Saves(r)
      PROVE  Settled(r)
  <2> USE <1>1
  <2>1. pc[r] = "loaded" /\ job[r].call.op = "updateStatus"
    BY DEF At
  <2>2. SaveStatus(r)
    <3>1. ASSUME NEW q \in Requests, NEW c \in Calls, NEW o \in Orders,
                 FindOrder(q, c, o)
          PROVE  FALSE
      BY <2>1, <3>1 DEF FindOrder, Goto, TypeOK
    <3>2. ASSUME NEW q \in Requests, Continue(q) \/ Abort(q)
          PROVE  q = r
      <4>1. HandlerStep(q)
        BY <3>2, HandlerSteps
      <4> QED
        BY <2>1, <4>1 DEF HandlerStep
    <3>3. ~ Abort(r)
      BY DEF Abort, Goto, TypeOK
    <3>4. ~ UNCHANGED vars
      BY <2>1 DEF vars
    <3> QED
      BY <2>1, <3>1, <3>2, <3>3, <3>4
         DEF Next, Continue, AwardTokens, SaveProof, SaveTracking, ReturnItem,
             SaveCancelled, SaveArchived, SaveUnarchived, At
  <2>3. /\ job[r].order \in Orders
        /\ orders[job[r].order] \in OrderDocs
        /\ job[r].doc = orders[job[r].order]
    BY <2>1 DEF TypeOK, Jobs, Fresh
  <2>4. orders'[job[r].order].proof.status =
          IF SyncsProof(job[r].call, job[r].doc)
            THEN "verified" ELSE orders[job[r].order].proof.status
    BY <2>2, <2>3 DEF SaveStatus, TypeOK, OrderDocs, Proofs
  <2> QED
    BY <2>3, <2>4 DEF SyncsProof
<1>2. TypeOK /\ (Exclusive /\ Fresh) /\ [Next]_vars =>
        [\A r \in Requests : Saves(r) => Settled(r)]_vars
  BY <1>1
<1>3. Spec => [](Exclusive /\ Fresh)
  BY SerialWorksOnCurrent
<1> QED
  BY <1>2, <1>3, TypeCorrect, PTL DEF Spec, PaidMarkVerifies

(* With one request at a time on an order, what orders.service.ts:410 says *)
(* of an approval is true: only overlapping requests refute it.            *)
THEOREM SerialApprovals == Serial => (Spec => ApprovalOnlyFromWaiting)
<1> SUFFICES ASSUME Serial PROVE Spec => ApprovalOnlyFromWaiting
  OBVIOUS
<1> DEFINE Approved ==
      \A r \in Requests :
        LET o == job[r].order IN
        /\ At(r, "loaded", "updatePaymentProof")
        /\ pc'[r] = "done"
        /\ orders'[o].status # orders[o].status
        => orders[o].status = "esperando_pago"
<1>1. ASSUME TypeOK, Fresh, Next, NEW r \in Requests,
             At(r, "loaded", "updatePaymentProof"), pc'[r] = "done",
             orders'[job[r].order].status # orders[job[r].order].status
      PROVE  orders[job[r].order].status = "esperando_pago"
  <2> USE <1>1
  <2>1. pc[r] = "loaded" /\ job[r].call.op = "updatePaymentProof"
    BY DEF At
  <2>2. SaveProof(r)
    <3>1. ASSUME NEW q \in Requests, NEW c \in Calls, NEW o \in Orders,
                 FindOrder(q, c, o)
          PROVE  FALSE
      BY <2>1, <3>1 DEF FindOrder, Goto, TypeOK
    <3>2. ASSUME NEW q \in Requests, Continue(q) \/ Abort(q)
          PROVE  q = r
      <4>1. HandlerStep(q)
        BY <3>2, HandlerSteps
      <4> QED
        BY <2>1, <4>1 DEF HandlerStep
    <3>3. ~ Abort(r)
      BY DEF Abort, Goto, TypeOK
    <3> QED
      BY <2>1, <3>1, <3>2, <3>3
         DEF Next, Continue, SaveStatus, AwardTokens, SaveTracking, ReturnItem,
             SaveCancelled, SaveArchived, SaveUnarchived, At
  <2>3. /\ job[r].order \in Orders
        /\ orders[job[r].order] \in OrderDocs
        /\ job[r].doc = orders[job[r].order]
    BY <2>1 DEF TypeOK, Jobs, Fresh
  <2>4. orders'[job[r].order].status =
          Delta(orders[job[r].order].status, job[r].doc.status,
                StatusAfterProof(job[r].call, job[r].doc))
    BY <2>2, <2>3 DEF SaveProof, TypeOK, OrderDocs
  <2> QED
    BY <2>3, <2>4 DEF Delta, StatusAfterProof
<1>2. TypeOK /\ (Exclusive /\ Fresh) /\ [Next]_vars => [Approved]_vars
  BY <1>1
<1>3. Spec => [](Exclusive /\ Fresh)
  BY SerialWorksOnCurrent
<1> HIDE DEF Approved
<1>4. Spec => [][Approved]_vars
  BY <1>2, <1>3, TypeCorrect, PTL DEF Spec
<1> QED
  BY <1>4 DEF ApprovalOnlyFromWaiting, Approved

-----------------------------------------------------------------------------
(***************************************************************************)
(* Token accounting.  Inductive with it: only status calls that award wait *)
(* for their award.                                                        *)
(***************************************************************************)
SavedAwards ==
  \A r \in Requests : pc[r] = "saved" =>
    Op(r) = "updateStatus" /\ Awards(job[r].call, job[r].order, job[r].doc)

LEMMA SavedAwardsStep ==
  ASSUME TypeOK, SavedAwards, [Next]_vars
  PROVE  SavedAwards'
<1> SUFFICES ASSUME NEW q \in Requests, pc'[q] = "saved"
             PROVE  /\ Op(q)' = "updateStatus"
                    /\ Awards(job'[q].call, job'[q].order, job'[q].doc)
  BY DEF SavedAwards, Awards
<1>1. ASSUME NEW r \in Requests, NEW c \in Calls, NEW o \in Orders,
             FindOrder(r, c, o)
      PROVE  pc[q] = "saved" /\ job'[q] = job[q]
  BY <1>1 DEF FindOrder, Goto, TypeOK
<1>2. ASSUME NEW r \in Requests, Continue(r) \/ Abort(r)
      PROVE  \/ pc[q] = "saved" /\ job'[q] = job[q]
             \/ q = r /\ SaveStatus(r)
  <2>1. HandlerStep(r)
    BY <1>2, HandlerSteps
  <2>2. CASE q # r
    BY <2>1, <2>2 DEF HandlerStep
  <2>3. CASE q = r
    BY <1>2, <2>3
       DEF Continue, AwardTokens, SaveProof, SaveTracking, ReturnItem,
           SaveCancelled, SaveArchived, SaveUnarchived, Abort, Goto, At, TypeOK
  <2> QED
    BY <2>2, <2>3
<1>3. ASSUME SaveStatus(q)
      PROVE  /\ job' = job /\ Op(q) = "updateStatus"
             /\ Awards(job[q].call, job[q].order, job[q].doc)
  BY <1>3 DEF SaveStatus, At, Op, Goto, TypeOK
<1>4. CASE UNCHANGED vars
  BY <1>4 DEF vars, SavedAwards, Op
<1> QED
  BY <1>1, <1>2, <1>3, <1>4 DEF Next, SavedAwards, Op

(* Every step but an award leaves the paid requests as they are.           *)
LEMMA RewardsStay ==
  ASSUME TypeOK, SavedAwards, [Next]_vars, NEW u \in Users,
         \A r \in Requests : ~ AwardTokens(r)
  PROVE  RewardsOf(u, "done")' = RewardsOf(u, "done")
<1> DEFINE Paid(q) == /\ pc[q] = "done" /\ Op(q) = "updateStatus"
                      /\ Owner[job[q].order] = u
                      /\ Awards(job[q].call, job[q].order, job[q].doc)
<1> SUFFICES ASSUME NEW q \in Requests PROVE Paid(q)' = Paid(q)
  BY DEF RewardsOf
<1>1. CASE pc[q] = "done"
  BY <1>1, FinishedStays DEF Op, Awards
<1>2. CASE pc[q] # "done" /\ pc'[q] = "done"
  <2>1. ASSUME NEW r \in Requests, NEW c \in Calls, NEW o \in Orders,
               FindOrder(r, c, o)
        PROVE  FALSE
    BY <1>2, <2>1 DEF FindOrder, Goto, TypeOK
  <2>2. ASSUME NEW r \in Requests, Continue(r) \/ Abort(r)
        PROVE  q = r
    BY <1>2, <2>2, HandlerSteps DEF HandlerStep
  <2>3. ~ Abort(q)
    BY <1>2 DEF Abort, Goto, TypeOK
  <2>4. Continue(q)
    BY <1>2, <2>1, <2>2, <2>3 DEF Next, vars
  <2>5. CASE SaveStatus(q)
    <3>1. ~ Awards(job[q].call, job[q].order, job[q].doc) /\ job' = job
      BY <1>2, <2>5 DEF SaveStatus, Goto, TypeOK
    <3> QED
      BY <1>2, <3>1 DEF Awards
  <2>6. CASE ~ SaveStatus(q)
    <3>1. job'[q].call = job[q].call /\ Op(q) # "updateStatus"
      BY <1>2, <2>4, <2>6
         DEF Continue, AwardTokens, SaveProof, SaveTracking, ReturnItem,
             SaveCancelled, SaveArchived, SaveUnarchived, At, Op
    <3> QED
      BY <1>2, <3>1 DEF Op
  <2> QED
    BY <2>5, <2>6
<1>3. CASE pc[q] # "done" /\ pc'[q] # "done"
  BY <1>3
<1> QED
  BY <1>1, <1>2, <1>3

LEMMA TokensStep ==
  ASSUME TypeOK, SavedAwards, TokensExact, [Next]_vars
  PROVE  TokensExact'
<1> SUFFICES ASSUME NEW u \in Users
             PROVE  vtoTokens'[u] = FreeTokens + TokensPerPurchase
                                      * Cardinality(RewardsOf(u, "done")')
  BY DEF TokensExact
<1>1. /\ vtoTokens[u] = FreeTokens
            + TokensPerPurchase * Cardinality(RewardsOf(u, "done"))
      /\ IsFiniteSet(RewardsOf(u, "done"))
      /\ Cardinality(RewardsOf(u, "done")) \in Nat
  BY RequestsAssumption, FS_Subset, FS_CardinalityType
     DEF TokensExact, RewardsOf
<1>2. ASSUME NEW r \in Requests, AwardTokens(r)
      PROVE  vtoTokens'[u] = FreeTokens + TokensPerPurchase
                               * Cardinality(RewardsOf(u, "done")')
  <2>1. /\ pc[r] = "saved" /\ job' = job
        /\ pc' = [pc EXCEPT ![r] = "done"]
        /\ Op(r) = "updateStatus"
        /\ Awards(job[r].call, job[r].order, job[r].doc)
    BY <1>2 DEF AwardTokens, At, Goto, SavedAwards
  <2>2. pc'[r] = "done" /\ \A q \in Requests \ {r} : pc'[q] = pc[q]
    BY <2>1 DEF TypeOK
  <2>3. CASE Owner[job[r].order] = u
    <3>1. RewardsOf(u, "done")' = RewardsOf(u, "done") \cup {r}
      BY <2>1, <2>2, <2>3 DEF RewardsOf, Op
    <3>2. r \notin RewardsOf(u, "done")
      BY <2>1 DEF RewardsOf
    <3>3. Cardinality(RewardsOf(u, "done")')
            = Cardinality(RewardsOf(u, "done")) + 1
      BY <1>1, <3>1, <3>2, FS_AddElement
    <3>4. vtoTokens'[u] = vtoTokens[u] + TokensPerPurchase
      BY <1>2, <2>3 DEF AwardTokens, TypeOK
    <3> QED
      BY <1>1, <3>3, <3>4 DEF FreeTokens, TokensPerPurchase
  <2>4. CASE Owner[job[r].order] # u
    <3>1. RewardsOf(u, "done")' = RewardsOf(u, "done")
      BY <2>1, <2>2, <2>4 DEF RewardsOf, Op
    <3>2. vtoTokens'[u] = vtoTokens[u]
      BY <1>2, <2>4 DEF AwardTokens, TypeOK
    <3> QED
      BY <1>1, <3>1, <3>2
  <2> QED
    BY <2>3, <2>4
<1>3. ASSUME \A r \in Requests : ~ AwardTokens(r)
      PROVE  vtoTokens'[u] = FreeTokens + TokensPerPurchase
                               * Cardinality(RewardsOf(u, "done")')
  <2>1. vtoTokens' = vtoTokens
    BY <1>3 DEF Next, Continue, vars, FindOrder, SaveStatus, SaveProof,
                SaveTracking, ReturnItem, SaveCancelled, SaveArchived,
                SaveUnarchived, Abort
  <2> QED
    BY <1>1, <1>3, <2>1, RewardsStay
<1> QED
  BY <1>2, <1>3

(* A user's balance is the free tokens and five for each status call that  *)
(* moved one of the user's orders to completada, whatever overlaps or      *)
(* fails.                                                                  *)
THEOREM TokenAccounting == Spec => []TokensExact
<1>1. Init => SavedAwards /\ TokensExact
  <2> SUFFICES ASSUME Init PROVE SavedAwards /\ TokensExact
    OBVIOUS
  <2>1. SavedAwards
    BY DEF Init, SavedAwards
  <2>2. ASSUME NEW u \in Users PROVE RewardsOf(u, "done") = {}
    BY DEF Init, RewardsOf
  <2>3. Cardinality({}) = 0
    BY FS_EmptySet
  <2> QED
    BY <2>1, <2>2, <2>3
       DEF Init, TokensExact, FreeTokens, TokensPerPurchase
<1>2. TypeOK /\ (SavedAwards /\ TokensExact) /\ [Next]_vars
        => (SavedAwards /\ TokensExact)'
  BY SavedAwardsStep, TokensStep
<1> QED
  BY <1>1, <1>2, TypeCorrect, PTL DEF Spec

-----------------------------------------------------------------------------
(***************************************************************************)
(* Stock accounting.  Inductive relative to TypeOK: a piece is added to    *)
(* stock in the step that records it as returned.                          *)
(***************************************************************************)

(* The pieces of the requests rs stay the same while they keep their order.*)
LEMMA PiecesSame ==
  ASSUME TypeOK, TypeOK', NEW v \in Variants, NEW rs \in SUBSET Requests,
         \A r \in rs : job'[r].order = job[r].order
  PROVE  /\ Pieces(v, rs) \in Nat
         /\ SumFunctionOnSet([r \in Requests |-> Qty[job'[r].order][v]], rs)
              = Pieces(v, rs)
<1> DEFINE f == [r \in Requests |-> Qty[job[r].order][v]]
           g == [r \in Requests |-> Qty[job'[r].order][v]]
<1>1. IsFiniteSet(rs)
  BY RequestsAssumption, FS_Subset
<1>2. \A r \in Requests : job[r].order \in Orders
  BY DEF TypeOK, Jobs
<1>3. \A r \in rs : f[r] \in Nat
  BY <1>2, OrdersAssumption
<1>4. \A r \in rs : g[r] = f[r]
  OBVIOUS
<1> HIDE DEF f, g
<1>5. SumFunctionOnSet(f, rs) \in Nat
  BY <1>1, <1>3, SumNat
<1>6. SumFunctionOnSet(g, rs) = SumFunctionOnSet(f, rs)
  BY <1>1, <1>3, <1>4, SumSame
<1> QED
  BY <1>5, <1>6 DEF Pieces, f, g

(* One more request.                                                       *)
LEMMA PiecesAdd ==
  ASSUME TypeOK, NEW v \in Variants, NEW rs \in SUBSET Requests,
         NEW r \in Requests \ rs
  PROVE  Pieces(v, rs \cup {r}) = Pieces(v, rs) + Qty[job[r].order][v]
<1> DEFINE f == [q \in Requests |-> Qty[job[q].order][v]]
<1>1. IsFiniteSet(rs)
  BY RequestsAssumption, FS_Subset
<1>2. \A q \in Requests : job[q].order \in Orders
  BY DEF TypeOK, Jobs
<1>3. \A q \in rs \cup {r} : f[q] \in Int
  BY <1>2, OrdersAssumption
<1>4. f[r] = Qty[job[r].order][v]
  OBVIOUS
<1> HIDE DEF f
<1>5. SumFunctionOnSet(f, rs \cup {r}) = SumFunctionOnSet(f, rs) + f[r]
  BY <1>1, <1>3, SumAddElement
<1> QED
  BY <1>4, <1>5 DEF Pieces, f

LEMMA StockStep ==
  ASSUME TypeOK, TypeOK', StockExact, [Next]_vars
  PROVE  StockExact'
<1> SUFFICES ASSUME NEW v \in Variants
             PROVE  stock'[v] = InitStock[v] + Pieces(v, ReturnsOf(v))'
  BY DEF StockExact
<1> DEFINE f == [r \in Requests |-> Qty[job[r].order][v]]
<1>0. /\ stock[v] = InitStock[v] + Pieces(v, ReturnsOf(v))
      /\ ReturnsOf(v) \in SUBSET Requests
      /\ InitStock[v] \in Int
  BY OrdersAssumption DEF StockExact, ReturnsOf
<1>1. ASSUME stock'[v] = stock[v], ReturnsOf(v)' = ReturnsOf(v),
             \A r \in ReturnsOf(v) : job'[r].order = job[r].order
      PROVE  stock'[v] = InitStock[v] + Pieces(v, ReturnsOf(v))'
  <2>1. Pieces(v, ReturnsOf(v))'
          = SumFunctionOnSet([r \in Requests |-> Qty[job'[r].order][v]],
                             ReturnsOf(v))
    BY <1>1 DEF Pieces
  <2> QED
    BY <1>0, <1>1, <2>1, PiecesSame
<1>2. ASSUME NEW r \in Requests, NEW c \in Calls, NEW o \in Orders,
             FindOrder(r, c, o)
      PROVE  stock'[v] = InitStock[v] + Pieces(v, ReturnsOf(v))'
  <2>1. /\ pc[r] = "new" /\ pc'[r] = "loaded" /\ job'[r].returned = {}
        /\ \A q \in Requests \ {r} : pc'[q] = pc[q] /\ job'[q] = job[q]
        /\ stock' = stock
    BY <1>2 DEF FindOrder, Goto, TypeOK
  <2>2. ReturnsOf(v)' = ReturnsOf(v) /\ r \notin ReturnsOf(v)
    BY <2>1 DEF ReturnsOf, Op
  <2>3. \A q \in ReturnsOf(v) : job'[q].order = job[q].order
    BY <2>1, <2>2, <1>0
  <2> QED
    BY <1>1, <2>1, <2>2, <2>3
<1>3. ASSUME NEW r \in Requests, NEW w \in Variants, ReturnItem(r, w)
      PROVE  stock'[v] = InitStock[v] + Pieces(v, ReturnsOf(v))'
  <2>1. /\ pc[r] = "loaded" /\ pc' = pc /\ job[r].call.op = "cancelOrder"
        /\ w \notin job[r].returned
        /\ job'[r].returned = job[r].returned \cup {w}
        /\ job'[r].call = job[r].call
        /\ \A q \in Requests \ {r} : job'[q] = job[q]
        /\ \A q \in Requests : job'[q].order = job[q].order
        /\ stock' = [stock EXCEPT ![w] = @ + Qty[job[r].order][w]]
    BY <1>3 DEF ReturnItem, At, TypeOK, Jobs
  <2>2. CASE w # v
    <3>1. ReturnsOf(v)' = ReturnsOf(v)
      BY <2>1, <2>2 DEF ReturnsOf, Op
    <3>2. stock'[v] = stock[v]
      BY <2>1, <2>2 DEF TypeOK
    <3> QED
      BY <1>0, <1>1, <2>1, <3>1, <3>2
  <2>3. CASE w = v
    <3>1. ReturnsOf(v)' = ReturnsOf(v) \cup {r} /\ r \notin ReturnsOf(v)
      BY <2>1, <2>3 DEF ReturnsOf, Op
    <3>2. stock'[v] = stock[v] + Qty[job[r].order][v]
      BY <2>1, <2>3 DEF TypeOK
    <3>3. Pieces(v, ReturnsOf(v) \cup {r})
            = Pieces(v, ReturnsOf(v)) + Qty[job[r].order][v]
      BY <1>0, <3>1, PiecesAdd
    <3>4. Pieces(v, ReturnsOf(v))' = Pieces(v, ReturnsOf(v) \cup {r})
      <4>1. Pieces(v, ReturnsOf(v))'
              = SumFunctionOnSet([q \in Requests |-> Qty[job'[q].order][v]],
                                 ReturnsOf(v) \cup {r})
        BY <3>1 DEF Pieces
      <4> QED
        BY <1>0, <2>1, <4>1, PiecesSame
    <3>5. /\ Pieces(v, ReturnsOf(v)) \in Nat
          /\ Qty[job[r].order][v] \in Nat
      <4>1. job[r].order \in Orders
        BY DEF TypeOK, Jobs
      <4>2. Pieces(v, ReturnsOf(v)) \in Nat
        BY <1>0, <2>1, PiecesSame
      <4> QED
        BY <4>1, <4>2, OrdersAssumption
    <3> QED
      BY <1>0, <3>2, <3>3, <3>4, <3>5
  <2> QED
    BY <2>2, <2>3
<1>4. ASSUME NEW r \in Requests,
             \/ SaveStatus(r) \/ AwardTokens(r) \/ SaveProof(r)
             \/ SaveTracking(r) \/ SaveCancelled(r) \/ SaveArchived(r)
             \/ SaveUnarchived(r) \/ Abort(r)
      PROVE  stock'[v] = InitStock[v] + Pieces(v, ReturnsOf(v))'
  <2>1. stock' = stock /\ job' = job
    BY <1>4 DEF SaveStatus, AwardTokens, SaveProof, SaveTracking,
                SaveCancelled, SaveArchived, SaveUnarchived, Abort
  <2>2. \A q \in Requests : pc'[q] = "new" <=> pc[q] = "new"
    BY <1>4 DEF SaveStatus, AwardTokens, SaveProof, SaveTracking,
                SaveCancelled, SaveArchived, SaveUnarchived, Abort, At,
                InFlight, Goto, TypeOK
  <2>3. ReturnsOf(v)' = ReturnsOf(v)
    BY <2>1, <2>2 DEF ReturnsOf, Op
  <2> QED
    BY <1>1, <2>1, <2>3
<1>5. CASE UNCHANGED vars
  <2>1. ReturnsOf(v)' = ReturnsOf(v)
    BY <1>5 DEF vars, ReturnsOf, Op
  <2> QED
    BY <1>1, <1>5, <2>1 DEF vars
<1> QED
  BY <1>2, <1>3, <1>4, <1>5 DEF Next, Continue

(* Stock is exactly the initial one plus every piece a cancellation        *)
(* returned, however cancellations interleave and wherever they stop.      *)
THEOREM StockAccounting == Spec => []StockExact
<1>1. Init => StockExact
  <2> SUFFICES ASSUME Init, NEW v \in Variants
               PROVE  stock[v] = InitStock[v] + Pieces(v, ReturnsOf(v))
    BY DEF StockExact
  <2>1. ReturnsOf(v) = {}
    BY DEF Init, ReturnsOf
  <2>2. Pieces(v, {}) = 0
    BY SumEmpty DEF Pieces
  <2> QED
    BY <2>1, <2>2, OrdersAssumption DEF Init
<1>2. TypeOK /\ TypeOK' /\ StockExact /\ [Next]_vars => StockExact'
  BY StockStep
<1> QED
  BY <1>1, <1>2, TypeCorrect, PTL DEF Spec

-----------------------------------------------------------------------------
(***************************************************************************)
(* The refinement of OrderLifecycle.  A handler's save is the instant its  *)
(* call takes effect; every other step changes nothing a caller can tell.  *)
(* Beyond Exclusive, Fresh and SavedAwards the argument needs that a       *)
(* handler still works on a copy that accepted its call.                   *)
(***************************************************************************)
Accepted == \A r \in Requests :
              pc[r] = "loaded" => Accepts(job[r].call, job[r].doc)

LEMMA AcceptedStep ==
  ASSUME TypeOK, Accepted, [Next]_vars
  PROVE  Accepted'
<1> SUFFICES ASSUME NEW q \in Requests, pc'[q] = "loaded"
             PROVE  Accepts(job'[q].call, job'[q].doc)
  BY DEF Accepted, Accepts
<1>1. ASSUME NEW r \in Requests, NEW c \in Calls, NEW o \in Orders,
             FindOrder(r, c, o)
      PROVE  Accepts(job'[q].call, job'[q].doc)
  BY <1>1 DEF FindOrder, Goto, TypeOK, Accepted
<1>2. ASSUME NEW r \in Requests, Continue(r) \/ Abort(r)
      PROVE  Accepts(job'[q].call, job'[q].doc)
  <2>1. HandlerStep(r)
    BY <1>2, HandlerSteps
  <2>2. /\ pc[q] = "loaded"
        /\ job'[q].call = job[q].call /\ job'[q].doc = job[q].doc
    BY <2>1 DEF HandlerStep
  <2> QED
    BY <2>2 DEF Accepted
<1>3. CASE UNCHANGED vars
  BY <1>3 DEF vars, Accepted
<1> QED
  BY <1>1, <1>2, <1>3 DEF Next

(* With one request at a time on an order, an order that is cancelled gets *)
(* no item back to stock, as orders.service.ts:537 means it: only a        *)
(* cancellation that overlaps another one returns the items again.         *)
THEOREM SerialReturns == Serial => (Spec => NoReturnOnceCancelled)
<1> SUFFICES ASSUME Serial PROVE Spec => NoReturnOnceCancelled
  OBVIOUS
<1> DEFINE Returned ==
      \A r \in Requests :
        /\ At(r, "loaded", "cancelOrder")
        /\ job'[r].returned # job[r].returned
        => orders[job[r].order].status # "cancelada"
<1>1. ASSUME Fresh, Accepted, NEW r \in Requests, At(r, "loaded", "cancelOrder")
      PROVE  orders[job[r].order].status # "cancelada"
  BY <1>1 DEF Fresh, Accepted, At, Accepts
<1>2. (Exclusive /\ Fresh) /\ Accepted => [Returned]_vars
  BY <1>1
<1>3. Init => Accepted
  BY DEF Init, Accepted
<1>4. TypeOK /\ Accepted /\ [Next]_vars => Accepted'
  BY AcceptedStep
<1>5. Spec => [](Exclusive /\ Fresh)
  BY SerialWorksOnCurrent
<1> HIDE DEF Returned
<1>6. Spec => [][Returned]_vars
  BY <1>2, <1>3, <1>4, <1>5, TypeCorrect, PTL DEF Spec
<1> QED
  BY <1>6 DEF NoReturnOnceCancelled, Returned

(* A handler that finishes what it loaded has saved its own call.          *)
LEMMA SavesItsCall ==
  ASSUME TypeOK, [Next]_vars, NEW s \in Requests,
         pc[s] = "loaded", pc'[s] \in {"saved", "done"}
  PROVE  /\ Op(s) = "updateStatus" => SaveStatus(s)
         /\ Op(s) = "updatePaymentProof" => SaveProof(s)
         /\ Op(s) = "cancelOrder" => SaveCancelled(s)
<1>1. pc'[s] # pc[s]
  OBVIOUS
<1>2. PICK r \in Requests :
        \/ \E c \in Calls, o \in Orders : FindOrder(r, c, o)
        \/ Continue(r)
        \/ Abort(r)
  BY <1>1 DEF Next, vars
<1>3. r = s
  <2>1. ASSUME NEW at, Goto(r, at)
        PROVE  r = s
    BY <1>1, <2>1 DEF Goto, TypeOK
  <2> QED
    BY <1>1, <1>2, <2>1
       DEF FindOrder, Continue, Abort, SaveStatus, AwardTokens, SaveProof,
           SaveTracking, ReturnItem, SaveCancelled, SaveArchived, SaveUnarchived
<1>4. Continue(s)
  BY <1>2, <1>3 DEF FindOrder, Abort, Goto, TypeOK
<1> QED
  BY <1>1, <1>4
     DEF Continue, Op, At, AwardTokens, SaveStatus, SaveProof,
         SaveTracking, ReturnItem, SaveCancelled, SaveArchived, SaveUnarchived

(* A cancellation that finishes leaves its order cancelled, whatever was   *)
(* saved to the order while its items went back: it only starts on an order*)
(* that is not cancelled, so cancelada is a change of its copy and its save*)
(* writes it.  A later save may still undo it (CancelFinal says which).    *)
THEOREM CancellationsSave ==
  Spec => [][\A r \in Requests :
               /\ At(r, "loaded", "cancelOrder")
               /\ pc'[r] = "done"
               => orders'[job[r].order].status = "cancelada"]_vars
<1> DEFINE Saves ==
      \A r \in Requests :
        /\ At(r, "loaded", "cancelOrder")
        /\ pc'[r] = "done"
        => orders'[job[r].order].status = "cancelada"
<1>1. ASSUME TypeOK, Accepted, [Next]_vars, NEW r \in Requests,
             At(r, "loaded", "cancelOrder"), pc'[r] = "done"
      PROVE  orders'[job[r].order].status = "cancelada"
  <2>1. job[r].order \in Orders /\ orders[job[r].order] \in OrderDocs
    BY <1>1 DEF TypeOK, Jobs
  <2>2. job[r].doc.status # "cancelada"
    BY <1>1 DEF Accepted, Accepts, At
  <2>3. SaveCancelled(r)
    BY <1>1, SavesItsCall DEF At, Op
  <2> QED
    BY <1>1, <2>1, <2>2, <2>3
       DEF SaveCancelled, SaveOnlyStatus, Delta, TypeOK, OrderDocs
<1>2. TypeOK /\ Accepted /\ [Next]_vars => [Saves]_vars
  BY <1>1
<1>3. Init => Accepted
  BY DEF Init, Accepted
<1>4. TypeOK /\ Accepted /\ [Next]_vars => Accepted'
  BY AcceptedStep
<1> HIDE DEF Saves
<1>5. Spec => [][Saves]_vars
  BY <1>2, <1>3, <1>4, TypeCorrect, PTL DEF Spec
<1> QED
  BY <1>5 DEF Saves

(* The pieces of v that cancellations under way have returned.             *)
Returning(v) == {r \in ReturnsOf(v) : InFlight(r)}

LEMMA CommittedSame ==
  ASSUME TypeOK, TypeOK', NEW v \in Variants, stock'[v] = stock[v],
         Returning(v)' = Returning(v),
         \A r \in Returning(v) : job'[r].order = job[r].order
  PROVE  CommittedStock'[v] = CommittedStock[v]
<1>1. Returning(v) \in SUBSET Requests
  BY DEF Returning, ReturnsOf
<1>2. Pieces(v, Returning(v))' = Pieces(v, Returning(v))
  <2>1. Pieces(v, Returning(v))'
          = SumFunctionOnSet([r \in Requests |-> Qty[job'[r].order][v]],
                             Returning(v))
    BY DEF Pieces
  <2> QED
    BY <1>1, <2>1, PiecesSame
<1> QED
  BY <1>2 DEF CommittedStock, Returning

LEMMA PromisedSame ==
  ASSUME vtoTokens' = vtoTokens,
         \A u \in Users : RewardsOf(u, "saved")' = RewardsOf(u, "saved")
  PROVE  PromisedTokens' = PromisedTokens
BY DEF PromisedTokens

(* The save of a status on a fresh copy sets it.                           *)
LEMMA FreshStatusSave ==
  ASSUME TypeOK, Fresh, NEW r \in Requests, pc[r] = "loaded", NEW s,
         SaveOnlyStatus(r, s)
  PROVE  orders' = [orders EXCEPT ![job[r].order].status = s]
<1>1. job[r].doc = orders[job[r].order]
  BY DEF Fresh
<1>2. job[r].order \in Orders /\ orders[job[r].order] \in OrderDocs
  BY DEF TypeOK, Jobs
<1>3. Delta(orders[job[r].order].status, job[r].doc.status, s) = s
  BY <1>1 DEF Delta
<1> QED
  BY <1>2, <1>3 DEF SaveOnlyStatus, TypeOK

(* A step of a handler that neither is nor becomes one with an award to    *)
(* pay leaves the promised tokens.                                         *)
LEMMA NoAwardStep ==
  ASSUME TypeOK, SavedAwards, NEW r \in Requests,
         \A q \in Requests \ {r} : pc'[q] = pc[q] /\ job'[q] = job[q],
         pc[r] # "saved", pc'[r] # "saved", vtoTokens' = vtoTokens
  PROVE  PromisedTokens' = PromisedTokens
<1>1. \A u \in Users : RewardsOf(u, "saved")' = RewardsOf(u, "saved")
  <2> SUFFICES ASSUME NEW u \in Users, NEW q \in Requests
               PROVE  q \in RewardsOf(u, "saved")' <=> q \in RewardsOf(u, "saved")
    BY DEF RewardsOf
  <2>1. CASE q = r
    BY <2>1 DEF RewardsOf
  <2>2. CASE q # r
    BY <2>2 DEF RewardsOf, Op
  <2> QED
    BY <2>1, <2>2
<1> QED
  BY <1>1, PromisedSame

(* A step of a handler that is no cancellation leaves the committed stock. *)
LEMMA NoReturnStep ==
  ASSUME TypeOK, TypeOK', NEW r \in Requests,
         \A q \in Requests \ {r} : pc'[q] = pc[q] /\ job'[q] = job[q],
         pc[r] = "new" \/ Op(r) # "cancelOrder",
         Op(r)' # "cancelOrder" \/ job'[r].returned = {},
         stock' = stock
  PROVE  CommittedStock' = CommittedStock
<1> SUFFICES ASSUME NEW v \in Variants
             PROVE  CommittedStock'[v] = CommittedStock[v]
  BY DEF CommittedStock
<1>1. r \notin Returning(v) /\ r \notin Returning(v)'
  BY DEF Returning, ReturnsOf
<1>2. \A q \in Requests \ {r} : q \in Returning(v)' <=> q \in Returning(v)
  BY DEF Returning, ReturnsOf, InFlight, Op
<1>3. Returning(v)' = Returning(v)
  BY <1>1, <1>2 DEF Returning, ReturnsOf
<1>4. \A q \in Returning(v) : job'[q].order = job[q].order
  BY <1>1 DEF Returning, ReturnsOf
<1> QED
  BY <1>3, <1>4, CommittedSame

(* Every step is a step of OrderLifecycle or changes nothing there.        *)
LEMMA LifecycleStep ==
  ASSUME ~ MayAbort, TypeOK, TypeOK', Fresh, SavedAwards, Accepted,
         [Next]_vars
  PROVE  [Lifecycle!Next]_(Lifecycle!vars)
<1> DEFINE Stutters == /\ orders' = orders
                       /\ CommittedStock' = CommittedStock
                       /\ PromisedTokens' = PromisedTokens
           Goal == Lifecycle!Next \/ Stutters
<1> SUFFICES Goal
  BY DEF Lifecycle!vars
<1>1. ASSUME NEW r \in Requests, NEW c \in Calls, NEW o \in Orders,
             FindOrder(r, c, o)
      PROVE  Goal
  <2>1. /\ pc[r] = "new" /\ pc'[r] = "loaded" /\ job'[r].returned = {}
        /\ \A q \in Requests \ {r} : pc'[q] = pc[q] /\ job'[q] = job[q]
        /\ orders' = orders /\ stock' = stock /\ vtoTokens' = vtoTokens
    BY <1>1 DEF FindOrder, Goto, TypeOK
  <2>2. CommittedStock' = CommittedStock
    BY <2>1, NoReturnStep
  <2>3. PromisedTokens' = PromisedTokens
    BY <2>1, NoAwardStep
  <2> QED
    BY <2>1, <2>2, <2>3
<1>2. ASSUME NEW r \in Requests, Continue(r)
      PROVE  Goal
  <2> DEFINE o == job[r].order
             c == job[r].call
  <2>1. /\ o \in Orders /\ c \in Calls /\ orders[o] \in OrderDocs
        /\ \A q \in Requests \ {r} : pc'[q] = pc[q] /\ job'[q] = job[q]
        /\ job'[r].call = job[r].call
        /\ job'[r].order = job[r].order
    BY <1>2, HandlerSteps DEF HandlerStep, TypeOK, Jobs
  <2>2. ASSUME pc[r] = "loaded"
        PROVE  job[r].doc = orders[o] /\ Lifecycle!Accepts(c, orders[o])
    <3>1. job[r].doc = orders[o] /\ Accepts(c, job[r].doc)
      BY <2>2 DEF Fresh, Accepted
    <3> QED
      BY <3>1 DEF Accepts, Lifecycle!Accepts
  <2>3. ASSUME pc[r] = "loaded", pc'[r] = "done", vtoTokens' = vtoTokens
        PROVE  PromisedTokens' = PromisedTokens
    BY <2>1, <2>3, NoAwardStep
  <2>4. ASSUME Op(r) # "cancelOrder", stock' = stock
        PROVE  CommittedStock' = CommittedStock
    <3>1. Op(r)' # "cancelOrder"
      BY <2>1, <2>4 DEF Op
    <3> QED
      BY <2>1, <2>4, <3>1, NoReturnStep
  <2>5. CASE SaveStatus(r)
    <3>1. /\ pc[r] = "loaded" /\ stock' = stock /\ job' = job
          /\ vtoTokens' = vtoTokens /\ c.op = "updateStatus"
          /\ pc'[r] = IF Awards(c, o, job[r].doc) THEN "saved" ELSE "done"
      BY <2>5 DEF SaveStatus, At, Goto, TypeOK
    <3>2. job[r].doc = orders[o] /\ Lifecycle!Accepts(c, orders[o])
      BY <2>2, <3>1
    <3>3. CommittedStock' = CommittedStock
      BY <2>4, <3>1 DEF Op
    <3>4. orders' = [orders EXCEPT
            ![o].status = c.to,
            ![o].proof.status =
               IF SyncsProof(c, orders[o]) THEN "verified" ELSE @]
      <4>1. Delta(orders[o].status, job[r].doc.status, c.to) = c.to
        BY <3>2 DEF Delta
      <4> QED
        BY <2>5, <3>2, <4>1 DEF SaveStatus
    <3>5. PromisedTokens' = [u \in Users |->
             IF u = Owner[o] /\ Awards(c, o, orders[o])
               THEN PromisedTokens[u] + TokensPerPurchase
               ELSE PromisedTokens[u]]
      <4> SUFFICES ASSUME NEW u \in Users
                   PROVE  PromisedTokens'[u] =
                            IF u = Owner[o] /\ Awards(c, o, orders[o])
                              THEN PromisedTokens[u] + TokensPerPurchase
                              ELSE PromisedTokens[u]
        BY DEF PromisedTokens
      <4>1. CASE Awards(c, o, orders[o])
        <5>1. RewardsOf(u, "saved")'
                = IF u = Owner[o] THEN RewardsOf(u, "saved") \cup {r}
                                  ELSE RewardsOf(u, "saved")
          BY <2>1, <3>1, <3>2, <4>1 DEF RewardsOf, Op
        <5>2. r \notin RewardsOf(u, "saved")
          BY <3>1 DEF RewardsOf
        <5>3. /\ IsFiniteSet(RewardsOf(u, "saved"))
              /\ Cardinality(RewardsOf(u, "saved")) \in Nat
          BY RequestsAssumption, FS_Subset, FS_CardinalityType DEF RewardsOf
        <5>4. u = Owner[o] => Cardinality(RewardsOf(u, "saved")')
                                = Cardinality(RewardsOf(u, "saved")) + 1
          BY <5>1, <5>2, <5>3, FS_AddElement
        <5>5. vtoTokens[u] \in Nat
          BY DEF TypeOK
        <5> QED
          BY <3>1, <4>1, <5>1, <5>3, <5>4, <5>5
             DEF PromisedTokens, TokensPerPurchase
      <4>2. CASE ~ Awards(c, o, orders[o])
        <5>1. PromisedTokens' = PromisedTokens
          BY <2>3, <3>1, <3>2, <4>2
        <5> QED
          BY <4>2, <5>1
      <4> QED
        BY <4>1, <4>2
    <3>6. Lifecycle!UpdateStatus(o, c)
      <4> HIDE DEF o, c
      <4> QED
        BY <3>1, <3>3, <3>4, <3>5
           DEF Lifecycle!UpdateStatus, Lifecycle!SyncsProof, Lifecycle!Awards,
               Lifecycle!PaidStatuses, Lifecycle!TokensPerPurchase,
               SyncsProof, Awards, PaidStatuses, TokensPerPurchase
    <3> QED
      BY <2>1, <3>2, <3>6 DEF Lifecycle!Next
  <2>6. CASE AwardTokens(r)
    <3>1. /\ pc[r] = "saved" /\ pc'[r] = "done" /\ job' = job
          /\ orders' = orders /\ stock' = stock /\ Op(r) = "updateStatus"
          /\ vtoTokens' = [vtoTokens EXCEPT ![Owner[o]] = @ + TokensPerPurchase]
      BY <2>6 DEF AwardTokens, At, Goto, TypeOK, Op
    <3>2. CommittedStock' = CommittedStock
      BY <2>4, <3>1
    <3>3. ASSUME NEW u \in Users
          PROVE  PromisedTokens'[u] = PromisedTokens[u]
      <4>1. RewardsOf(u, "saved")' = RewardsOf(u, "saved") \ {r}
        BY <2>1, <3>1 DEF RewardsOf, Op
      <4>2. r \in RewardsOf(u, "saved") <=> Owner[o] = u
        BY <3>1 DEF RewardsOf, SavedAwards
      <4>3. /\ IsFiniteSet(RewardsOf(u, "saved"))
            /\ Cardinality(RewardsOf(u, "saved")) \in Nat
        BY RequestsAssumption, FS_Subset, FS_CardinalityType DEF RewardsOf
      <4>4. Cardinality(RewardsOf(u, "saved")')
              = IF Owner[o] = u THEN Cardinality(RewardsOf(u, "saved")) - 1
                                ELSE Cardinality(RewardsOf(u, "saved"))
        BY <4>1, <4>2, <4>3, FS_RemoveElement
      <4>5. vtoTokens'[u] = IF Owner[o] = u
                              THEN vtoTokens[u] + TokensPerPurchase
                              ELSE vtoTokens[u]
        BY <3>1 DEF TypeOK
      <4>6. vtoTokens[u] \in Nat
        BY DEF TypeOK
      <4> QED
        BY <4>3, <4>4, <4>5, <4>6 DEF PromisedTokens, TokensPerPurchase
    <3>4. PromisedTokens' = PromisedTokens
      BY <3>3 DEF PromisedTokens
    <3> QED
      BY <3>1, <3>2, <3>4
  <2>7. CASE SaveProof(r)
    <3>1. /\ pc[r] = "loaded" /\ pc'[r] = "done" /\ stock' = stock
          /\ vtoTokens' = vtoTokens /\ c.op = "updatePaymentProof"
      BY <2>7 DEF SaveProof, At, Goto, TypeOK
    <3>2. CommittedStock' = CommittedStock
      BY <2>4, <3>1 DEF Op
    <3>3. PromisedTokens' = PromisedTokens
      BY <2>3, <3>1
    <3>4. orders' = [orders EXCEPT
                       ![o] = [status |-> StatusAfterProof(c, orders[o]),
                               proof |-> MergedProof(c, orders[o].proof)]]
      <4>1. job[r].doc = orders[o]
        BY <2>2, <3>1
      <4>2. Delta(orders[o].status, job[r].doc.status,
                  StatusAfterProof(c, job[r].doc))
              = StatusAfterProof(c, orders[o])
        BY <4>1 DEF Delta
      <4>3. Delta(orders[o].proof, job[r].doc.proof,
                  MergedProof(c, job[r].doc.proof))
              = MergedProof(c, orders[o].proof)
        BY <4>1 DEF Delta
      <4>4. /\ orders'[o].status = StatusAfterProof(c, orders[o])
            /\ orders'[o].proof = MergedProof(c, orders[o].proof)
            /\ \A p \in Orders \ {o} : orders'[p] = orders[p]
        BY <2>1, <2>7, <4>2, <4>3 DEF SaveProof, TypeOK, OrderDocs
      <4> HIDE DEF o, c
      <4>5. orders'[o] = [status |-> StatusAfterProof(c, orders[o]),
                          proof |-> MergedProof(c, orders[o].proof)]
        BY <2>1, <4>4 DEF TypeOK, OrderDocs
      <4> QED
        BY <2>1, <4>4, <4>5 DEF TypeOK
    <3>5. Lifecycle!UpdatePaymentProof(o, c)
      <4> HIDE DEF o, c
      <4> QED
        BY <3>1, <3>2, <3>3, <3>4
           DEF Lifecycle!UpdatePaymentProof, Lifecycle!StatusAfterProof,
               Lifecycle!MergedProof, Lifecycle!Or, StatusAfterProof,
               MergedProof, Or, Lifecycle!None, None
    <3> QED
      BY <2>1, <2>2, <3>1, <3>5 DEF Lifecycle!Next
  <2>8. CASE SaveTracking(r)
    <3>1. /\ pc[r] = "loaded" /\ pc'[r] = "done" /\ stock' = stock
          /\ vtoTokens' = vtoTokens /\ c.op = "updateTracking"
      BY <2>8 DEF SaveTracking, At, Goto, TypeOK
    <3>2. CommittedStock' = CommittedStock
      BY <2>4, <3>1 DEF Op
    <3>3. PromisedTokens' = PromisedTokens
      BY <2>3, <3>1
    <3>4. orders' = [orders EXCEPT ![o].status = "enviada"]
      BY <2>8, <3>1, FreshStatusSave DEF SaveTracking
    <3>5. Lifecycle!UpdateTracking(o, c)
      BY <3>1, <3>2, <3>3, <3>4
         DEF Lifecycle!UpdateTracking, Lifecycle!SetStatus
    <3> QED
      BY <2>1, <2>2, <3>1, <3>5 DEF Lifecycle!Next
  <2>9. ASSUME NEW v \in Variants, ReturnItem(r, v)
        PROVE  Goal
    <3>1. /\ pc[r] = "loaded" /\ pc' = pc /\ Op(r) = "cancelOrder"
          /\ v \notin job[r].returned
          /\ job'[r].returned = job[r].returned \cup {v}
          /\ \A q \in Requests : job'[q].order = job[q].order
          /\ stock' = [stock EXCEPT ![v] = @ + Qty[o][v]]
          /\ orders' = orders /\ vtoTokens' = vtoTokens
      BY <2>9 DEF ReturnItem, At, TypeOK, Jobs, Op
    <3>2. PromisedTokens' = PromisedTokens
      BY <2>1, <3>1, NoAwardStep
    <3>3. ASSUME NEW w \in Variants
          PROVE  CommittedStock'[w] = CommittedStock[w]
      <4>1. CASE w # v
        <5>1. Returning(w)' = Returning(w)
          BY <2>1, <3>1, <4>1 DEF Returning, ReturnsOf, InFlight, Op
        <5>2. stock'[w] = stock[w]
          BY <3>1, <4>1 DEF TypeOK
        <5> QED
          BY <3>1, <5>1, <5>2, CommittedSame DEF Returning, ReturnsOf
      <4>2. CASE w = v
        <5>1. /\ Returning(v)' = Returning(v) \cup {r}
              /\ r \notin Returning(v)
              /\ Returning(v) \in SUBSET Requests
          BY <2>1, <3>1 DEF Returning, ReturnsOf, InFlight, Op
        <5>2. Pieces(v, Returning(v) \cup {r}) = Pieces(v, Returning(v)) + Qty[o][v]
          BY <5>1, PiecesAdd
        <5>3. Pieces(v, Returning(v))' = Pieces(v, Returning(v) \cup {r})
          <6>1. Pieces(v, Returning(v))'
                  = SumFunctionOnSet([q \in Requests |-> Qty[job'[q].order][v]],
                                     Returning(v) \cup {r})
            BY <5>1 DEF Pieces
          <6> QED
            BY <5>1, <3>1, <6>1, PiecesSame
        <5>4. Pieces(v, Returning(v)) \in Nat
          BY <5>1, <3>1, PiecesSame
        <5>5. Qty[o][v] \in Nat
          BY <2>1, OrdersAssumption
        <5>6. stock[v] \in Int /\ stock'[v] = stock[v] + Qty[o][v]
          BY <3>1 DEF TypeOK
        <5>7. /\ CommittedStock[v] = stock[v] - Pieces(v, Returning(v))
              /\ CommittedStock'[v] = stock'[v] - Pieces(v, Returning(v))'
          BY DEF CommittedStock, Returning
        <5> QED
          BY <4>2, <5>2, <5>3, <5>4, <5>5, <5>6, <5>7
      <4> QED
        BY <4>1, <4>2
    <3>4. CommittedStock' = CommittedStock
      BY <3>3 DEF CommittedStock
    <3> QED
      BY <3>1, <3>2, <3>4
  <2>10. CASE SaveCancelled(r)
    <3>1. /\ pc[r] = "loaded" /\ pc'[r] = "done" /\ stock' = stock
          /\ vtoTokens' = vtoTokens /\ c.op = "cancelOrder" /\ job' = job
          /\ Items(o) \subseteq job[r].returned
      BY <2>10 DEF SaveCancelled, At, Goto, TypeOK
    <3>2. PromisedTokens' = PromisedTokens
      BY <2>3, <3>1
    <3>3. ASSUME NEW v \in Variants
          PROVE  CommittedStock'[v] = CommittedStock[v] + Qty[o][v]
      <4> DEFINE rs == Returning(v) \ {r}
      <4>1. Returning(v)' = rs /\ rs \in SUBSET Requests
        BY <2>1, <3>1 DEF Returning, ReturnsOf, InFlight, Op
      <4>2. Pieces(v, Returning(v))' = Pieces(v, rs) /\ Pieces(v, rs) \in Nat
        <5>1. Pieces(v, Returning(v))'
                = SumFunctionOnSet([q \in Requests |-> Qty[job'[q].order][v]],
                                   rs)
          BY <4>1 DEF Pieces
        <5> QED
          BY <4>1, <3>1, <5>1, PiecesSame
      <4>3. Qty[o][v] \in Nat /\ stock[v] \in Int
        BY <2>1, OrdersAssumption DEF TypeOK
      <4>4. Pieces(v, Returning(v)) = Pieces(v, rs) + Qty[o][v]
        <5>1. CASE r \in Returning(v)
          <6>1. rs \cup {r} = Returning(v)
            BY <5>1
          <6>2. Pieces(v, rs \cup {r}) = Pieces(v, rs) + Qty[o][v]
            BY <4>1, PiecesAdd
          <6> QED
            BY <6>1, <6>2
        <5>2. CASE r \notin Returning(v)
          <6>1. rs = Returning(v)
            BY <5>2
          <6>2. v \notin Items(o)
            BY <3>1, <5>2 DEF Returning, ReturnsOf, InFlight, Op
          <6>3. Qty[o][v] = 0
            BY <4>3, <6>2 DEF Items
          <6> HIDE DEF rs
          <6> QED
            BY <4>2, <6>1, <6>3
        <5> QED
          BY <5>1, <5>2
      <4>5. /\ CommittedStock[v] = stock[v] - Pieces(v, Returning(v))
            /\ CommittedStock'[v] = stock'[v] - Pieces(v, Returning(v))'
        BY DEF CommittedStock, Returning
      <4> QED
        BY <3>1, <4>2, <4>3, <4>4, <4>5
    <3>4. CommittedStock'
            = [v \in Variants |-> CommittedStock[v] + Qty[o][v]]
      <4>1. CommittedStock' = [v \in Variants |-> CommittedStock'[v]]
        BY DEF CommittedStock
      <4> QED
        BY <3>3, <4>1
    <3>5. orders' = [orders EXCEPT ![o].status = "cancelada"]
      BY <2>10, <3>1, FreshStatusSave DEF SaveCancelled
    <3>6. Lifecycle!CancelOrder(o, c)
      BY <3>1, <3>2, <3>4, <3>5 DEF Lifecycle!CancelOrder, Lifecycle!SetStatus
    <3> QED
      BY <2>1, <2>2, <3>1, <3>6 DEF Lifecycle!Next
  <2>11. CASE SaveArchived(r)
    <3>1. /\ pc[r] = "loaded" /\ pc'[r] = "done" /\ stock' = stock
          /\ vtoTokens' = vtoTokens /\ c.op = "archiveOrder"
      BY <2>11 DEF SaveArchived, At, Goto, TypeOK
    <3>2. CommittedStock' = CommittedStock /\ PromisedTokens' = PromisedTokens
      BY <2>3, <2>4, <3>1 DEF Op
    <3>3. orders' = [orders EXCEPT ![o].status = "archivada"]
      BY <2>11, <3>1, FreshStatusSave DEF SaveArchived
    <3>4. Lifecycle!ArchiveOrder(o, c)
      BY <3>1, <3>2, <3>3 DEF Lifecycle!ArchiveOrder, Lifecycle!SetStatus
    <3> QED
      BY <2>1, <2>2, <3>1, <3>4 DEF Lifecycle!Next
  <2>12. CASE SaveUnarchived(r)
    <3>1. /\ pc[r] = "loaded" /\ pc'[r] = "done" /\ stock' = stock
          /\ vtoTokens' = vtoTokens /\ c.op = "unarchiveOrder"
      BY <2>12 DEF SaveUnarchived, At, Goto, TypeOK
    <3>2. CommittedStock' = CommittedStock /\ PromisedTokens' = PromisedTokens
      BY <2>3, <2>4, <3>1 DEF Op
    <3>3. orders' = [orders EXCEPT ![o].status = "completada"]
      BY <2>12, <3>1, FreshStatusSave DEF SaveUnarchived
    <3>4. Lifecycle!UnarchiveOrder(o, c)
      BY <3>1, <3>2, <3>3 DEF Lifecycle!UnarchiveOrder, Lifecycle!SetStatus
    <3> QED
      BY <2>1, <2>2, <3>1, <3>4 DEF Lifecycle!Next
  <2> HIDE DEF Goal
  <2> QED
    BY <1>2, <2>5, <2>6, <2>7, <2>8, <2>9, <2>10, <2>11, <2>12 DEF Continue
<1>3. CASE UNCHANGED vars
  <2>1. \A v \in Variants : CommittedStock'[v] = CommittedStock[v]
    <3> SUFFICES ASSUME NEW v \in Variants
                 PROVE  CommittedStock'[v] = CommittedStock[v]
      OBVIOUS
    <3>1. Returning(v)' = Returning(v)
      BY <1>3 DEF vars, Returning, ReturnsOf, InFlight, Op
    <3> QED
      BY <1>3, <3>1, CommittedSame DEF vars
  <2>2. CommittedStock' = CommittedStock
    BY <2>1 DEF CommittedStock
  <2>3. \A u \in Users : RewardsOf(u, "saved")' = RewardsOf(u, "saved")
    BY <1>3 DEF vars, RewardsOf, Op
  <2> QED
    BY <1>3, <2>2, <2>3, PromisedSame DEF vars
<1> HIDE DEF Goal
<1> QED
  BY <1>1, <1>2, <1>3 DEF Next, Abort

LEMMA LifecycleInit == Init => Lifecycle!Init
<1> SUFFICES ASSUME Init PROVE Lifecycle!Init
  OBVIOUS
<1>1. TypeOK
  BY TypeInit
<1>2. CommittedStock = InitStock
  <2>1. ASSUME NEW v \in Variants PROVE CommittedStock[v] = InitStock[v]
    <3>1. Returning(v) = {}
      BY DEF Init, Returning, ReturnsOf
    <3>2. Pieces(v, {}) = 0
      BY SumEmpty DEF Pieces
    <3>3. CommittedStock[v] = stock[v] - Pieces(v, Returning(v))
      BY DEF CommittedStock, Returning
    <3> QED
      BY <3>1, <3>2, <3>3, OrdersAssumption DEF Init
  <2> QED
    BY <2>1, OrdersAssumption DEF CommittedStock
<1>3. PromisedTokens = [u \in Users |-> FreeTokens]
  <2>1. ASSUME NEW u \in Users PROVE RewardsOf(u, "saved") = {}
    BY DEF Init, RewardsOf
  <2> QED
    BY <2>1, FS_EmptySet
       DEF Init, PromisedTokens, FreeTokens, TokensPerPurchase
<1>4. orders \in [Orders -> Lifecycle!NewOrders]
  BY DEF Init, NewOrders, Lifecycle!NewOrders, NoProof, Lifecycle!NoProof,
         None, Lifecycle!None
<1> QED
  BY <1>2, <1>3, <1>4
     DEF Lifecycle!Init, FreeTokens, Lifecycle!FreeTokens

(* With one request at a time on an order and no failures, the handlers    *)
(* implement the order service that does each call in one step: whatever   *)
(* callers see of orders, committed stock and promised tokens, they could  *)
(* have seen of OrderLifecycle.                                            *)
THEOREM LifecycleImplemented ==
  Serial /\ ~ MayAbort => (Spec => ImplementsLifecycle)
<1> SUFFICES ASSUME Serial, ~ MayAbort PROVE Spec => ImplementsLifecycle
  OBVIOUS
<1>1. Init => SavedAwards /\ Accepted
  BY DEF Init, SavedAwards, Accepted
<1>2. TypeOK /\ (SavedAwards /\ Accepted) /\ [Next]_vars
        => (SavedAwards /\ Accepted)'
  BY SavedAwardsStep, AcceptedStep
<1>3. TypeOK /\ TypeOK' /\ (Exclusive /\ Fresh) /\ (SavedAwards /\ Accepted)
        /\ [Next]_vars => [Lifecycle!Next]_(Lifecycle!vars)
  BY LifecycleStep
<1>4. Spec => [](Exclusive /\ Fresh)
  BY SerialWorksOnCurrent
<1> QED
  BY <1>1, <1>2, <1>3, <1>4, LifecycleInit, TypeCorrect, PTL
     DEF Spec, ImplementsLifecycle, Lifecycle!Spec
=============================================================================
