------------------------ MODULE OrderCallers_proofs -------------------------
(***************************************************************************)
(* Proofs about the two components that call the order service by          *)
(* themselves: the payment gateways and the Telegram group.                *)
(***************************************************************************)
EXTENDS PaymentsProps, TelegramProps, Orders_proofs

-----------------------------------------------------------------------------
(***************************************************************************)
(* The payments, for every set of attempts, reports, orders and calls,     *)
(* any number of repeated deliveries, with and without failures.           *)
(***************************************************************************)
(* The gateways and their reports only take steps of the order service.    *)
LEMMA PaymentsStep ==
  ASSUME PaymentsTypeOK, [PaymentsNext]_pvars
  PROVE  [Next]_vars
<1>1. ASSUME NEW a \in Attempts, Initiate(a) \/ OpenSession(a)
      PROVE  [Next]_vars
  BY <1>1 DEF Initiate, OpenSession
<1>2. ASSUME NEW a \in Attempts, NEW kind \in Kinds, Report(a, kind)
      PROVE  [Next]_vars
  BY <1>2 DEF Report
<1>3. ASSUME NEW d \in Deliveries, Webhook(d)
      PROVE  [Next]_vars
  <2>1. d[1] \in Attempts /\ d[2] \in Kinds
    BY DEF Deliveries
  <2>2. StatusOf(d) \in Requests /\ ProofOf(d) \in Requests
    BY PaymentsAssumption
  <2>3. Paid \in Calls /\ ProofCall(d[2]) \in Calls
    BY <2>1, PaymentsAssumption
  <2>4. \/ Call(StatusOf(d), Paid, d)
        \/ Call(ProofOf(d), ProofCall(d[2]), d)
    BY <1>3 DEF Webhook, Receive, RecordCapture
  <2>5. PICK r \in Requests, c \in Calls : FindOrder(r, c, attempts[d[1]].order)
    BY <2>2, <2>3, <2>4 DEF Call
  <2>6. attempts[d[1]].order \in Orders
    BY <2>1 DEF PaymentsTypeOK
  <2> QED
    BY <2>5, <2>6 DEF Next
<1>4. ASSUME NEW r \in People, NEW c \in PeopleCalls, NEW o \in Orders,
             FindOrder(r, c, o)
      PROVE  [Next]_vars
  BY <1>4, PaymentsAssumption DEF Next
<1>5. ASSUME NEW r \in Requests, Continue(r) \/ Abort(r)
      PROVE  [Next]_vars
  BY <1>5 DEF Next
<1>6. CASE UNCHANGED pvars
  BY <1>6 DEF pvars, vars
<1> QED
  BY <1>1, <1>2, <1>3, <1>4, <1>5, <1>6 DEF PaymentsNext

(* What the steps make of the attempts and the reports: an attempt keeps   *)
(* its order and stays captured, a report stays made.                      *)
LEMMA AttemptStep ==
  ASSUME PaymentsTypeOK, [PaymentsNext]_pvars
  PROVE  /\ attempts' \in [Attempts -> [at    : {"new", "checked", "open", "captured"},
                                       order : Orders]]
         /\ reports' \subseteq Attempts \X Kinds
         /\ reports \subseteq reports'
         /\ \A a \in Attempts :
              /\ attempts'[a].order = attempts[a].order
              /\ attempts[a].at = "captured" => attempts'[a].at = "captured"
         /\ \A a \in Attempts, kind \in Captures :
              <<a, kind>> \in reports' \ reports => attempts'[a].at = "captured"
<1> USE DEF PaymentsTypeOK
<1>1. ASSUME NEW a \in Attempts, Initiate(a)
      PROVE  /\ attempts' = [attempts EXCEPT ![a].at = "checked"]
             /\ attempts[a].at = "new"
             /\ reports' = reports
  BY <1>1 DEF Initiate, Moves
<1>2. ASSUME NEW a \in Attempts, OpenSession(a)
      PROVE  /\ attempts' = [attempts EXCEPT ![a].at = "open"]
             /\ attempts[a].at = "checked"
             /\ reports' = reports
  BY <1>2 DEF OpenSession, Moves
<1>3. ASSUME NEW a \in Attempts, NEW kind \in Kinds, Report(a, kind)
      PROVE  /\ attempts' = IF kind \in Captures
                              THEN [attempts EXCEPT ![a].at = "captured"]
                              ELSE attempts
             /\ reports' = reports \cup {<<a, kind>>}
  BY <1>3 DEF Report, Moves
<1>4. ASSUME UNCHANGED <<attempts, reports>>
      PROVE  attempts' = attempts /\ reports' = reports
  BY <1>4
<1>5. CASE \E a \in Attempts : Initiate(a)
  BY <1>1, <1>5
<1>6. CASE \E a \in Attempts : OpenSession(a)
  BY <1>2, <1>6
<1>7. CASE \E a \in Attempts, kind \in Kinds : Report(a, kind)
  BY <1>3, <1>7
<1>8. CASE UNCHANGED <<attempts, reports>>
  BY <1>4, <1>8
<1>9. ASSUME NEW d \in Deliveries, Webhook(d)
      PROVE  UNCHANGED <<attempts, reports>>
  BY <1>9 DEF Webhook, Receive, RecordCapture
<1> QED
  BY <1>5, <1>6, <1>7, <1>8, <1>9 DEF PaymentsNext, pvars

LEMMA PaymentsTypeInit == PaymentsInit => PaymentsTypeOK
<1> SUFFICES ASSUME PaymentsInit PROVE PaymentsTypeOK
  OBVIOUS
<1>1. TypeOK
  BY TypeInit DEF PaymentsInit
<1> QED
  BY <1>1 DEF PaymentsInit, PaymentsTypeOK

LEMMA PaymentsTypeStep ==
  PaymentsTypeOK /\ [PaymentsNext]_pvars => PaymentsTypeOK'
<1> SUFFICES ASSUME PaymentsTypeOK, [PaymentsNext]_pvars PROVE PaymentsTypeOK'
  OBVIOUS
<1>1. TypeOK'
  BY PaymentsStep, TypeStep DEF PaymentsTypeOK
<1> QED
  BY <1>1, AttemptStep DEF PaymentsTypeOK

(* The documents, the sessions and the reports stay well typed.            *)
THEOREM PaymentsTypeCorrect == PaymentsSpec => []PaymentsTypeOK
<1> QED
  BY PaymentsTypeInit, PaymentsTypeStep, PTL DEF PaymentsSpec

(* The gateways use the order service as any other caller: every property  *)
(* proved of the order service holds with payments as well.                *)
THEOREM PaymentsUseOrders == PaymentsSpec => Spec
<1>1. PaymentsInit => Init
  BY DEF PaymentsInit
<1>2. PaymentsTypeOK /\ [PaymentsNext]_pvars => [Next]_vars
  BY PaymentsStep
<1> QED
  BY <1>1, <1>2, PaymentsTypeCorrect, PTL DEF PaymentsSpec, Spec

-----------------------------------------------------------------------------
(***************************************************************************)
(* An order is only paid by a capture or by a person.  The inductive       *)
(* invariant says what the requests of the gateway are: those of a         *)
(* delivery work on the order of its attempt, make the call of its kind,   *)
(* and a capture is reported of a captured attempt.                        *)
(***************************************************************************)
DeliveryInv ==
  \A d \in Deliveries :
    /\ pc[StatusOf(d)] # "new" =>
         /\ d[2] \in Captures
         /\ <<d[1], d[2]>> \in reports
         /\ job[StatusOf(d)].order = attempts[d[1]].order
         /\ job[StatusOf(d)].call = Paid
    /\ pc[ProofOf(d)] # "new" =>
         /\ <<d[1], d[2]>> \in reports
         /\ job[ProofOf(d)].order = attempts[d[1]].order
         /\ job[ProofOf(d)].call = ProofCall(d[2])

CaptureInv ==
  \A a \in Attempts, kind \in Captures :
    <<a, kind>> \in reports => attempts[a].at = "captured"

PaidInv == PaymentsTypeOK /\ DeliveryInv /\ CaptureInv

LEMMA PaidInvInit == PaymentsInit => PaidInv
<1> SUFFICES ASSUME PaymentsInit PROVE PaidInv
  OBVIOUS
<1>1. \A d \in Deliveries : pc[StatusOf(d)] = "new" /\ pc[ProofOf(d)] = "new"
  BY PaymentsAssumption DEF PaymentsInit, Init
<1> QED
  BY <1>1, PaymentsTypeInit
     DEF PaymentsInit, PaidInv, DeliveryInv, CaptureInv

(* What a step changes of the requests of a delivery: unless the delivery  *)
(* itself begins a call, a request of it that has begun keeps its call and *)
(* its order, and one that has not begun does not.                         *)
Keeps(r) ==
  /\ pc'[r] # "new" => pc[r] # "new"
  /\ pc[r] # "new" => /\ job'[r].order = job[r].order
                      /\ job'[r].call = job[r].call

LEMMA FindKeepsOthers ==
  ASSUME TypeOK, NEW r \in Requests, NEW c \in Calls, NEW o \in Orders,
         FindOrder(r, c, o), NEW q \in Requests, q # r
  PROVE  Keeps(q)
BY DEF FindOrder, Goto, TypeOK, Keeps

LEMMA ContinueKeeps ==
  ASSUME TypeOK, NEW r \in Requests, Continue(r) \/ Abort(r), NEW q \in Requests
  PROVE  Keeps(q)
<1>1. HandlerStep(r)
  BY HandlerSteps
<1> QED
  BY <1>1 DEF HandlerStep, InFlight, Keeps

(* The slots of a delivery are its own.                                    *)
LEMMA Slots ==
  ASSUME NEW d \in Deliveries
  PROVE  /\ StatusOf(d) \in Requests \ People
         /\ ProofOf(d) \in Requests \ People
         /\ d[1] \in Attempts /\ d[2] \in Kinds
         /\ \A e \in Deliveries :
              /\ StatusOf(d) # ProofOf(e)
              /\ StatusOf(d) = StatusOf(e) => d = e
              /\ ProofOf(d) = ProofOf(e) => d = e
<1>1. /\ StatusOf(d) \in Requests \ People
      /\ ProofOf(d) \in Requests \ People
  BY PaymentsAssumption
<1>2. d[1] \in Attempts /\ d[2] \in Kinds
  BY DEF Deliveries
<1> QED
  BY <1>1, <1>2 DEF StatusOf, ProofOf

(* A delivery that begins the call c in the slot r, for a reason that is   *)
(* known, keeps the invariant.                                             *)
LEMMA BegunCall ==
  ASSUME PaidInv, NEW d \in Deliveries,
         UNCHANGED <<attempts, reports>>,
         <<d[1], d[2]>> \in reports,
         \/ Call(StatusOf(d), Paid, d) /\ d[2] \in Captures
         \/ Call(ProofOf(d), ProofCall(d[2]), d)
  PROVE  DeliveryInv'
<1> SUFFICES ASSUME NEW e \in Deliveries
             PROVE  /\ pc'[StatusOf(e)] # "new" =>
                         /\ e[2] \in Captures
                         /\ <<e[1], e[2]>> \in reports
                         /\ job'[StatusOf(e)].order = attempts[e[1]].order
                         /\ job'[StatusOf(e)].call = Paid
                    /\ pc'[ProofOf(e)] # "new" =>
                         /\ <<e[1], e[2]>> \in reports
                         /\ job'[ProofOf(e)].order = attempts[e[1]].order
                         /\ job'[ProofOf(e)].call = ProofCall(e[2])
  BY DEF DeliveryInv
<1>1. TypeOK /\ attempts[d[1]].order \in Orders
  BY Slots DEF PaidInv, PaymentsTypeOK
<1>2. Paid \in Calls /\ ProofCall(d[2]) \in Calls
  BY Slots, PaymentsAssumption
<1>3. CASE Call(StatusOf(d), Paid, d) /\ d[2] \in Captures
  <2>1. FindOrder(StatusOf(d), Paid, attempts[d[1]].order)
    BY <1>3 DEF Call
  <2>2. /\ job'[StatusOf(d)].order = attempts[d[1]].order
        /\ job'[StatusOf(d)].call = Paid
    BY <1>1, <2>1, Slots DEF FindOrder, TypeOK
  <2>3. Keeps(ProofOf(e))
    BY <1>1, <1>2, <2>1, Slots, FindKeepsOthers
  <2>4. e # d => Keeps(StatusOf(e))
    BY <1>1, <1>2, <2>1, Slots, FindKeepsOthers
  <2> QED
    BY <1>3, <2>2, <2>3, <2>4 DEF PaidInv, DeliveryInv, Keeps
<1>4. CASE Call(ProofOf(d), ProofCall(d[2]), d)
  <2>1. FindOrder(ProofOf(d), ProofCall(d[2]), attempts[d[1]].order)
    BY <1>4 DEF Call
  <2>2. /\ job'[ProofOf(d)].order = attempts[d[1]].order
        /\ job'[ProofOf(d)].call = ProofCall(d[2])
    BY <1>1, <2>1, Slots DEF FindOrder, TypeOK
  <2>3. Keeps(StatusOf(e))
    BY <1>1, <1>2, <2>1, Slots, FindKeepsOthers
  <2>4. e # d => Keeps(ProofOf(e))
    BY <1>1, <1>2, <2>1, Slots, FindKeepsOthers
  <2> QED
    BY <2>2, <2>3, <2>4 DEF PaidInv, DeliveryInv, Keeps
<1> QED
  BY <1>3, <1>4

LEMMA PaidInvStep == PaidInv /\ [PaymentsNext]_pvars => PaidInv'
<1> SUFFICES ASSUME PaidInv, [PaymentsNext]_pvars PROVE PaidInv'
  OBVIOUS
<1>1. PaymentsTypeOK'
  BY PaymentsTypeStep DEF PaidInv
<1>2. CaptureInv'
  BY AttemptStep DEF PaidInv, CaptureInv
<1>3. ASSUME \A d \in Deliveries : Keeps(StatusOf(d)) /\ Keeps(ProofOf(d))
      PROVE  DeliveryInv'
  <2>1. \A a \in Attempts : attempts'[a].order = attempts[a].order
    BY AttemptStep DEF PaidInv
  <2>2. reports \subseteq reports'
    BY AttemptStep DEF PaidInv
  <2> QED
    BY <1>3, <2>1, <2>2, Slots DEF PaidInv, DeliveryInv, Keeps
<1>4. ASSUME UNCHANGED vars
      PROVE  DeliveryInv'
  <2>1. pc' = pc /\ job' = job
    BY <1>4 DEF vars
  <2>2. ASSUME NEW d \in Deliveries
        PROVE  Keeps(StatusOf(d)) /\ Keeps(ProofOf(d))
    BY <2>1 DEF Keeps
  <2> QED
    BY <1>3, <2>2
<1>5. ASSUME NEW d \in Deliveries, Webhook(d)
      PROVE  DeliveryInv'
  <2>1. UNCHANGED <<attempts, reports>>
    BY <1>5 DEF Webhook, Receive, RecordCapture
  <2>2. CASE Receive(d)
    <3>1. <<d[1], d[2]>> \in reports
      BY <2>2 DEF Receive, Delivers
    <3> QED
      BY <1>1, <1>2, <2>1, <2>2, <3>1, BegunCall DEF Receive
  <2>3. CASE RecordCapture(d)
    <3>1. <<d[1], d[2]>> \in reports
      BY <2>3 DEF RecordCapture, PaidInv, DeliveryInv
    <3> QED
      BY <1>1, <1>2, <2>1, <2>3, <3>1, BegunCall DEF RecordCapture
  <2> QED
    BY <1>5, <2>2, <2>3 DEF Webhook
<1>6. ASSUME NEW r \in People, NEW c \in PeopleCalls, NEW o \in Orders,
             FindOrder(r, c, o)
      PROVE  DeliveryInv'
  <2>1. r \in Requests /\ c \in Calls
    BY PaymentsAssumption
  <2>2. \A d \in Deliveries : Keeps(StatusOf(d)) /\ Keeps(ProofOf(d))
    BY <1>6, <2>1, Slots, FindKeepsOthers DEF PaidInv, PaymentsTypeOK
  <2> QED
    BY <1>3, <2>2
<1>7. ASSUME NEW r \in Requests, Continue(r) \/ Abort(r)
      PROVE  DeliveryInv'
  <2>1. \A d \in Deliveries : Keeps(StatusOf(d)) /\ Keeps(ProofOf(d))
    BY <1>7, Slots, ContinueKeeps DEF PaidInv, PaymentsTypeOK
  <2> QED
    BY <1>3, <2>1
<1>8. ASSUME NEW a \in Attempts,
             \/ Initiate(a)
             \/ OpenSession(a)
             \/ \E kind \in Kinds : Report(a, kind)
      PROVE  UNCHANGED vars
  BY <1>8 DEF Initiate, OpenSession, Report
<1>9. UNCHANGED pvars => UNCHANGED vars
  BY DEF pvars, vars
<1>10. DeliveryInv'
  BY <1>4, <1>5, <1>6, <1>7, <1>8, <1>9 DEF PaymentsNext
<1> QED
  BY <1>1, <1>2, <1>10 DEF PaidInv

(* The saves that make an order paid are those of calls that mark it paid. *)
LEMMA OnlyMarksPay ==
  ASSUME TypeOK, NEW r \in Requests, Continue(r) \/ Abort(r), NEW o \in Orders,
         orders[o].status \notin PaidStatuses, orders'[o].status \in PaidStatuses
  PROVE  pc[r] = "loaded" /\ job[r].order = o /\ MarksPaid(job[r].call)
<1>1. /\ job[r].order = o
      /\ InFlight(r)
      /\ o \in Orders /\ job[r].doc \in OrderDocs
  <2>1. HandlerStep(r)
    BY HandlerSteps
  <2> QED
    BY <2>1 DEF HandlerStep, TypeOK, Jobs
<1> DEFINE Goal == pc[r] = "loaded" /\ job[r].order = o /\ MarksPaid(job[r].call)
<1>2. CASE SaveStatus(r)
  BY <1>1, <1>2 DEF SaveStatus, At, MarksPaid
<1>3. CASE AwardTokens(r)
  BY <1>3 DEF AwardTokens
<1>4. CASE SaveProof(r)
  <2>1. orders'[o].status =
          Delta(orders[o].status, job[r].doc.status,
                StatusAfterProof(job[r].call, job[r].doc))
    BY <1>1, <1>4 DEF SaveProof, TypeOK, OrderDocs
  <2>2. job[r].call.status = "verified"
    BY <2>1 DEF Delta, StatusAfterProof
  <2> QED
    BY <1>1, <1>4, <2>2 DEF SaveProof, At, MarksPaid
<1>5. CASE SaveTracking(r)
  BY <1>1, <1>5 DEF SaveTracking, At, MarksPaid
<1>6. ASSUME NEW v \in Variants, ReturnItem(r, v)
      PROVE  Goal
  BY <1>6 DEF ReturnItem
<1>7. ASSUME NEW s \in Statuses \ PaidStatuses, SaveOnlyStatus(r, s)
      PROVE  Goal
  BY <1>1, <1>7 DEF SaveOnlyStatus, Delta, TypeOK, OrderDocs
<1>8. CASE SaveCancelled(r)
  <2>1. SaveOnlyStatus(r, "cancelada")
    BY <1>8 DEF SaveCancelled
  <2>2. "cancelada" \in Statuses \ PaidStatuses
    BY DEF Statuses, PaidStatuses
  <2> QED
    BY <1>7, <2>1, <2>2
<1>9. CASE SaveArchived(r)
  <2>1. SaveOnlyStatus(r, "archivada")
    BY <1>9 DEF SaveArchived
  <2>2. "archivada" \in Statuses \ PaidStatuses
    BY DEF Statuses, PaidStatuses
  <2> QED
    BY <1>7, <2>1, <2>2
<1>10. CASE SaveUnarchived(r)
  BY <1>1, <1>10 DEF SaveUnarchived, At, MarksPaid
<1>11. CASE Abort(r)
  BY <1>11 DEF Abort
<1> QED
  BY <1>1, <1>2, <1>3, <1>4, <1>5, <1>6, <1>8, <1>9, <1>10, <1>11 DEF Continue

(* The step formula of PaidByCapture.                                      *)
PaysByCapture ==
  \A o \in Orders :
    /\ orders[o].status \notin PaidStatuses
    /\ orders'[o].status \in PaidStatuses
    => \/ CapturedFor(o) # {}
       \/ \E r \in People : /\ pc[r] = "loaded"
                            /\ job[r].order = o
                            /\ MarksPaid(job[r].call)

LEMMA PaidInvPays == PaidInv /\ [PaymentsNext]_pvars => [PaysByCapture]_pvars
<1> SUFFICES ASSUME PaidInv, [PaymentsNext]_pvars, NEW o \in Orders,
                    orders[o].status \notin PaidStatuses,
                    orders'[o].status \in PaidStatuses
             PROVE  \/ CapturedFor(o) # {}
                    \/ \E r \in People : /\ pc[r] = "loaded"
                                         /\ job[r].order = o
                                         /\ MarksPaid(job[r].call)
  BY DEF PaysByCapture
<1>1. orders' # orders
  OBVIOUS
<1>2. PICK r \in Requests : Continue(r) \/ Abort(r)
  BY <1>1 DEF PaymentsNext, pvars, vars, Initiate, OpenSession, Report, Webhook,
              Receive, RecordCapture, Call, FindOrder
<1>3. pc[r] = "loaded" /\ job[r].order = o /\ MarksPaid(job[r].call)
  BY <1>2, OnlyMarksPay DEF PaidInv, PaymentsTypeOK
<1>4. ASSUME NEW d \in Deliveries, d[2] \in Captures,
             <<d[1], d[2]>> \in reports, attempts[d[1]].order = o
      PROVE  CapturedFor(o) # {}
  BY <1>4, Slots DEF PaidInv, CaptureInv, CapturedFor
<1>5. ASSUME NEW d \in Deliveries, r = StatusOf(d)
      PROVE  CapturedFor(o) # {}
  BY <1>3, <1>4, <1>5 DEF PaidInv, DeliveryInv
<1>6. ASSUME NEW d \in Deliveries, r = ProofOf(d)
      PROVE  CapturedFor(o) # {}
  <2>1. /\ <<d[1], d[2]>> \in reports
        /\ attempts[d[1]].order = o
        /\ MarksPaid(ProofCall(d[2]))
    BY <1>3, <1>6 DEF PaidInv, DeliveryInv
  <2>2. d[2] \in Captures
    <3>1. d[2] \in AllKinds
      BY Slots, PaymentsAssumption
    <3> QED
      BY <2>1, <3>1 DEF MarksPaid, ProofCall, AllKinds
  <2> QED
    BY <1>4, <2>1, <2>2
<1> QED
  BY <1>3, <1>5, <1>6, PaymentsAssumption

(* Unless a person marks it paid, an order only becomes paid when a payment*)
(* of it was captured, however reports are repeated, reordered and         *)
(* interleaved with each other and with what people do.                    *)
THEOREM PaidOnlyByCapture == PaymentsSpec => PaidByCapture
<1>1. PaidInv /\ [PaymentsNext]_pvars => PaidInv'
  BY PaidInvStep
<1>2. PaidInv /\ [PaymentsNext]_pvars => [PaysByCapture]_pvars
  BY PaidInvPays
<1>3. PaidByCapture <=> [][PaysByCapture]_pvars
  BY DEF PaidByCapture, PaysByCapture
<1> QED
  BY <1>1, <1>2, <1>3, PaidInvInit, PTL DEF PaymentsSpec

(* The report of a capture tells the order and its proof, whatever else    *)
(* was saved while its handler waited: when the status call of a delivery  *)
(* finishes, the order is pagada, or it was when the handler loaded it,    *)
(* and when its proof call finishes the same holds of a verified proof.    *)
(* Module PaymentsProps says that these calls are made and do finish.      *)
Records ==
  \A d \in Deliveries :
    LET o == attempts[d[1]].order IN
    /\ pc[StatusOf(d)] = "loaded" /\ pc'[StatusOf(d)] \in {"saved", "done"}
       => "pagada" \in {job[StatusOf(d)].doc.status, orders'[o].status}
    /\ /\ d[2] \in Captures
       /\ pc[ProofOf(d)] = "loaded" /\ pc'[ProofOf(d)] = "done"
       => "verified" \in {job[ProofOf(d)].doc.proof.status,
                          orders'[o].proof.status}

LEMMA CaptureRecords == PaidInv /\ [PaymentsNext]_pvars => [Records]_pvars
<1> SUFFICES ASSUME PaidInv, [PaymentsNext]_pvars, NEW d \in Deliveries
             PROVE  LET o == attempts[d[1]].order IN
                    /\ /\ pc[StatusOf(d)] = "loaded"
                       /\ pc'[StatusOf(d)] \in {"saved", "done"}
                       => "pagada" \in {job[StatusOf(d)].doc.status,
                                        orders'[o].status}
                    /\ /\ d[2] \in Captures
                       /\ pc[ProofOf(d)] = "loaded" /\ pc'[ProofOf(d)] = "done"
                       => "verified" \in {job[ProofOf(d)].doc.proof.status,
                                          orders'[o].proof.status}
  BY DEF Records
<1> DEFINE o == attempts[d[1]].order
           s == StatusOf(d)
           p == ProofOf(d)
<1>1. TypeOK /\ [Next]_vars
  BY PaymentsStep DEF PaidInv, PaymentsTypeOK
<1>2. s \in Requests /\ p \in Requests /\ o \in Orders
  BY Slots DEF PaidInv, PaymentsTypeOK
<1>3. orders[o] \in OrderDocs
  BY <1>1, <1>2 DEF TypeOK
<1>4. ASSUME pc[s] = "loaded", pc'[s] \in {"saved", "done"}
      PROVE  "pagada" \in {job[s].doc.status, orders'[o].status}
  <2>1. job[s].order = o /\ job[s].call = Paid
    BY <1>4 DEF PaidInv, DeliveryInv
  <2>2. SaveStatus(s)
    BY <1>1, <1>2, <1>4, <2>1, SavesItsCall DEF Op, Paid
  <2>3. orders'[o].status = Delta(orders[o].status, job[s].doc.status, "pagada")
    BY <1>1, <1>2, <1>3, <2>1, <2>2 DEF SaveStatus, TypeOK, OrderDocs, Paid
  <2> QED
    BY <2>3 DEF Delta
<1>5. ASSUME d[2] \in Captures, pc[p] = "loaded", pc'[p] = "done"
      PROVE  "verified" \in {job[p].doc.proof.status, orders'[o].proof.status}
  <2>1. job[p].order = o /\ job[p].call = ProofCall(d[2])
    BY <1>5 DEF PaidInv, DeliveryInv
  <2>2. job[p].call.op = "updatePaymentProof" /\ job[p].call.status = "verified"
    BY <1>5, <2>1 DEF ProofCall, Captures
  <2>3. SaveProof(p)
    BY <1>1, <1>2, <1>5, <2>2, SavesItsCall DEF Op
  <2> DEFINE merged == MergedProof(job[p].call, job[p].doc.proof)
  <2>4. orders'[o].proof = Delta(orders[o].proof, job[p].doc.proof, merged)
    BY <1>1, <1>2, <1>3, <2>1, <2>3 DEF SaveProof, TypeOK, OrderDocs
  <2>5. merged.status = "verified"
    BY <2>2 DEF MergedProof, Or, None
  <2> HIDE DEF merged
  <2> QED
    BY <2>4, <2>5 DEF Delta
<1> QED
  BY <1>4, <1>5

(* No request that overlaps it, of people or of other reports, makes the   *)
(* handler of a capture finish without having had the order paid, or its   *)
(* proof verified, at its save or at its load.                             *)
THEOREM CapturesRecorded == PaymentsSpec => [][Records]_pvars
<1>1. PaidInv /\ [PaymentsNext]_pvars => PaidInv'
  BY PaidInvStep
<1>2. PaidInv /\ [PaymentsNext]_pvars => [Records]_pvars
  BY CaptureRecords
<1> QED
  BY <1>1, <1>2, PaidInvInit, PTL DEF PaymentsSpec

-----------------------------------------------------------------------------
(***************************************************************************)
(* The Telegram group, for every set of orders, calls, requests and        *)
(* presses: any number of messages, buttons and redeliveries.              *)
(***************************************************************************)
(* A button that acts ends in a call of the order service.                 *)
AnsweredActs ==
  \A p \in Presses :
    press[p].at = "answered" => press[p].button \in DOMAIN OrderCall

(* The buttons only make steps of the order service, on the order of the   *)
(* message that shows them.                                                *)
LEMMA ReviewStep ==
  ASSUME ReviewTypeOK, AnsweredActs, [ReviewNext]_reviewVars
  PROVE  [Next]_vars
<1>1. ASSUME NEW r \in Requests, NEW c \in RouteCalls, NEW o \in Orders,
             RouteCall(r, c, o)
      PROVE  [Next]_vars
  BY <1>1, TelegramAssumption DEF RouteCall, Next
<1>2. ASSUME NEW r \in Requests, Proceed(r)
      PROVE  [Next]_vars
  BY <1>2 DEF Proceed, Next
<1>3. ASSUME NEW p \in Presses, NEW r \in Requests, Act(p, r)
      PROVE  [Next]_vars
  <2>1. press[p].button \in DOMAIN OrderCall
    BY <1>3 DEF Act, AnsweredActs
  <2>2. OrderCall[press[p].button] \in Calls
    BY <2>1, TelegramAssumption
  <2>3. press[p].message \in Requests
    BY DEF ReviewTypeOK
  <2>4. job[press[p].message].order \in Orders
    BY <2>3 DEF ReviewTypeOK, TypeOK, Jobs
  <2> QED
    BY <1>3, <2>2, <2>4 DEF Act, Next
<1>4. ASSUME NEW r \in Requests, Post(r)
      PROVE  UNCHANGED vars
  BY <1>4 DEF Post, vars
<1>5. ASSUME NEW p \in Presses,
             \/ \E m \in Requests, b \in DOMAIN Turns \cup DOMAIN OrderCall :
                  Press(p, m, b)
             \/ Turn(p) \/ Delete(p) \/ Answer(p) \/ FailAnswer(p)
      PROVE  UNCHANGED vars
  BY <1>5 DEF Press, Turn, Delete, Answer, FailAnswer, vars
<1>6. CASE UNCHANGED reviewVars
  BY <1>6 DEF reviewVars, vars
<1> QED
  BY <1>1, <1>2, <1>3, <1>4, <1>5, <1>6 DEF ReviewNext

-----------------------------------------------------------------------------
(***************************************************************************)
(* What the steps do to a press.  The inductive invariant ActInv says that *)
(* a press that made a call is done, and that no other call is its own; a  *)
(* press that is done is not delivered again, although Telegram may have   *)
(* delivered it any number of times before.                                *)
(***************************************************************************)
ActInv ==
  /\ ReviewTypeOK
  /\ AnsweredActs
  /\ \A r \in Requests :
       cause[r] # NoPress => pc[r] # "new" /\ press[cause[r]].at = "done"
  /\ \A r, q \in Requests : cause[r] = cause[q] /\ cause[r] # NoPress => r = q

LEMMA ActInvInit == ReviewInit => ActInv
<1> SUFFICES ASSUME ReviewInit PROVE ActInv
  OBVIOUS
<1>1. TypeOK
  BY TypeInit DEF ReviewInit
<1>2. message \in [Requests -> Keyboards \cup {"unsent", "gone"}]
  BY DEF ReviewInit
<1>3. press \in [Presses -> [at : PressStates, message : Requests,
                             button : DOMAIN Turns \cup DOMAIN OrderCall]]
  <2>1. "cancel" \in DOMAIN Turns /\ "unused" \in PressStates
    BY DEF Turns, PressStates
  <2>2. (CHOOSE r \in Requests : TRUE) \in Requests
    BY TelegramAssumption
  <2> QED
    BY <2>1, <2>2 DEF ReviewInit
<1> QED
  BY <1>1, <1>2, <1>3 DEF ReviewInit, ActInv, AnsweredActs, ReviewTypeOK

(* A press changes only as its own delivery goes on, and never after it is *)
(* done; a delivery that is answered is one of a button that acts.         *)
LEMMA PressStep ==
  ASSUME ReviewTypeOK, AnsweredActs, NEW p \in Presses,
         \/ \E m \in Requests, b \in DOMAIN Turns \cup DOMAIN OrderCall :
              Press(p, m, b)
         \/ Turn(p) \/ Delete(p) \/ Answer(p) \/ FailAnswer(p)
  PROVE  /\ UNCHANGED <<vars, cause>>
         /\ message' \in [Requests -> Keyboards \cup {"unsent", "gone"}]
         /\ press' \in [Presses -> [at : PressStates, message : Requests,
                                   button : DOMAIN Turns \cup DOMAIN OrderCall]]
         /\ AnsweredActs'
         /\ \A q \in Presses : press[q].at = "done" => press'[q].at = "done"
<1> USE DEF ReviewTypeOK, PressStates, AnsweredActs, Became
<1>1. ASSUME NEW m \in Requests, NEW b \in DOMAIN Turns \cup DOMAIN OrderCall,
             Press(p, m, b)
      PROVE  /\ press' = [press EXCEPT ![p] = [at |-> "queued", message |-> m, button |-> b]]
             /\ press[p].at = "unused"
             /\ UNCHANGED <<vars, cause, message>>
  BY <1>1 DEF Press
<1>2. CASE \E m \in Requests, b \in DOMAIN Turns \cup DOMAIN OrderCall : Press(p, m, b)
  BY <1>1, <1>2
<1>3. CASE Turn(p)
  <2>1. /\ Turns[press[p].button] \in Keyboards
        /\ press[p].message \in Requests
    BY <1>3 DEF Turn, Turns, Keyboards, Buttons
  <2> QED
    BY <1>3, <2>1 DEF Turn
<1>4. CASE Delete(p)
  BY <1>4 DEF Delete
<1>5. CASE Answer(p)
  BY <1>5 DEF Answer
<1>6. CASE FailAnswer(p)
  BY <1>6 DEF FailAnswer
<1> QED
  BY <1>2, <1>3, <1>4, <1>5, <1>6

(* No step makes a request new again.                                      *)
LEMMA BegunStays ==
  ASSUME TypeOK, [Next]_vars, NEW q \in Requests, pc[q] # "new"
  PROVE  pc'[q] # "new"
<1>1. ASSUME NEW r \in Requests, NEW c \in Calls, NEW o \in Orders,
             FindOrder(r, c, o)
      PROVE  pc'[q] # "new"
  BY <1>1 DEF FindOrder, Goto, TypeOK
<1>2. ASSUME NEW r \in Requests, Continue(r) \/ Abort(r)
      PROVE  pc'[q] # "new"
  BY <1>2 DEF Continue, SaveStatus, AwardTokens, SaveProof, SaveTracking,
              ReturnItem, SaveCancelled, SaveArchived, SaveUnarchived, Abort,
              Goto, TypeOK
<1>3. CASE UNCHANGED vars
  BY <1>3 DEF vars
<1> QED
  BY <1>1, <1>2, <1>3 DEF Next

LEMMA ActInvStep == ActInv /\ [ReviewNext]_reviewVars => ActInv'
<1> SUFFICES ASSUME ActInv, [ReviewNext]_reviewVars PROVE ActInv'
  OBVIOUS
<1>1. ReviewTypeOK /\ AnsweredActs
  BY DEF ActInv
<1>2. TypeOK'
  BY <1>1, ReviewStep, TypeStep DEF ReviewTypeOK
<1>3. \A q \in Requests : pc[q] # "new" => pc'[q] # "new"
  BY <1>1, ReviewStep, BegunStays DEF ReviewTypeOK
<1>4. ASSUME NEW p \in Presses,
             \/ \E m \in Requests, b \in DOMAIN Turns \cup DOMAIN OrderCall :
                  Press(p, m, b)
             \/ Turn(p) \/ Delete(p) \/ Answer(p) \/ FailAnswer(p)
      PROVE  ActInv'
  <2>1. /\ UNCHANGED <<vars, cause>>
        /\ ReviewTypeOK' /\ AnsweredActs'
        /\ \A q \in Presses : press[q].at = "done" => press'[q].at = "done"
    BY <1>1, <1>2, <1>4, PressStep DEF ReviewTypeOK
  <2> QED
    BY <1>3, <2>1 DEF ActInv, ReviewTypeOK
<1>5. ASSUME UNCHANGED <<press, cause>>,
             message' \in [Requests -> Keyboards \cup {"unsent", "gone"}]
      PROVE  ActInv'
  BY <1>1, <1>2, <1>3, <1>5 DEF ActInv, ReviewTypeOK, AnsweredActs
<1>6. ASSUME NEW r \in Requests, NEW c \in RouteCalls, NEW o \in Orders,
             RouteCall(r, c, o)
      PROVE  ActInv'
  BY <1>1, <1>5, <1>6 DEF RouteCall, telegram, ReviewTypeOK
<1>7. ASSUME NEW r \in Requests, Proceed(r)
      PROVE  ActInv'
  BY <1>1, <1>5, <1>7 DEF Proceed, telegram, ReviewTypeOK
<1>8. ASSUME NEW r \in Requests, Post(r)
      PROVE  ActInv'
  <2>1. job[r].call \in Calls
    BY <1>1 DEF ReviewTypeOK, TypeOK, Jobs
  <2>2. Announces(job[r].call, job[r].doc) \in Keyboards
    BY <1>8, <2>1 DEF Post, Posts, Announces, Keyboards, Buttons, None
  <2>3. /\ message' \in [Requests -> Keyboards \cup {"unsent", "gone"}]
        /\ UNCHANGED <<press, cause>>
    BY <1>1, <1>8, <2>2 DEF Post, ReviewTypeOK
  <2> QED
    BY <1>5, <2>3
<1>9. ASSUME NEW p \in Presses, NEW r \in Requests, Act(p, r)
      PROVE  ActInv'
  <2>1. /\ press[p].at = "answered"
        /\ pc[r] = "new" /\ pc'[r] # "new"
        /\ cause' = [cause EXCEPT ![r] = p]
        /\ press' = [press EXCEPT ![p].at = "done"]
        /\ message' = message
    BY <1>1, <1>9 DEF Act, Became, FindOrder, Goto, ReviewTypeOK, TypeOK
  <2>2. ReviewTypeOK'
    BY <1>1, <1>2, <2>1 DEF ReviewTypeOK, PressStates
  <2>3. AnsweredActs'
    BY <1>1, <2>1 DEF AnsweredActs, ReviewTypeOK
  <2>4. \A q \in Presses :
          /\ press[q].at = "done" => press'[q].at = "done"
          /\ press'[p].at = "done"
    BY <1>1, <2>1 DEF ReviewTypeOK
  <2>5. p # NoPress
    BY TelegramAssumption DEF NoPress
  <2>6. \A q \in Requests : cause[q] # p
    BY <2>1, <2>5 DEF ActInv
  <2>7. \A q \in Requests :
          /\ cause'[r] = p
          /\ q # r => cause'[q] = cause[q]
    BY <1>1, <2>1 DEF ReviewTypeOK
  <2>8. \A q \in Requests :
          cause'[q] # NoPress => pc'[q] # "new" /\ press'[cause'[q]].at = "done"
    BY <1>1, <1>3, <2>1, <2>4, <2>7 DEF ActInv, ReviewTypeOK
  <2>9. \A q, s \in Requests :
          cause'[q] = cause'[s] /\ cause'[q] # NoPress => q = s
    BY <2>6, <2>7 DEF ActInv
  <2> QED
    BY <2>2, <2>3, <2>8, <2>9 DEF ActInv
<1>10. CASE UNCHANGED reviewVars
  BY <1>1, <1>5, <1>10 DEF reviewVars, ReviewTypeOK
<1> QED
  BY <1>4, <1>6, <1>7, <1>8, <1>9, <1>10 DEF ReviewNext

-----------------------------------------------------------------------------
LEMMA ActInvHolds == ReviewSpec => []ActInv
<1> QED
  BY ActInvInit, ActInvStep, PTL DEF ReviewSpec

(* Messages, presses and the documents behind them stay well typed.        *)
THEOREM ReviewTypeCorrect == ReviewSpec => []ReviewTypeOK
<1>1. ActInv => ReviewTypeOK
  BY DEF ActInv
<1> QED
  BY <1>1, ActInvHolds, PTL

(* The group uses the order service as any other caller: what is proved of *)
(* the order service holds with its buttons as well.                       *)
THEOREM ReviewUsesOrders == ReviewSpec => Spec
<1>1. ReviewInit => Init
  BY DEF ReviewInit
<1>2. ActInv /\ [ReviewNext]_reviewVars => [Next]_vars
  BY ReviewStep DEF ActInv
<1> QED
  BY <1>1, <1>2, ActInvHolds, PTL DEF ReviewSpec, Spec

(* However often Telegram delivers a press, at most one call on an order   *)
(* comes of it.                                                            *)
THEOREM PressActsAtMostOnce ==
  ReviewSpec => [](\A p \in Presses : Cardinality(CallsOf(p)) <= 1)
<1>1. ASSUME ActInv, NEW p \in Presses
      PROVE  Cardinality(CallsOf(p)) <= 1
  <2>1. p # NoPress
    BY TelegramAssumption DEF NoPress
  <2>2. \A r, q \in CallsOf(p) : r = q
    BY <1>1, <2>1 DEF CallsOf, ActInv
  <2>3. CASE CallsOf(p) = {}
    BY <2>3, FS_EmptySet
  <2>4. ASSUME NEW r \in CallsOf(p)
        PROVE  Cardinality(CallsOf(p)) <= 1
    <3>1. CallsOf(p) = {r}
      BY <2>2, <2>4
    <3> QED
      BY <3>1, FS_Singleton
  <2> QED
    BY <2>3, <2>4
<1>2. ActInv => \A p \in Presses : Cardinality(CallsOf(p)) <= 1
  BY <1>1
<1> QED
  BY <1>2, ActInvHolds, PTL

-----------------------------------------------------------------------------
(***************************************************************************)
(* What a status button finds.  The status of an order is the one that the *)
(* last handler announced, or read, unless another handler saved the order.*)
(***************************************************************************)
Announced(m) == Announces(job[m].call, job[m].doc)

(* Another call has saved the order of m.                                  *)
Touched(m) ==
  \E q \in Requests \ {m} : pc[q] \notin {"new", "loaded"} /\ job[q].order = job[m].order

(* m saves the status that it announces.                                   *)
MovesOn(m) ==
  \/ Announced(m) \in {"en_produccion", "enviada"}
  \/ Announced(m) = "pagada" /\ job[m].doc.status = "esperando_pago"

StatusKept(m) ==
  \/ Touched(m)
  \/ /\ pc[m] = "loaded" => orders[job[m].order].status = job[m].doc.status
     /\ pc[m] \in {"saved", "done"} /\ MovesOn(m)
          => orders[job[m].order].status = Announced(m)

ShownInv == \A m \in Requests : pc[m] # "aborted" /\ StatusKept(m)

(* What a request is about does not change once it has begun.              *)
SameJob(q) ==
  /\ job'[q].call = job[q].call /\ job'[q].order = job[q].order
  /\ job'[q].doc = job[q].doc

(* A save of a status, seen from the order.                                *)
LEMMA SavedStatus ==
  ASSUME TypeOK, NEW s \in Requests, NEW status, SaveOnlyStatus(s, status)
  PROVE  /\ orders'[job[s].order].status
              = Delta(orders[job[s].order].status, job[s].doc.status, status)
         /\ \A o \in Orders \ {job[s].order} : orders'[o] = orders[o]
<1>1. job[s].order \in Orders /\ orders \in [Orders -> OrderDocs]
  BY DEF TypeOK, Jobs
<1>2. orders[job[s].order] \in OrderDocs
  BY <1>1
<1> HIDE DEF OrderDocs
<1>3. orders'[job[s].order] = [orders[job[s].order] EXCEPT
          !.status = Delta(@, job[s].doc.status, status)]
  BY <1>1 DEF SaveOnlyStatus
<1> QED
  BY <1>1, <1>2, <1>3 DEF SaveOnlyStatus, OrderDocs

(* A handler goes on: either it saves the order, or it leaves it alone.    *)
LEMMA HandlerGoesOn ==
  ASSUME TypeOK, NEW s \in Requests, Continue(s)
  PROVE  /\ \A q \in Requests : SameJob(q) /\ (q # s => pc'[q] = pc[q])
         /\ \/ orders' = orders /\ (pc'[s] = pc[s] \/ (pc[s] = "saved" /\ pc'[s] = "done"))
            \/ /\ pc[s] = "loaded" /\ pc'[s] \in {"saved", "done"}
               /\ \A o \in Orders \ {job[s].order} : orders'[o] = orders[o]
               /\ MovesOn(s) /\ orders[job[s].order].status = job[s].doc.status
                    => orders'[job[s].order].status = Announced(s)
<1> USE DEF SameJob
<1>1. /\ job[s].order \in Orders /\ orders \in [Orders -> OrderDocs]
      /\ pc \in [Requests -> PCs] /\ job \in [Requests -> Jobs]
      /\ orders[job[s].order] \in OrderDocs /\ job[s].call \in Calls
  BY DEF TypeOK, Jobs
<1>2. CASE SaveStatus(s)
  <2>1. /\ pc[s] = "loaded" /\ job[s].call.op = "updateStatus" /\ job' = job
        /\ \E at \in {"saved", "done"} : pc' = [pc EXCEPT ![s] = at]
        /\ \A o \in Orders \ {job[s].order} : orders'[o] = orders[o]
    BY <1>1, <1>2 DEF SaveStatus, At, Goto
  <2>2. orders'[job[s].order].status
          = Delta(orders[job[s].order].status, job[s].doc.status, job[s].call.to)
    BY <1>1, <1>2 DEF SaveStatus, OrderDocs
  <2>3. MovesOn(s) => Announced(s) = job[s].call.to /\ job[s].call.to # job[s].doc.status
    BY <2>1 DEF MovesOn, Announced, Announces, None
  <2> QED
    BY <1>1, <2>1, <2>2, <2>3 DEF Delta
<1>3. CASE SaveProof(s)
  <2>1. /\ pc[s] = "loaded" /\ job[s].call.op = "updatePaymentProof" /\ job' = job
        /\ pc' = [pc EXCEPT ![s] = "done"]
        /\ \A o \in Orders \ {job[s].order} : orders'[o] = orders[o]
    BY <1>1, <1>3 DEF SaveProof, At, Goto
  <2>2. orders'[job[s].order].status
          = Delta(orders[job[s].order].status, job[s].doc.status,
                  StatusAfterProof(job[s].call, job[s].doc))
    BY <1>1, <1>3 DEF SaveProof, OrderDocs
  <2>3. MovesOn(s) => /\ Announced(s) = "pagada" /\ job[s].doc.status = "esperando_pago"
                    /\ job[s].call.status = "verified"
    BY <2>1 DEF MovesOn, Announced, Announces, None
  <2> QED
    BY <1>1, <2>1, <2>2, <2>3 DEF Delta, StatusAfterProof
<1>4. CASE SaveTracking(s)
  <2>1. /\ pc[s] = "loaded" /\ job[s].call.op = "updateTracking" /\ job' = job
        /\ pc' = [pc EXCEPT ![s] = "done"] /\ SaveOnlyStatus(s, "enviada")
    BY <1>4 DEF SaveTracking, At, Goto
  <2>2. Announced(s) = "enviada"
    BY <2>1 DEF Announced, Announces
  <2> QED
    BY <1>1, <2>1, <2>2, SavedStatus DEF Delta
<1>5. ASSUME NEW status, SaveOnlyStatus(s, status), pc[s] = "loaded", job' = job,
             pc' = [pc EXCEPT ![s] = "done"],
             job[s].call.op \in {"cancelOrder", "archiveOrder", "unarchiveOrder"}
      PROVE  /\ \A q \in Requests : SameJob(q) /\ (q # s => pc'[q] = pc[q])
             /\ pc[s] = "loaded" /\ pc'[s] \in {"saved", "done"}
             /\ \A o \in Orders \ {job[s].order} : orders'[o] = orders[o]
             /\ ~ MovesOn(s)
  <2>1. Announced(s) = None
    BY <1>5 DEF Announced, Announces
  <2> QED
    BY <1>1, <1>5, <2>1, SavedStatus DEF MovesOn, None
<1>6. CASE SaveCancelled(s)
  BY <1>5, <1>6 DEF SaveCancelled, At, Goto
<1>7. CASE SaveArchived(s)
  BY <1>5, <1>7 DEF SaveArchived, At, Goto
<1>8. CASE SaveUnarchived(s)
  BY <1>5, <1>8 DEF SaveUnarchived, At, Goto
<1>9. CASE AwardTokens(s)
  BY <1>1, <1>9 DEF AwardTokens, At, Goto
<1>10. ASSUME NEW v \in Variants, ReturnItem(s, v)
       PROVE  /\ \A q \in Requests : SameJob(q) /\ pc'[q] = pc[q]
              /\ orders' = orders
  BY <1>1, <1>10 DEF ReturnItem, Jobs
<1> QED
  BY <1>2, <1>3, <1>4, <1>6, <1>7, <1>8, <1>9, <1>10 DEF Continue

(* A new call on an order whose status it reads.                           *)
LEMMA CallBegins ==
  ASSUME TypeOK, NEW s \in Requests, NEW c \in Calls, NEW o \in Orders, FindOrder(s, c, o)
  PROVE  /\ pc[s] = "new" /\ pc'[s] = "loaded" /\ orders' = orders
         /\ job'[s].order = o /\ job'[s].call = c /\ job'[s].doc = orders[o]
         /\ \A q \in Requests \ {s} : SameJob(q) /\ pc'[q] = pc[q]
<1>1. /\ pc' = [pc EXCEPT ![s] = "loaded"] /\ pc[s] = "new" /\ orders' = orders
      /\ job' = [job EXCEPT ![s] = [call |-> c, order |-> o, doc |-> orders[o],
                                    returned |-> {}]]
      /\ pc \in [Requests -> PCs] /\ job \in [Requests -> Jobs]
  BY DEF FindOrder, Goto, TypeOK
<1> HIDE DEF Jobs
<1> QED
  BY <1>1 DEF SameJob

LEMMA ShownBegins ==
  ASSUME TypeOK, ShownInv,
         NEW s \in Requests, NEW c \in Calls, NEW o \in Orders, FindOrder(s, c, o)
  PROVE  ShownInv'
<1>1. /\ pc[s] = "new" /\ pc'[s] = "loaded" /\ orders' = orders
      /\ job'[s].order = o /\ job'[s].doc = orders[o]
      /\ \A q \in Requests \ {s} : SameJob(q) /\ pc'[q] = pc[q]
  BY CallBegins
<1>2. ASSUME NEW m \in Requests PROVE pc'[m] # "aborted" /\ StatusKept(m)'
  <2>1. pc[m] # "aborted" /\ StatusKept(m)
    BY DEF ShownInv
  <2>2. CASE m = s
    BY <1>1, <2>2 DEF StatusKept
  <2>3. CASE m # s
    <3>1. SameJob(m) /\ pc'[m] = pc[m]
      BY <1>1, <2>3
    <3>2. Touched(m) => Touched(m)'
      <4> SUFFICES ASSUME NEW q \in Requests \ {m}, pc[q] \notin {"new", "loaded"},
                          job[q].order = job[m].order
                   PROVE  pc'[q] \notin {"new", "loaded"} /\ job'[q].order = job'[m].order
        BY DEF Touched
      <4> QED
        BY <1>1, <3>1 DEF SameJob
    <3>3. (MovesOn(m)' <=> MovesOn(m)) /\ Announced(m)' = Announced(m)
      BY <3>1 DEF SameJob, MovesOn, Announced
    <3> QED
      BY <1>1, <2>1, <3>1, <3>2, <3>3 DEF StatusKept, SameJob
  <2> QED
    BY <2>2, <2>3
<1> QED
  BY <1>2 DEF ShownInv

LEMMA ShownGoesOn ==
  ASSUME TypeOK, ShownInv, NEW s \in Requests, Continue(s)
  PROVE  ShownInv'
<1>1. /\ \A q \in Requests : SameJob(q) /\ (q # s => pc'[q] = pc[q])
      /\ \/ orders' = orders /\ (pc'[s] = pc[s] \/ (pc[s] = "saved" /\ pc'[s] = "done"))
         \/ /\ pc[s] = "loaded" /\ pc'[s] \in {"saved", "done"}
            /\ \A o \in Orders \ {job[s].order} : orders'[o] = orders[o]
            /\ MovesOn(s) /\ orders[job[s].order].status = job[s].doc.status
                 => orders'[job[s].order].status = Announced(s)
  BY HandlerGoesOn
<1>2. ASSUME NEW m \in Requests PROVE pc'[m] # "aborted" /\ StatusKept(m)'
  <2>1. pc[m] # "aborted" /\ StatusKept(m) /\ SameJob(m) /\ job[m].order \in Orders
    BY <1>1 DEF ShownInv, TypeOK, Jobs
  <2>2. Touched(m) => Touched(m)'
    <3> SUFFICES ASSUME NEW q \in Requests \ {m}, pc[q] \notin {"new", "loaded"},
                        job[q].order = job[m].order
                 PROVE  pc'[q] \notin {"new", "loaded"} /\ job'[q].order = job'[m].order
      BY DEF Touched
    <3> QED
      BY <1>1 DEF SameJob
  <2>3. (MovesOn(m)' <=> MovesOn(m)) /\ Announced(m)' = Announced(m)
    BY <2>1 DEF SameJob, MovesOn, Announced
  <2>4. CASE orders' = orders /\ (pc'[s] = pc[s] \/ (pc[s] = "saved" /\ pc'[s] = "done"))
    <3>1. \/ pc'[m] = pc[m]
          \/ pc[m] = "saved" /\ pc'[m] = "done"
      BY <1>1, <2>4
    <3> QED
      BY <2>1, <2>2, <2>3, <2>4, <3>1 DEF StatusKept, SameJob
  <2>5. CASE /\ pc[s] = "loaded" /\ pc'[s] \in {"saved", "done"}
             /\ \A o \in Orders \ {job[s].order} : orders'[o] = orders[o]
             /\ MovesOn(s) /\ orders[job[s].order].status = job[s].doc.status
                  => orders'[job[s].order].status = Announced(s)
    <3>1. CASE m = s
      BY <2>1, <2>2, <2>3, <2>5, <3>1 DEF StatusKept, SameJob
    <3>2. CASE m # s /\ job[m].order = job[s].order
      <4>1. Touched(m)'
        BY <1>1, <2>5, <3>2 DEF Touched, SameJob
      <4> QED
        BY <1>1, <2>1, <3>2, <4>1 DEF StatusKept
    <3>3. CASE m # s /\ job[m].order # job[s].order
      <4>1. orders'[job[m].order] = orders[job[m].order] /\ pc'[m] = pc[m]
        BY <1>1, <2>1, <2>5, <3>3
      <4> QED
        BY <2>1, <2>2, <2>3, <4>1 DEF StatusKept, SameJob
    <3> QED
      BY <3>1, <3>2, <3>3
  <2> QED
    BY <1>1, <2>4, <2>5
<1> QED
  BY <1>2 DEF ShownInv

(* The message of m is out, or may be, and this does not change.           *)
Posted(m) == Posts(m) /\ (PostsBeforeSave(m) \/ pc[m] = "done")

(* The message of m may show keyboard k, and button b.                     *)
MayShow(m, k) ==
  /\ Posted(m)
  /\ \/ k = Announced(m)
     \/ Announced(m) = "initial" /\ k \in {"confirmApprove", "confirmReject"}
Offered(m, b) == \E k \in Keyboards : MayShow(m, k) /\ b \in Buttons[k]

(* Call r is what the button of press p on its message stands for.         *)
MadeBy(r, p) ==
  LET m == press[p].message
      b == press[p].button IN
  /\ r # m /\ pc[r] # "new" /\ press[p].at # "unused" /\ b \in DOMAIN OrderCall
  /\ job[r].call = OrderCall[b] /\ job[r].order = job[m].order

ButtonInv ==
  /\ \A m \in Requests : message[m] \in Keyboards => MayShow(m, message[m])
  /\ \A p \in Presses :
       press[p].at # "unused" => Offered(press[p].message, press[p].button)
  /\ \A r \in Requests : cause[r] # NoPress => MadeBy(r, cause[r])

(* A step of the order service leaves what the messages say.               *)
OrdersGoOn ==
  /\ \A q \in Requests : pc[q] # "new" => pc'[q] # "new" /\ SameJob(q)
  /\ \A q \in Requests : pc[q] = "done" => pc'[q] = "done"

LEMMA OfferedStays ==
  ASSUME OrdersGoOn, NEW m \in Requests
  PROVE  /\ \A k : MayShow(m, k) => MayShow(m, k)'
         /\ \A b : Offered(m, b) => Offered(m, b)'
<1>1. ASSUME Posted(m) PROVE Posted(m)' /\ Announced(m)' = Announced(m)
  <2>1. pc'[m] # "new" /\ SameJob(m) /\ (pc[m] = "done" => pc'[m] = "done")
    BY <1>1 DEF OrdersGoOn, Posted, Posts
  <2> QED
    BY <1>1, <2>1 DEF Posted, Posts, PostsBeforeSave, SameJob, Announced
<1>2. ASSUME NEW k, MayShow(m, k) PROVE MayShow(m, k)'
  BY <1>1, <1>2 DEF MayShow
<1>3. ASSUME NEW b, Offered(m, b) PROVE Offered(m, b)'
  BY <1>2, <1>3 DEF Offered
<1> QED
  BY <1>2, <1>3

LEMMA OrdersGoOnAt ==
  ASSUME TypeOK, NEW s \in Requests,
         (\E c \in Calls, o \in Orders : FindOrder(s, c, o)) \/ Continue(s)
  PROVE  OrdersGoOn
<1>1. CASE \E c \in Calls, o \in Orders : FindOrder(s, c, o)
  BY <1>1, CallBegins DEF OrdersGoOn
<1>2. CASE Continue(s)
  <2>1. \A q \in Requests : SameJob(q) /\ (q # s => pc'[q] = pc[q])
    BY <1>2, HandlerGoesOn
  <2>2. pc'[s] \in {"saved", "done", pc[s]} /\ (pc[s] = "done" => pc'[s] = "done")
    BY <1>2, HandlerGoesOn
  <2> QED
    BY <2>1, <2>2 DEF OrdersGoOn
<1> QED
  BY <1>1, <1>2

(* A press that is under way keeps its message and its button.             *)
PressesKept ==
  \A p \in Presses : press[p].at # "unused" =>
    /\ press'[p].at # "unused"
    /\ press'[p].message = press[p].message /\ press'[p].button = press[p].button

LEMMA MadeByStays ==
  ASSUME ReviewTypeOK, OrdersGoOn, PressesKept,
         NEW r \in Requests, NEW p \in Presses, MadeBy(r, p),
         pc[press[p].message] # "new"
  PROVE  MadeBy(r, p)'
<1>1. press[p].message \in Requests
  BY DEF ReviewTypeOK
<1>2. /\ press'[p].at # "unused" /\ press'[p].message = press[p].message
      /\ press'[p].button = press[p].button
  BY DEF PressesKept, MadeBy
<1>3. SameJob(press[p].message) /\ SameJob(r) /\ pc'[r] # "new"
  BY <1>1 DEF OrdersGoOn, MadeBy
<1> QED
  BY <1>2, <1>3 DEF MadeBy, SameJob

(* What remains to be shown of a step.                                     *)
LEMMA ButtonsAfter ==
  ASSUME ReviewTypeOK, ButtonInv, OrdersGoOn, PressesKept,
         \A m \in Requests : message'[m] \in Keyboards /\ message'[m] # message[m]
                              => MayShow(m, message[m])',
         \A p \in Presses : press[p].at = "unused" /\ press'[p].at # "unused"
                             => Offered(press[p].message, press[p].button)',
         \A r \in Requests : cause'[r] # cause[r] => MadeBy(r, cause[r])'
  PROVE  ButtonInv'
<1>1. ASSUME NEW m \in Requests, message'[m] \in Keyboards PROVE MayShow(m, message[m])'
  <2>1. CASE message'[m] = message[m]
    <3>1. MayShow(m, message[m])
      BY <1>1, <2>1 DEF ButtonInv
    <3>2. PICK k : k = message[m]
      OBVIOUS
    <3>3. MayShow(m, k)'
      BY <3>1, <3>2, OfferedStays
    <3> QED
      BY <2>1, <3>2, <3>3 DEF MayShow
  <2> QED
    BY <1>1, <2>1
<1>2. ASSUME NEW p \in Presses, press'[p].at # "unused"
      PROVE  Offered(press[p].message, press[p].button)'
  <2>1. CASE press[p].at # "unused"
    <3>0. PICK b : b = press[p].button
      OBVIOUS
    <3>1. PICK m \in Requests : m = press[p].message
      BY DEF ReviewTypeOK
    <3>2. Offered(m, b)
      BY <2>1, <3>0, <3>1 DEF ButtonInv
    <3>3. Offered(m, b)'
      BY <3>2, OfferedStays
    <3>4. press'[p].message = m /\ press'[p].button = b
      BY <2>1, <3>0, <3>1 DEF PressesKept
    <3> QED
      BY <3>3, <3>4
  <2> QED
    BY <1>2, <2>1
<1>3. ASSUME NEW r \in Requests, cause'[r] # NoPress PROVE MadeBy(r, cause[r])'
  <2>1. CASE cause'[r] = cause[r]
    <3>1. PICK p \in Presses : p = cause[r]
      BY <1>3, <2>1 DEF ReviewTypeOK
    <3>2. MadeBy(r, p)
      BY <1>3, <2>1, <3>1 DEF ButtonInv
    <3>3. pc[press[p].message] # "new"
      BY <3>2 DEF ButtonInv, MadeBy, Offered, MayShow, Posted, Posts
    <3>4. MadeBy(r, p)'
      BY <3>2, <3>3, MadeByStays
    <3> QED
      BY <2>1, <3>1, <3>4 DEF MadeBy
  <2> QED
    BY <1>3, <2>1
<1> QED
  BY <1>1, <1>2, <1>3 DEF ButtonInv

LEMMA OrdersAtRest == ASSUME UNCHANGED vars PROVE OrdersGoOn
BY DEF vars, OrdersGoOn, SameJob

LEMMA ButtonsOfTheOrders ==
  ASSUME ReviewTypeOK, ButtonInv, NEW s \in Requests,
         (\E c \in Calls, o \in Orders : FindOrder(s, c, o)) \/ Continue(s),
         UNCHANGED <<message, press, cause>>
  PROVE  ButtonInv'
<1>1. OrdersGoOn /\ PressesKept
  BY OrdersGoOnAt DEF ReviewTypeOK, PressesKept
<1> QED
  BY <1>1, ButtonsAfter

(* A message that is sent shows what is announced.                         *)
LEMMA ButtonsPost ==
  ASSUME ReviewTypeOK, ButtonInv, NEW r \in Requests, Post(r)
  PROVE  ButtonInv'
<1>1. UNCHANGED vars /\ UNCHANGED <<press, cause>> /\ Posted(r)
  BY DEF Post, Posted
<1>2. PICK k \in {Announced(r), "gone"} : message' = [message EXCEPT ![r] = k]
  BY DEF Post, Announced
<1>3. OrdersGoOn /\ PressesKept
  BY <1>1, OrdersAtRest DEF PressesKept
<1>4. MayShow(r, Announced(r)) /\ MayShow(r, Announced(r))'
  BY <1>1 DEF vars, MayShow, Posted, Posts, PostsBeforeSave, Announced
<1>5. "gone" \notin Keyboards
  BY DEF Keyboards, Buttons
<1>6. \A m \in Requests : message'[m] \in Keyboards /\ message'[m] # message[m]
        => m = r /\ message'[m] = Announced(r)
  BY <1>2, <1>5 DEF ReviewTypeOK
<1>7. Announced(r)' = Announced(r)
  BY <1>1 DEF vars, Announced
<1>8. \A m \in Requests : message'[m] \in Keyboards /\ message'[m] # message[m]
        => MayShow(m, message[m])'
  BY <1>4, <1>6, <1>7 DEF MayShow
<1> QED
  BY <1>1, <1>3, <1>8, ButtonsAfter

(* A press is of a button that is shown.                                   *)
LEMMA ButtonsPress ==
  ASSUME ReviewTypeOK, ButtonInv, NEW p \in Presses, NEW m \in Requests,
         NEW b \in DOMAIN Turns \cup DOMAIN OrderCall, Press(p, m, b)
  PROVE  ButtonInv'
<1>1. /\ UNCHANGED vars /\ UNCHANGED <<message, cause>> /\ press[p].at = "unused"
      /\ press' = [press EXCEPT ![p] = [at |-> "queued", message |-> m, button |-> b]]
      /\ message[m] \in Keyboards /\ b \in Buttons[message[m]]
  BY DEF Press
<1>2. OrdersGoOn /\ PressesKept
  <2>1. \A q \in Presses \ {p} : press'[q] = press[q]
    BY <1>1 DEF ReviewTypeOK
  <2> QED
    BY <1>1, <2>1, OrdersAtRest DEF PressesKept
<1>3. Offered(m, b)
  BY <1>1 DEF ButtonInv, Offered
<1>4. Offered(m, b)'
  BY <1>2, <1>3, OfferedStays
<1>5. press'[p].message = m /\ press'[p].button = b
      /\ \A q \in Presses \ {p} : press'[q] = press[q]
  BY <1>1 DEF ReviewTypeOK
<1>6. \A q \in Presses : press[q].at = "unused" /\ press'[q].at # "unused"
        => Offered(press[q].message, press[q].button)'
  BY <1>4, <1>5
<1> QED
  BY <1>1, <1>2, <1>6, ButtonsAfter

(* A delivery of a press keeps what is pressed.                            *)
LEMMA DeliveryKeeps ==
  ASSUME ReviewTypeOK, NEW p \in Presses, NEW at \in PressStates \ {"unused"},
         Became(p, at), press[p].at # "unused"
  PROVE  /\ PressesKept
         /\ \A q \in Presses : ~ (press[q].at = "unused" /\ press'[q].at # "unused")
<1>1. press' = [press EXCEPT ![p].at = at]
  BY DEF Became
<1>2. /\ press'[p].at = at /\ press'[p].message = press[p].message
      /\ press'[p].button = press[p].button
      /\ \A q \in Presses \ {p} : press'[q] = press[q]
  BY <1>1 DEF ReviewTypeOK
<1> QED
  BY <1>2 DEF PressesKept

(* The keyboard of a review turns to another keyboard of the review.       *)
LEMMA ButtonsTurn ==
  ASSUME ReviewTypeOK, ButtonInv, NEW p \in Presses, Turn(p)
  PROVE  ButtonInv'
<1> DEFINE m == press[p].message
           b == press[p].button
           k == Turns[b]
<1>1. /\ UNCHANGED vars /\ UNCHANGED cause /\ press[p].at = "queued"
      /\ message' = [message EXCEPT ![m] = k] /\ Became(p, "touched")
      /\ b \in DOMAIN Turns /\ m \in Requests
  BY DEF Turn, ReviewTypeOK
<1>2. PressesKept /\ \A q \in Presses : ~ (press[q].at = "unused" /\ press'[q].at # "unused")
  BY <1>1, DeliveryKeeps DEF PressStates
<1>3. Offered(m, b)
  BY <1>1 DEF ButtonInv
<1>4. Posted(m) /\ Announced(m) = "initial"
  <2>1. b \in {"approve_step1", "reject_step1", "cancel"}
    BY <1>1 DEF Turns
  <2> HIDE DEF b, m
  <2>2. PICK l \in Keyboards : MayShow(m, l) /\ b \in Buttons[l]
    BY <1>3 DEF Offered
  <2>3. l \in {"initial", "confirmApprove", "confirmReject"}
    BY <2>1, <2>2 DEF Keyboards, Buttons
  <2>4. Announced(m) \notin {"confirmApprove", "confirmReject"}
    BY DEF Announced, Announces, None
  <2> QED
    BY <2>2, <2>3, <2>4 DEF MayShow
<1>5. k \in {"initial", "confirmApprove", "confirmReject"}
  BY <1>1 DEF Turns
<1> HIDE DEF m, b, k
<1>6. OrdersGoOn
  BY <1>1, OrdersAtRest
<1>7. \A l \in {"initial", "confirmApprove", "confirmReject"} : MayShow(m, l)
  BY <1>4 DEF MayShow
<1>8. ASSUME NEW n \in Requests, message'[n] # message[n] PROVE MayShow(n, message[n])'
  <2>1. n = m /\ message'[n] = k
    BY <1>1, <1>8 DEF ReviewTypeOK
  <2>2. PICK l \in {"initial", "confirmApprove", "confirmReject"} : l = k
    BY <1>5
  <2>3. MayShow(n, l)'
    BY <1>6, <1>7, <2>1, OfferedStays
  <2> QED
    BY <2>1, <2>2, <2>3 DEF MayShow
<1> QED
  BY <1>1, <1>2, <1>6, <1>8, ButtonsAfter

LEMMA ButtonsDelete ==
  ASSUME ReviewTypeOK, ButtonInv, NEW p \in Presses,
         Delete(p) \/ Answer(p) \/ FailAnswer(p)
  PROVE  ButtonInv'
<1>1. /\ UNCHANGED vars /\ UNCHANGED cause /\ press[p].at # "unused"
      /\ \E at \in PressStates \ {"unused"} : Became(p, at)
      /\ \A m \in Requests : message'[m] \in {message[m], "gone"}
  BY DEF Delete, Answer, FailAnswer, PressStates, ReviewTypeOK
<1>2. PressesKept /\ \A q \in Presses : ~ (press[q].at = "unused" /\ press'[q].at # "unused")
  BY <1>1, DeliveryKeeps
<1>3. "gone" \notin Keyboards
  BY DEF Keyboards, Buttons
<1> QED
  BY <1>1, <1>2, <1>3, OrdersAtRest, ButtonsAfter

(* The order call of a press.                                              *)
LEMMA ButtonsAct ==
  ASSUME ActInv, ButtonInv, NEW p \in Presses, NEW r \in Requests, Act(p, r)
  PROVE  ButtonInv'
<1> DEFINE m == press[p].message
           b == press[p].button
           o == job[m].order
           c == OrderCall[b]
<1>1. /\ press[p].at = "answered" /\ cause' = [cause EXCEPT ![r] = p]
      /\ FindOrder(r, c, o) /\ Became(p, "done") /\ message' = message
      /\ ReviewTypeOK /\ TypeOK /\ m \in Requests /\ b \in DOMAIN OrderCall
  BY DEF Act, ActInv, AnsweredActs, ReviewTypeOK
<1>2. c \in Calls /\ o \in Orders
  BY <1>1, TelegramAssumption DEF TypeOK, Jobs
<1>3. PressesKept /\ \A q \in Presses : ~ (press[q].at = "unused" /\ press'[q].at # "unused")
  BY <1>1, DeliveryKeeps DEF PressStates
<1>4. OrdersGoOn
  BY <1>1, <1>2, OrdersGoOnAt
<1>5. Offered(m, b)
  BY <1>1 DEF ButtonInv
<1>6. pc[m] # "new"
  BY <1>5 DEF Offered, MayShow, Posted, Posts
<1>7. /\ pc[r] = "new" /\ pc'[r] = "loaded" /\ job'[r].order = o /\ job'[r].call = c
      /\ \A q \in Requests \ {r} : SameJob(q)
  BY <1>1, <1>2, CallBegins
<1>8. /\ r # m /\ job'[m].order = o
      /\ press'[p].message = m /\ press'[p].button = b /\ press'[p].at # "unused"
  BY <1>1, <1>3, <1>6, <1>7 DEF SameJob, PressesKept
<1> HIDE DEF m, b, c, o
<1>9. cause'[r] = p /\ \A q \in Requests \ {r} : cause'[q] = cause[q]
  BY <1>1 DEF ReviewTypeOK
<1>10. MadeBy(r, p)'
  BY <1>1, <1>7, <1>8 DEF MadeBy, c
<1>11. \A q \in Requests : cause'[q] # cause[q] => MadeBy(q, cause[q])'
  BY <1>9, <1>10 DEF MadeBy
<1> QED
  BY <1>1, <1>3, <1>4, <1>11, ButtonsAfter

LEMMA ButtonInit == ReviewInit => ShownInv /\ ButtonInv
<1> SUFFICES ASSUME ReviewInit PROVE ShownInv /\ ButtonInv
  OBVIOUS
<1>1. \A r \in Requests : pc[r] = "new" /\ message[r] = "unsent" /\ cause[r] = NoPress
  BY DEF ReviewInit, Init
<1>2. \A p \in Presses : press[p].at = "unused"
  BY DEF ReviewInit
<1>3. "unsent" \notin Keyboards
  BY DEF Keyboards, Buttons
<1>4. ShownInv
  BY <1>1 DEF ShownInv, StatusKept
<1> QED
  BY <1>1, <1>2, <1>3, <1>4 DEF ButtonInv

LEMMA ButtonStep ==
  ASSUME ActInv, ShownInv, ButtonInv, [ReviewNext]_reviewVars
  PROVE  ShownInv' /\ ButtonInv'
<1>0. ReviewTypeOK /\ TypeOK /\ AnsweredActs
  BY DEF ActInv, ReviewTypeOK
<1>1. ASSUME UNCHANGED vars PROVE ShownInv'
  BY <1>1 DEF vars, ShownInv, StatusKept, Touched, MovesOn, Announced
<1>2. ASSUME NEW r \in Requests, NEW c \in RouteCalls, NEW o \in Orders, RouteCall(r, c, o)
      PROVE  ShownInv' /\ ButtonInv'
  <2>1. c \in Calls /\ FindOrder(r, c, o) /\ UNCHANGED <<message, press, cause>>
    BY <1>2, TelegramAssumption DEF RouteCall, telegram
  <2> QED
    BY <1>0, <2>1, ShownBegins, ButtonsOfTheOrders
<1>3. ASSUME NEW r \in Requests, Proceed(r) PROVE ShownInv' /\ ButtonInv'
  <2>1. Continue(r) /\ UNCHANGED <<message, press, cause>>
    BY <1>3 DEF Proceed, telegram
  <2> QED
    BY <1>0, <2>1, ShownGoesOn, ButtonsOfTheOrders
<1>4. ASSUME NEW r \in Requests, Post(r) PROVE ShownInv' /\ ButtonInv'
  <2>1. UNCHANGED vars
    BY <1>4 DEF Post
  <2> QED
    BY <1>0, <1>1, <1>4, <2>1, ButtonsPost
<1>5. ASSUME NEW p \in Presses, NEW r \in Requests, Act(p, r) PROVE ShownInv' /\ ButtonInv'
  <2> DEFINE o == job[press[p].message].order
             c == OrderCall[press[p].button]
  <2>1. FindOrder(r, c, o) /\ c \in Calls /\ o \in Orders
    BY <1>0, <1>5, TelegramAssumption DEF Act, AnsweredActs, ReviewTypeOK, TypeOK, Jobs
  <2> HIDE DEF o, c
  <2>2. ShownInv'
    BY <1>0, <2>1, ShownBegins
  <2> QED
    BY <1>5, <2>2, ButtonsAct
<1>6. ASSUME NEW p \in Presses, NEW m \in Requests,
             NEW b \in DOMAIN Turns \cup DOMAIN OrderCall, Press(p, m, b)
      PROVE  ShownInv' /\ ButtonInv'
  BY <1>0, <1>1, <1>6, ButtonsPress DEF Press
<1>7. ASSUME NEW p \in Presses, Turn(p) PROVE ShownInv' /\ ButtonInv'
  BY <1>0, <1>1, <1>7, ButtonsTurn DEF Turn
<1>8. ASSUME NEW p \in Presses, Delete(p) \/ Answer(p) \/ FailAnswer(p)
      PROVE  ShownInv' /\ ButtonInv'
  <2>1. UNCHANGED vars
    BY <1>8 DEF Delete, Answer, FailAnswer
  <2> QED
    BY <1>0, <1>1, <1>8, <2>1, ButtonsDelete
<1>9. CASE UNCHANGED reviewVars
  <2>1. UNCHANGED vars /\ UNCHANGED <<message, press, cause>>
    BY <1>9 DEF reviewVars, vars
  <2>2. OrdersGoOn /\ PressesKept
    BY <2>1, OrdersAtRest DEF PressesKept
  <2> QED
    BY <1>0, <1>1, <2>1, <2>2, ButtonsAfter
<1> QED
  BY <1>2, <1>3, <1>4, <1>5, <1>6, <1>7, <1>8, <1>9 DEF ReviewNext

(* The call of a status button, when it saves.                             *)
LEMMA ButtonFinds ==
  ASSUME ActInv, ShownInv, ButtonInv, NEW r \in Requests,
         cause[r] # NoPress, At(r, "loaded", "updateStatus")
  PROVE  LET m == press[cause[r]].message
             o == job[r].order
             verification == job[m].call.op = "updatePaymentProof" IN
         \/ orders[o].status = Announces(job[m].call, job[m].doc)
         \/ verification /\ (pc[m] = "loaded" \/ job[m].doc.status # "esperando_pago")
         \/ \E q \in Requests \ {m, r} : pc[q] # "new" /\ job[q].order = o
<1> DEFINE m == press[cause[r]].message
           b == press[cause[r]].button
           o == job[r].order
<1>1. /\ MadeBy(r, cause[r]) /\ m \in Requests /\ cause[r] \in Presses
      /\ pc[r] = "loaded" /\ job[r].call.op = "updateStatus"
  BY DEF ActInv, ReviewTypeOK, ButtonInv, At
<1>2. /\ r # m /\ b \in DOMAIN OrderCall /\ OrderCall[b].op = "updateStatus"
      /\ o = job[m].order /\ Offered(m, b)
  BY <1>1 DEF MadeBy, ButtonInv
<1>3. b \in {"move_produccion", "move_enviada", "move_completada"}
  BY <1>2 DEF OrderCall, Review
<1> HIDE DEF m, b, o
<1>4. PICK k \in Keyboards : MayShow(m, k) /\ b \in Buttons[k]
  BY <1>2 DEF Offered
<1>5. k \in {"pagada", "en_produccion", "enviada"}
  BY <1>3, <1>4 DEF Keyboards, Buttons
<1>6. k = Announced(m) /\ Posted(m)
  BY <1>4, <1>5 DEF MayShow
<1>7. pc[m] \in PCs \ {"new", "aborted"} /\ StatusKept(m)
  BY <1>1, <1>6 DEF Posted, Posts, ShownInv, ActInv, ReviewTypeOK, TypeOK
<1>8. CASE Touched(m)
  <2>1. PICK q \in Requests \ {m} : pc[q] \notin {"new", "loaded"} /\ job[q].order = job[m].order
    BY <1>8 DEF Touched
  <2>2. q # r
    BY <1>1, <2>1
  <2> QED
    BY <1>2, <2>1, <2>2 DEF m, o
<1>9. CASE ~ Touched(m) /\ job[m].call.op = "updatePaymentProof"
  <2>1. CASE pc[m] = "loaded" \/ job[m].doc.status # "esperando_pago"
    BY <1>9, <2>1 DEF m
  <2>2. CASE pc[m] # "loaded" /\ job[m].doc.status = "esperando_pago"
    <3>1. MovesOn(m)
      BY <1>5, <1>6, <2>2 DEF MovesOn
    <3>2. pc[m] \in {"saved", "done"}
      BY <1>7, <2>2 DEF PCs
    <3> QED
      BY <1>2, <1>7, <1>9, <3>1, <3>2 DEF StatusKept, Announced, m, o
  <2> QED
    BY <2>1, <2>2
<1>10. CASE ~ Touched(m) /\ job[m].call.op # "updatePaymentProof"
  <2>1. pc[m] = "done"
    BY <1>6, <1>10 DEF Posted, PostsBeforeSave
  <2>2. MovesOn(m)
    BY <1>5, <1>6, <1>10 DEF MovesOn, Announced, Announces, None
  <2> QED
    BY <1>2, <1>7, <1>10, <2>1, <2>2 DEF StatusKept, Announced, m, o
<1> QED
  BY <1>8, <1>9, <1>10

(* A status button moves the order on from the status its message shows,   *)
(* unless a third call has come between or the message was of a            *)
(* verification not saved yet, or of an order that did not wait for it.    *)
THEOREM ButtonsMoveOn == ReviewSpec => ButtonMovesShown
<1> DEFINE FromShown ==
      \A r \in Requests :
        LET m == press[cause[r]].message
            o == job[r].order
            verification == job[m].call.op = "updatePaymentProof" IN
        /\ cause[r] # NoPress
        /\ At(r, "loaded", "updateStatus")
        /\ pc'[r] # "loaded"
        => \/ orders[o].status = Announces(job[m].call, job[m].doc)
           \/ verification /\ \/ pc[m] = "loaded"
                              \/ job[m].doc.status # "esperando_pago"
           \/ \E q \in Requests \ {m, r} :
                pc[q] # "new" /\ job[q].order = o
<1>1. ActInv /\ ShownInv /\ ButtonInv => FromShown
  BY ButtonFinds
<1> HIDE DEF FromShown
<1>2. /\ ReviewInit => ActInv /\ ShownInv /\ ButtonInv
      /\ ActInv /\ ShownInv /\ ButtonInv /\ [ReviewNext]_reviewVars
           => (ActInv /\ ShownInv /\ ButtonInv)'
  BY ActInvInit, ActInvStep, ButtonInit, ButtonStep
<1>3. ReviewSpec => [][FromShown]_reviewVars
  BY <1>1, <1>2, PTL DEF ReviewSpec
<1> QED
  BY <1>3 DEF ButtonMovesShown, FromShown
=============================================================================
