--------------------------- MODULE PaymentsProps ----------------------------
(***************************************************************************)
(* Correctness of the payments: properties of module Payments.             *)
(***************************************************************************)
EXTENDS Payments

CapturedFor(o) ==
  {a \in Attempts : attempts[a].at = "captured" /\ attempts[a].order = o}

(* The calls by which people mark an order paid.                           *)
MarksPaid(c) ==
  \/ c.op \in {"updateStatus", "updateTracking", "unarchiveOrder"}
  \/ c.op = "updatePaymentProof" /\ c.status = "verified"

(* Unless a person marks it, an order only becomes paid when the gateway   *)
(* captured a payment of that very order: failed and deferred sessions,    *)
(* reports of other orders, and saves that overlap them do not pay it.     *)
PaidByCapture ==
  [][\A o \in Orders :
       /\ orders[o].status \notin PaidStatuses
       /\ orders'[o].status \in PaidStatuses
       => \/ CapturedFor(o) # {}
          \/ \E r \in People : /\ pc[r] = "loaded"
                               /\ job[r].order = o
                               /\ MarksPaid(job[r].call)]_pvars

(* Without failures, the report of a captured payment marks its order      *)
(* pagada, and its proof verified, at some moment after the capture,       *)
(* whatever overlapping requests and other reports save in between.        *)
CapturePays ==
  \A d \in Deliveries : d[2] \in Captures =>
    (<<d[1], d[2]>> \in reports /\ d[3] = 1 /\ ~ Started(d))
      ~> (orders[attempts[d[1]].order].status = "pagada")

CaptureVerifies ==
  \A d \in Deliveries : d[2] = "captured" =>
    (<<d[1], d[2]>> \in reports /\ d[3] = 1 /\ pc[ProofOf(d)] = "new")
      ~> (orders[attempts[d[1]].order].proof.status = "verified")
=============================================================================
