------------------------------ MODULE MCOrders ------------------------------
(***************************************************************************)
(* Instances of the order service for TLC: two orders that share a         *)
(* variant, one of a registered user and one of a guest, and the sets of   *)
(* calls of the configurations.                                            *)
(***************************************************************************)
EXTENDS OrdersProps, TLC

CONSTANTS o1, o2, v1, v2, u1

MCOwner == [o \in Orders |-> IF o = o1 THEN u1 ELSE Guest]
MCQty == [o \in Orders |-> IF o = o1 THEN v1 :> 2 @@ v2 :> 1
                                     ELSE v1 :> 1 @@ v2 :> 0]
MCStock == v1 :> 3 @@ v2 :> 0

To(status) == [op |-> "updateStatus", to |-> status]

Proof(url, method, status, reason) ==
  [op |-> "updatePaymentProof", url |-> url, method |-> method,
   status |-> status, reason |-> reason]

(* A customer's upload, a review from Telegram, gateway notices.           *)
Upload == Proof("file1", "sinpe", "pending", None)
SecondUpload == Proof("file2", None, "pending", None)
Approve == Proof(None, None, "verified", None)
Reject == Proof(None, None, "rejected", "admin")
Captured == Proof(None, "onvopay", "verified", None)
Deferred == Proof(None, "onvopay", "pending", "sinpe")
NoStatus == Proof(None, "other", None, None)

Plain(op) == [op |-> op]

Reviews == {Upload, SecondUpload, Approve, Reject, Captured, Deferred, NoStatus}

(* Everything the routes, the buttons and the webhooks can ask for.        *)
EveryCall == {To(s) : s \in Statuses} \cup Reviews \cup PlainCalls

(* The calls that meet on one order in the smaller configurations.         *)
ApprovalCalls == {Approve, To("en_produccion"), Plain("cancelOrder")}
CancelCalls == {Plain("cancelOrder"), Upload}

Symmetry == Permutations(Requests)
=============================================================================
