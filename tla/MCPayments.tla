----------------------------- MODULE MCPayments -----------------------------
(***************************************************************************)
(* Instances of the payments for TLC: two attempts to pay, whose reports   *)
(* overlap with what a customer and an administrator do to the orders.     *)
(***************************************************************************)
EXTENDS PaymentsProps, OrdersProps, TLC

CONSTANTS o1, o2, v1, u1, r1

MCOwner == [o \in Orders |-> IF o = o1 THEN u1 ELSE Guest]
MCQty == [o \in Orders |-> v1 :> 1]
MCStock == v1 :> 0

(* Only a capture is delivered again.                                     *)
MCCopies == [kind \in Kinds |-> IF kind = "captured" THEN 2 ELSE 1]

MCRequests == People \cup {StatusOf(d) : d \in Deliveries}
                     \cup {ProofOf(d) : d \in Deliveries}

(* A customer's upload, and what an administrator does.                    *)
Upload == [op |-> "updatePaymentProof", url |-> "file1", method |-> "sinpe",
           status |-> "pending", reason |-> None]

MCPeopleCalls ==
  {Upload, [op |-> "cancelOrder"], [op |-> "archiveOrder"],
   [op |-> "updateStatus", to |-> "en_produccion"],
   [op |-> "updateStatus", to |-> "completada"]}

MCCalls == MCPeopleCalls \cup {Paid} \cup {ProofCall(k) : k \in Kinds}
=============================================================================
