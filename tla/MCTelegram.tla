----------------------------- MODULE MCTelegram -----------------------------
(***************************************************************************)
(* The order service with its Telegram group, for TLC.                     *)
(***************************************************************************)
EXTENDS TelegramProps, TLC

CONSTANTS o1, v1, u1

MCOwner == [o \in Orders |-> u1]
MCQty == [o \in Orders |-> v1 :> 2]
MCStock == v1 :> 3

Upload == [op |-> "updatePaymentProof", url |-> "file1", method |-> None,
           status |-> "pending", reason |-> None]

MCRouteCalls == {Upload, Review("verified", None), Move("en_produccion"),
                 [op |-> "cancelOrder"]}
MCCalls == MCRouteCalls \cup {OrderCall[b] : b \in DOMAIN OrderCall}

(* The bound on the routes: an upload and what the buttons make of it, or  *)
(* the calls of the gateway and of the administrator, but not both.        *)
Routed(calls) ==
  \E r \in Requests : pc'[r] # "new" /\ cause'[r] = NoPress /\ job'[r].call \in calls

MCNext ==
  /\ ReviewNext
  /\ ~ (Routed({Upload}) /\ Routed(MCRouteCalls \ {Upload}))

MCSpec == ReviewInit /\ [][MCNext]_reviewVars /\ Persistence
=============================================================================
