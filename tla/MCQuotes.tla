------------------------------ MODULE MCQuotes ------------------------------
(***************************************************************************)
(* Instances of the quotes for TLC: a pending quote of a user, a sent one  *)
(* of a guest, and two free ids.                                           *)
(***************************************************************************)
EXTENDS QuotesProps, TLC

CONSTANTS q1, q2, q3, q4, u1

MCInitQuotes ==
  q1 :> Pending(u1, "A")
  @@ q2 :> WithPrice(Pending(Guest, "B"), "low", 0)
  @@ q3 :> NoQuote
  @@ q4 :> NoQuote

EveryCall == AllCalls

Symmetry == Permutations(Requests)
=============================================================================
