----------------------------- MODULE QuotesProps -----------------------------
(***************************************************************************)
(* Correctness of the quotes: properties of module Quotes, and the         *)
(* refinement of QuoteLifecycle.                                           *)
(***************************************************************************)
EXTENDS Quotes

(* No client answers, and no job expires, a quote without a price and a    *)
(* date, whatever overlaps: a price is saved with its status and date, and *)
(* answers and expiry start from a quote that was sent.                    *)
AnsweredPriced ==
  \A q \in Quotes :
    quotes[q].status \in {"sent", "accepted", "rejected", "expired"} =>
      Priced(quotes[q])

(* A reference leads to one quote, also when two requests draw the same    *)
(* free code, or take the same time stamp, before either inserts.          *)
UniqueReferences == Distinct(quotes)

(* When nobody works on a quote while another does, requests and the job   *)
(* implement the atomic life cycle: answers only to sent quotes, prices    *)
(* only before an answer, expiry only after the date.                      *)
Lifecycle == INSTANCE QuoteLifecycle

ImplementsLifecycle == Lifecycle!Spec

(* Overdue quotes do not stay open: the daily job expires them, unless an  *)
(* answer or a new price comes first.                                      *)
OverdueResolved ==
  \A q \in Quotes : Overdue(quotes[q], now) ~> ~ Overdue(quotes[q], now)
=============================================================================
