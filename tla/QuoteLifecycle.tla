--------------------------- MODULE QuoteLifecycle ---------------------------
(***************************************************************************)
(* What QuotesService and the expiry job promise: a quote is priced, maybe *)
(* again, until it is answered or its date passes, and every step takes    *)
(* effect at one instant on the quote as it is.  Module Quotes implements  *)
(* this when nobody works on a quote while another does.                   *)
(***************************************************************************)
EXTENDS QuoteTypes

VARIABLES quotes, now

vars == <<quotes, now>>

Init == quotes = InitQuotes /\ now = 0

Step(q, doc) == quotes' = [quotes EXCEPT ![q] = doc] /\ UNCHANGED now

Create(q, user, ref) ==
  /\ quotes[q].status = None
  /\ \A p \in Quotes : quotes[p].ref # ref
  /\ Step(q, Pending(user, ref))

SetPrice(q, price) ==
  /\ Priceable(quotes[q])
  /\ Step(q, WithPrice(quotes[q], price, now))

Accept(q) ==
  /\ Answerable(quotes[q])
  /\ Step(q, Accepted(quotes[q]))

Reject(q, reason) ==
  /\ Answerable(quotes[q])
  /\ Step(q, Rejected(quotes[q], reason))

MarkConverted(q, order) ==
  /\ quotes[q].status # None
  /\ Step(q, Converted(quotes[q], order))

Expire(q) ==
  /\ Overdue(quotes[q], now)
  /\ Step(q, Expired(quotes[q]))

Tick == now < MaxNow /\ now' = now + 1 /\ UNCHANGED quotes

Next ==
  \/ Tick
  \/ \E q \in Quotes :
       \/ \E u \in Users \cup {Guest}, ref \in Refs : Create(q, u, ref)
       \/ \E price \in Prices : SetPrice(q, price)
       \/ Accept(q)
       \/ \E reason \in Reasons \cup {None} : Reject(q, reason)
       \/ \E order \in Orders : MarkConverted(q, order)
       \/ Expire(q)

Spec == Init /\ [][Next]_vars
=============================================================================
