----------------------------- MODULE QuoteTypes -----------------------------
(***************************************************************************)
(* The Quote document (database/schemas.ts) and what the handlers of       *)
(* quotes/quotes.service.ts and the expiry job of                          *)
(* scheduled-tasks/scheduled-tasks.service.ts compute from a loaded copy,  *)
(* shared by the handler level specification Quotes and the atomic one     *)
(* QuoteLifecycle.                                                         *)
(*                                                                         *)
(* A price, a rejection reason, an order id and a reference code are       *)
(* values of small sets; time is counted in days.  The request's design,   *)
(* contact data and the dates sentAt and respondedAt, which no handler     *)
(* reads, are left out.                                                    *)
(***************************************************************************)
EXTENDS Integers, FiniteSets

CONSTANTS
  Quotes,       \* quote ids, used or still free
  Users,        \* registered users
  Guest,        \* the owner of a quote without a user
  Prices,       \* prices an administrator sets
  Reasons,      \* reasons of a rejection
  Orders,       \* orders a quote is converted to
  Codes,        \* random reference codes
  Stamps,       \* reference codes made of the time, the fallback
  Term,         \* days a priced quote is valid, 7 in the code
  MaxNow,       \* bound on the days that pass
  InitQuotes    \* the collection "quotes" when the model starts

None == "none"
NoDate == -1

Statuses == {"pending", "sent", "accepted", "rejected", "converted", "expired"}

Refs == Codes \cup Stamps

QuoteDocs == [ref       : Refs \cup {None},
              user      : Users \cup {Guest},
              status    : Statuses \cup {None},
              price     : Prices \cup {None},
              reason    : Reasons \cup {None},
              expiresAt : 0..(MaxNow + Term) \cup {NoDate},
              order     : Orders \cup {None}]

(* A quote as create inserts it.                                           *)
Pending(user, ref) ==
  [ref |-> ref, user |-> user, status |-> "pending", price |-> None,
   reason |-> None, expiresAt |-> NoDate, order |-> None]

(* An id that is not in the collection.                                    *)
NoQuote == [Pending(Guest, None) EXCEPT !.status = None]

(* Every quote that was priced keeps a price and a date.                   *)
Priced(doc) == doc.price # None /\ doc.expiresAt # NoDate

Distinct(docs) ==
  \A q1, q2 \in Quotes :
    q1 # q2 /\ docs[q1].ref # None => docs[q1].ref # docs[q2].ref

ASSUME QuotesAssumption ==
  /\ Guest \notin Users
  /\ None \notin Refs \cup Prices \cup Orders
  /\ Term \in Nat /\ MaxNow \in Nat
  /\ InitQuotes \in [Quotes -> QuoteDocs]
  /\ \A q \in Quotes : /\ InitQuotes[q].status \in {None, "pending", "sent"}
                       /\ InitQuotes[q].status = "sent" => Priced(InitQuotes[q])
                       /\ InitQuotes[q].status = None => InitQuotes[q] = NoQuote
  /\ Distinct(InitQuotes)

-----------------------------------------------------------------------------
(* setPrice refuses a quote that is neither pending nor sent.              *)
Priceable(doc) == doc.status \in {"pending", "sent"}

(* Faulty variant: a quote that has no price yet can be answered.          *)
AnswerableUnpriced(doc) == doc.status \in {"pending", "sent"}

(* Only a sent quote is accepted or rejected.                              *)
Answerable(doc) == doc.status = "sent"

(* The query of the expiry job.                                            *)
Overdue(doc, now) ==
  doc.status = "sent" /\ doc.expiresAt # NoDate /\ doc.expiresAt < now

(* What the handlers make of a document.                                   *)
WithPrice(doc, price, now) ==
  [doc EXCEPT !.status = "sent", !.price = price, !.expiresAt = now + Term]

Accepted(doc) == [doc EXCEPT !.status = "accepted"]

Rejected(doc, reason) == [doc EXCEPT !.status = "rejected", !.reason = reason]

Converted(doc, order) == [doc EXCEPT !.status = "converted", !.order = order]

Expired(doc) == [doc EXCEPT !.status = "expired"]
=============================================================================
