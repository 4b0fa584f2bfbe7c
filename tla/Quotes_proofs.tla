---------------------------- MODULE Quotes_proofs ----------------------------
(***************************************************************************)
(* Proofs about QuotesService: type correctness, that answered quotes were *)
(* priced, that references are unique, and that without overlapping work   *)
(* the handlers implement QuoteLifecycle.                                  *)
(***************************************************************************)
EXTENDS QuotesProps, TLAPS

(* What one save makes of a stored document is a document again.           *)
LEMMA MergeType ==
  ASSUME NEW stored \in QuoteDocs, NEW loaded \in QuoteDocs,
         NEW new \in QuoteDocs
  PROVE  Merge(stored, loaded, new) \in QuoteDocs
  BY DEF Merge, Delta, QuoteDocs

(* What the handlers compute from a document is a document.                *)
LEMMA ResultTypes ==
  ASSUME NEW doc \in QuoteDocs, NEW today \in 0..MaxNow
  PROVE  /\ \A price \in Prices : WithPrice(doc, price, today) \in QuoteDocs
         /\ Accepted(doc) \in QuoteDocs
         /\ \A reason \in Reasons \cup {None} :
              Rejected(doc, reason) \in QuoteDocs
         /\ \A order \in Orders : Converted(doc, order) \in QuoteDocs
         /\ Expired(doc) \in QuoteDocs
<1>1. today + Term \in 0..(MaxNow + Term)
  BY QuotesAssumption
<1> QED
  BY <1>1 DEF QuoteDocs, WithPrice, Accepted, Rejected, Converted, Expired,
              Statuses

LEMMA PendingType ==
  ASSUME NEW u \in Users \cup {Guest}, NEW ref \in Refs \cup {None}
  PROVE  /\ Pending(u, ref) \in QuoteDocs
         /\ NoQuote \in QuoteDocs
  BY DEF Pending, NoQuote, QuoteDocs, Statuses

(* The fields of a call, by its operation.                                 *)
LEMMA CallFields ==
  ASSUME NEW c \in Calls
  PROVE  /\ c.op = "create" => c.user \in Users \cup {Guest}
         /\ c.op = "setPrice" => c.price \in Prices
         /\ c.op \in {"rejectQuote", "rejectByReference"}
              => c.reason \in Reasons \cup {None}
         /\ c.op = "markConverted" => c.order \in Orders
  BY RequestsAssumption DEF AllCalls

LEMMA IdleJobType == IdleJob \in Jobs
<1>1. (CHOOSE c \in Calls : TRUE) \in Calls
  BY RequestsAssumption
<1>2. (CHOOSE q \in Quotes : TRUE) \in Quotes
  BY RequestsAssumption
<1>3. NoQuote \in QuoteDocs
  BY PendingType
<1> QED
  BY <1>1, <1>2, <1>3, RequestsAssumption DEF IdleJob, Jobs

(* Only requests of create draw a reference, and draw it from Refs.        *)
Creating == \A r \in Requests :
  /\ pc[r] \in {"drawing", "drawn"} => job[r].call.op = "create"
  /\ pc[r] = "drawn" => job[r].ref \in Refs

Typed == TypeOK /\ Creating

(* A save keeps the types, if what it saves is a document.                 *)
LEMMA SaveTyped ==
  ASSUME Typed, NEW r \in Requests, pc[r] = "loaded", NEW new \in QuoteDocs,
         Save(r, new)
  PROVE  Typed'
<1>1. job[r].quote \in Quotes /\ job[r].doc \in QuoteDocs
  BY DEF Typed, TypeOK, Jobs
<1>2. Merge(quotes[job[r].quote], job[r].doc, new) \in QuoteDocs
  BY <1>1, MergeType DEF Typed, TypeOK
<1>3. TypeOK'
  BY <1>1, <1>2 DEF Typed, TypeOK, Save, Goto, PCs
<1>4. Creating'
  BY DEF Typed, TypeOK, Creating, Save, Goto, PCs
<1> QED
  BY <1>3, <1>4 DEF Typed

(* Taking up a call starts with a fresh job of the right type.             *)
LEMMA FreshJobType ==
  ASSUME TypeOK, NEW c \in Calls, NEW q \in Quotes
  PROVE  /\ [IdleJob EXCEPT !.call = c, !.quote = q, !.doc = quotes[q]] \in Jobs
         /\ [IdleJob EXCEPT !.call = c] \in Jobs
  BY IdleJobType DEF TypeOK, Jobs

LEMMA TypedStep ==
  ASSUME Typed, [Next]_vars
  PROVE  Typed'
<1> USE DEF Typed
<1>1. ASSUME NEW r \in Requests, NEW c \in Calls, StartCreate(r, c)
      PROVE  Typed'
  <2>1. [IdleJob EXCEPT !.call = c] \in Jobs
    BY FreshJobType, RequestsAssumption
  <2>2. [IdleJob EXCEPT !.call = c].call = c
    BY DEF IdleJob
  <2> QED
    BY <1>1, <2>1, <2>2 DEF StartCreate, Goto, TypeOK, PCs, Creating
<1>2. ASSUME NEW r \in Requests, NEW c \in Calls, NEW q \in Quotes,
             FindQuote(r, c, q) \/ Forbid(r, c, q)
      PROVE  Typed'
  <2>1. [IdleJob EXCEPT !.call = c, !.quote = q, !.doc = quotes[q]] \in Jobs
    BY FreshJobType
  <2> QED
    BY <1>2, <2>1 DEF FindQuote, Forbid, Begin, Goto, TypeOK, PCs, Creating
<1>3. ASSUME NEW r \in Requests,
             SavePrice(r) \/ SaveAccepted(r) \/ SaveRejected(r)
               \/ SaveConverted(r)
      PROVE  Typed'
  <2>1. /\ job[r].doc \in QuoteDocs /\ job[r].call \in Calls
        /\ now \in 0..MaxNow
    BY DEF TypeOK, Jobs
  <2>2. CASE SavePrice(r)
    BY <2>1, <2>2, SaveTyped, ResultTypes, CallFields DEF SavePrice, At
  <2>3. CASE SaveAccepted(r)
    BY <2>1, <2>3, SaveTyped, ResultTypes DEF SaveAccepted, At
  <2>4. CASE SaveRejected(r)
    BY <2>1, <2>4, SaveTyped, ResultTypes, CallFields DEF SaveRejected, At
  <2>5. CASE SaveConverted(r)
    BY <2>1, <2>5, SaveTyped, ResultTypes, CallFields DEF SaveConverted, At
  <2> QED
    BY <1>3, <2>2, <2>3, <2>4, <2>5
<1>4. ASSUME NEW r \in Requests, NEW code \in Codes, DrawCode(r, code)
      PROVE  Typed'
  <2>1. job[r] \in Jobs /\ code \in Refs
    BY DEF TypeOK, Refs
  <2>2. job[r].attempts < MaxAttempts => job[r].attempts + 1 \in 0..MaxAttempts
    BY <2>1, RequestsAssumption DEF Jobs
  <2> QED
    BY <1>4, <2>1, <2>2 DEF DrawCode, Goto, TypeOK, Jobs, PCs, Creating
<1>5. ASSUME NEW r \in Requests, NEW stamp \in Stamps, StampCode(r, stamp)
      PROVE  Typed'
  <2>1. job[r] \in Jobs /\ stamp \in Refs
    BY DEF TypeOK, Refs
  <2> QED
    BY <1>5, <2>1 DEF StampCode, Goto, TypeOK, Jobs, PCs, Creating
<1>6. ASSUME NEW r \in Requests, NEW q \in Quotes, InsertQuote(r, q)
      PROVE  Typed'
  <2>1. /\ job[r].call \in Calls
        /\ job[r].call.op = "create"
        /\ job[r].ref \in Refs
    BY <1>6 DEF InsertQuote, TypeOK, Jobs, Creating
  <2>2. Pending(job[r].call.user, job[r].ref) \in QuoteDocs
    BY <2>1, PendingType, CallFields
  <2> QED
    BY <1>6, <2>2 DEF InsertQuote, Goto, TypeOK, PCs, Creating
<1>7. ASSUME NEW r \in Requests, RefuseInsert(r)
      PROVE  Typed'
  BY <1>7 DEF RefuseInsert, Goto, TypeOK, PCs, Creating
<1>8. ASSUME NEW q \in Quotes, ExpireQuote(q)
      PROVE  Typed'
  BY <1>8 DEF ExpireQuote, TypeOK, QuoteDocs, Statuses, Creating
<1>9. CASE FindOverdue \/ FailJob
  BY <1>9 DEF FindOverdue, FailJob, TypeOK, Creating
<1>10. CASE Tick
  BY <1>10, QuotesAssumption DEF Tick, TypeOK, Creating
<1>11. CASE UNCHANGED vars
  BY <1>11 DEF vars, TypeOK, Creating
<1> QED
  BY <1>1, <1>2, <1>3, <1>4, <1>5, <1>6, <1>7, <1>8, <1>9, <1>10, <1>11
     DEF Next, Request, ExpiryJob

LEMMA AlwaysTyped == Spec => []Typed
<1>1. Init => Typed
  <2>1. IdleJob \in Jobs
    BY IdleJobType
  <2> QED
    BY <2>1, QuotesAssumption DEF Init, Typed, TypeOK, PCs, Creating
<1>2. Typed /\ [Next]_vars => Typed'
  BY TypedStep
<1> QED
  BY <1>1, <1>2, PTL DEF Spec

(* Every reachable state is type correct.                                  *)
THEOREM TypeCorrect == Spec => []TypeOK
<1>1. Typed => TypeOK
  BY DEF Typed
<1> QED
  BY <1>1, AlwaysTyped, PTL

-----------------------------------------------------------------------------
(* References: the index keeps them distinct whatever the drawing did.     *)
LEMMA RefStays ==
  ASSUME Typed, [Next]_vars, NEW q \in Quotes,
         \A r \in Requests : ~ InsertQuote(r, q)
  PROVE  quotes'[q].ref = quotes[q].ref
<1> USE DEF Typed, TypeOK
<1>1. ASSUME NEW r \in Requests, NEW new, Save(r, new)
      PROVE  quotes'[q].ref = quotes[q].ref
  BY <1>1 DEF Save, Merge, Jobs
<1>2. ASSUME NEW r \in Requests, NEW p \in Quotes, InsertQuote(r, p)
      PROVE  quotes'[q].ref = quotes[q].ref
  BY <1>2 DEF InsertQuote
<1>3. ASSUME NEW p \in Quotes, ExpireQuote(p)
      PROVE  quotes'[q].ref = quotes[q].ref
  BY <1>3 DEF ExpireQuote, QuoteDocs
<1> QED
  BY <1>1, <1>2, <1>3
     DEF Next, Request, ExpiryJob, StartCreate, FindQuote, Forbid, DrawCode,
         StampCode, RefuseInsert, FindOverdue, FailJob, Tick, vars, SavePrice,
         SaveAccepted, SaveRejected, SaveConverted

(* A reference leads to one quote.                                         *)
THEOREM ReferencesUnique == Spec => []UniqueReferences
<1>1. Init => UniqueReferences
  BY QuotesAssumption DEF Init, UniqueReferences
<1>2. Typed /\ UniqueReferences /\ [Next]_vars => UniqueReferences'
  <2> SUFFICES ASSUME Typed, UniqueReferences, [Next]_vars
               PROVE  UniqueReferences'
    OBVIOUS
  <2>1. ASSUME NEW r \in Requests, NEW q \in Quotes, InsertQuote(r, q)
        PROVE  UniqueReferences'
    <3>1. /\ \A p \in Quotes : quotes[p].ref # job[r].ref
          /\ job[r].ref \in Refs
      BY <2>1 DEF InsertQuote, Used, Typed, Creating
    <3>2. quotes'[q].ref = job[r].ref
      BY <2>1 DEF InsertQuote, Pending, Typed, TypeOK
    <3>3. \A p \in Quotes \ {q} : quotes'[p] = quotes[p]
      BY <2>1 DEF InsertQuote, Typed, TypeOK
    <3> QED
      BY <3>1, <3>2, <3>3, QuotesAssumption DEF UniqueReferences, Distinct
  <2>2. CASE \A r \in Requests, q \in Quotes : ~ InsertQuote(r, q)
    <3>1. \A q \in Quotes : quotes'[q].ref = quotes[q].ref
      BY <2>2, RefStays
    <3> QED
      BY <3>1 DEF UniqueReferences, Distinct
  <2> QED
    BY <2>1, <2>2
<1> QED
  BY <1>1, <1>2, AlwaysTyped, PTL DEF Spec

-----------------------------------------------------------------------------
(* Why answered quotes were priced: the copy a request loaded never knows  *)
(* more than the stored quote, and it is a sent copy if it answers.        *)
FreeEmpty == \A q \in Quotes : quotes[q].status = None => quotes[q] = NoQuote

NoMoreThan(loaded, stored) ==
  /\ stored.status # None
  /\ loaded.price # None => stored.price # None
  /\ loaded.expiresAt # NoDate => stored.expiresAt # NoDate

(* The calls that answer a quote.                                          *)
Answers == {"acceptQuote", "rejectQuote", "acceptByReference",
            "rejectByReference"}

LoadedKnown == \A r \in Requests : pc[r] = "loaded" =>
  /\ NoMoreThan(job[r].doc, quotes[job[r].quote])
  /\ job[r].call.op \in Answers =>
       job[r].doc.status = "sent" /\ Priced(job[r].doc)

DuePriced == \A q \in due : quotes[q].status # None /\ Priced(quotes[q])

PricedInv == FreeEmpty /\ LoadedKnown /\ DuePriced /\ AnsweredPriced

(* Nothing that is known of a stored quote is ever lost.                   *)
LEMMA KnowledgeStays ==
  ASSUME Typed, PricedInv, [Next]_vars, NEW q \in Quotes,
         quotes[q].status # None
  PROVE  NoMoreThan(quotes[q], quotes'[q])
<1> USE DEF Typed, TypeOK, NoMoreThan
<1>1. ASSUME NEW r \in Requests, pc[r] = "loaded", NEW new \in QuoteDocs,
             new.status # None,
             job[r].doc.price # None => new.price # None,
             job[r].doc.expiresAt # NoDate => new.expiresAt # NoDate,
             Save(r, new)
      PROVE  NoMoreThan(quotes[q], quotes'[q])
  <2>1. job[r].quote \in Quotes /\ job[r].doc \in QuoteDocs
    BY DEF Jobs
  <2>2. CASE q # job[r].quote
    BY <1>1, <2>1, <2>2 DEF Save
  <2>3. CASE q = job[r].quote
    <3>1. quotes'[q] = Merge(quotes[q], job[r].doc, new)
      BY <1>1, <2>1, <2>3 DEF Save
    <3> QED
      BY <1>1, <3>1 DEF Merge, Delta
  <2> QED
    BY <2>2, <2>3
<1>2. ASSUME NEW r \in Requests, NEW p \in Quotes, InsertQuote(r, p)
      PROVE  NoMoreThan(quotes[q], quotes'[q])
  <2>1. quotes'[q] = quotes[q]
    BY <1>2 DEF InsertQuote
  <2> QED
    BY <2>1
<1>3. ASSUME NEW p \in Quotes, ExpireQuote(p)
      PROVE  NoMoreThan(quotes[q], quotes'[q])
  <2>1. /\ quotes'[q].price = quotes[q].price
        /\ quotes'[q].expiresAt = quotes[q].expiresAt
        /\ quotes'[q].status \in {"expired", quotes[q].status}
    BY <1>3 DEF ExpireQuote, QuoteDocs
  <2> QED
    BY <2>1 DEF None
<1>4. ASSUME NEW r \in Requests,
             SavePrice(r) \/ SaveAccepted(r) \/ SaveRejected(r)
               \/ SaveConverted(r)
      PROVE  NoMoreThan(quotes[q], quotes'[q])
  <2>1. /\ job[r].doc \in QuoteDocs /\ job[r].call \in Calls
        /\ now \in 0..MaxNow
    BY DEF Jobs
  <2>2. CASE SavePrice(r)
    <3>1. job[r].call.price \in Prices
      BY <2>1, <2>2, CallFields DEF SavePrice, At
    <3>2. WithPrice(job[r].doc, job[r].call.price, now) \in QuoteDocs
      BY <2>1, <3>1, ResultTypes
    <3>3. now + Term # NoDate /\ job[r].call.price # None
      BY <2>1, <3>1, QuotesAssumption DEF NoDate
    <3> QED
      BY <1>1, <2>1, <2>2, <3>2, <3>3
         DEF SavePrice, At, WithPrice, QuoteDocs, None
  <2>3. CASE SaveAccepted(r)
    BY <1>1, <2>1, <2>3, ResultTypes
       DEF SaveAccepted, At, Accepted, QuoteDocs, None
  <2>4. CASE SaveRejected(r)
    <3>1. job[r].call.reason \in Reasons \cup {None}
      BY <2>1, <2>4, CallFields DEF SaveRejected, At
    <3>2. /\ Rejected(job[r].doc, job[r].call.reason) \in QuoteDocs
          /\ Rejected(job[r].doc, job[r].call.reason).status # None
          /\ Rejected(job[r].doc, job[r].call.reason).price = job[r].doc.price
          /\ Rejected(job[r].doc, job[r].call.reason).expiresAt
               = job[r].doc.expiresAt
      BY <2>1, <3>1, ResultTypes DEF Rejected, QuoteDocs, None
    <3> QED
      BY <1>1, <2>4, <3>2 DEF SaveRejected, At
  <2>5. CASE SaveConverted(r)
    <3>1. job[r].call.order \in Orders
      BY <2>1, <2>5, CallFields DEF SaveConverted, At
    <3>3. Converted(job[r].doc, job[r].call.order) \in QuoteDocs
      BY <2>1, <3>1, ResultTypes
    <3>2. /\ Converted(job[r].doc, job[r].call.order).status # None
          /\ Converted(job[r].doc, job[r].call.order).price = job[r].doc.price
          /\ Converted(job[r].doc, job[r].call.order).expiresAt
               = job[r].doc.expiresAt
      BY <2>1 DEF Converted, QuoteDocs, None
    <3> QED
      BY <1>1, <2>5, <3>2, <3>3 DEF SaveConverted, At
  <2> QED
    BY <1>4, <2>2, <2>3, <2>4, <2>5
<1> QED
  BY <1>2, <1>3, <1>4
     DEF Next, Request, ExpiryJob, StartCreate, FindQuote, Forbid, DrawCode,
         StampCode, RefuseInsert, FindOverdue, FailJob, Tick, vars

(* What a save leaves in the stored quote is priced, when the handler saw, *)
(* or made, a priced quote; the only saves that make it answered.          *)
LEMMA SavePriced ==
  ASSUME Typed, PricedInv, NEW r \in Requests, pc[r] = "loaded",
         NEW new \in QuoteDocs, Save(r, new),
         new.status # job[r].doc.status /\ new.status # "converted"
           => new.price # None /\ new.expiresAt # NoDate,
         job[r].doc.price # None => new.price # None,
         job[r].doc.expiresAt # NoDate => new.expiresAt # NoDate,
         new.status # None
  PROVE  AnsweredPriced'
<1> USE DEF Typed, TypeOK
<1>1. /\ job[r].quote \in Quotes /\ job[r].doc \in QuoteDocs
      /\ NoMoreThan(job[r].doc, quotes[job[r].quote])
  BY DEF Jobs, PricedInv, LoadedKnown
<1> SUFFICES ASSUME NEW q \in Quotes,
                    quotes'[q].status \in {"sent", "accepted", "rejected",
                                           "expired"}
             PROVE  Priced(quotes'[q])
  BY DEF AnsweredPriced
<1>2. CASE q # job[r].quote
  BY <1>1, <1>2 DEF Save, PricedInv, AnsweredPriced
<1>3. CASE q = job[r].quote
  <2>1. quotes'[q] = Merge(quotes[q], job[r].doc, new)
    BY <1>1, <1>3 DEF Save
  <2>2. CASE new.status = job[r].doc.status
    <3>1. quotes'[q].status = quotes[q].status
      BY <2>1, <2>2 DEF Merge, Delta
    <3>2. Priced(quotes[q])
      BY <3>1 DEF PricedInv, AnsweredPriced
    <3> QED
      BY <1>1, <1>3, <2>1, <3>2 DEF Merge, Delta, Priced, NoMoreThan
  <2>3. CASE new.status # job[r].doc.status
    <3>1. quotes'[q].status = new.status
      BY <2>1, <2>3 DEF Merge, Delta
    <3>2. new.price # None /\ new.expiresAt # NoDate
      BY <2>3, <3>1
    <3> QED
      BY <1>1, <1>3, <2>1, <3>2 DEF Merge, Delta, Priced, NoMoreThan
  <2> QED
    BY <2>2, <2>3
<1> QED
  BY <1>2, <1>3

LEMMA AnsweredPricedStep ==
  ASSUME Typed, PricedInv, [Next]_vars
  PROVE  AnsweredPriced'
<1> USE DEF Typed, TypeOK
<1>1. ASSUME NEW r \in Requests,
             SavePrice(r) \/ SaveAccepted(r) \/ SaveRejected(r)
               \/ SaveConverted(r)
      PROVE  AnsweredPriced'
  <2>1. /\ job[r].doc \in QuoteDocs /\ job[r].call \in Calls
        /\ now \in 0..MaxNow
    BY DEF Jobs
  <2>2. pc[r] = "loaded" /\ job[r].call.op \in Answers => Priced(job[r].doc)
    BY DEF PricedInv, LoadedKnown
  <2>3. CASE SavePrice(r)
    <3>1. job[r].call.price \in Prices
      BY <2>1, <2>3, CallFields DEF SavePrice, At
    <3>2. WithPrice(job[r].doc, job[r].call.price, now) \in QuoteDocs
      BY <2>1, <3>1, ResultTypes
    <3>3. now + Term # NoDate /\ job[r].call.price # None
      BY <2>1, <3>1, QuotesAssumption DEF NoDate
    <3>4. LET new == WithPrice(job[r].doc, job[r].call.price, now) IN
          new.status # None /\ new.price # None /\ new.expiresAt # NoDate
      BY <2>1, <3>3 DEF WithPrice, QuoteDocs, None
    <3> QED
      BY <2>3, <3>2, <3>4, SavePriced DEF SavePrice, At
  <2>4. CASE SaveAccepted(r)
    <3>1. Priced(job[r].doc)
      BY <2>2, <2>4 DEF SaveAccepted, At, Answers
    <3>2. LET new == Accepted(job[r].doc) IN
          /\ new \in QuoteDocs
          /\ new.status # None /\ new.price # None /\ new.expiresAt # NoDate
      BY <2>1, <3>1, ResultTypes DEF Accepted, QuoteDocs, None, Priced
    <3> QED
      BY <2>4, <3>2, SavePriced DEF SaveAccepted, At
  <2>5. CASE SaveRejected(r)
    <3>1. Priced(job[r].doc) /\ job[r].call.reason \in Reasons \cup {None}
      BY <2>1, <2>2, <2>5, CallFields DEF SaveRejected, At, Answers
    <3>2. Rejected(job[r].doc, job[r].call.reason) \in QuoteDocs
      BY <2>1, <3>1, ResultTypes
    <3>3. LET new == Rejected(job[r].doc, job[r].call.reason) IN
          new.status # None /\ new.price # None /\ new.expiresAt # NoDate
      BY <2>1, <3>1 DEF Rejected, QuoteDocs, None, Priced
    <3> QED
      BY <2>5, <3>2, <3>3, SavePriced DEF SaveRejected, At
  <2>6. CASE SaveConverted(r)
    <3>1. job[r].call.order \in Orders
      BY <2>1, <2>6, CallFields DEF SaveConverted, At
    <3>2. Converted(job[r].doc, job[r].call.order) \in QuoteDocs
      BY <2>1, <3>1, ResultTypes
    <3>3. LET new == Converted(job[r].doc, job[r].call.order) IN
          /\ new.status = "converted"
          /\ new.price = job[r].doc.price
          /\ new.expiresAt = job[r].doc.expiresAt
      BY <2>1 DEF Converted, QuoteDocs
    <3> QED
      BY <2>6, <3>2, <3>3, SavePriced DEF SaveConverted, At, None
  <2> QED
    BY <1>1, <2>3, <2>4, <2>5, <2>6
<1>2. ASSUME NEW r \in Requests, NEW q \in Quotes, InsertQuote(r, q)
      PROVE  AnsweredPriced'
  BY <1>2 DEF InsertQuote, Pending, PricedInv, AnsweredPriced
<1>3. ASSUME NEW q \in Quotes, ExpireQuote(q)
      PROVE  AnsweredPriced'
  <2>1. Priced(quotes[q])
    BY <1>3 DEF ExpireQuote, PricedInv, DuePriced
  <2>2. \A p \in Quotes : /\ quotes'[p].price = quotes[p].price
                          /\ quotes'[p].expiresAt = quotes[p].expiresAt
                          /\ p # q => quotes'[p].status = quotes[p].status
    BY <1>3 DEF ExpireQuote, QuoteDocs
  <2> QED
    BY <2>1, <2>2 DEF PricedInv, AnsweredPriced, Priced
<1>4. ASSUME UNCHANGED quotes
      PROVE  AnsweredPriced'
  BY <1>4 DEF PricedInv, AnsweredPriced
<1> QED
  BY <1>1, <1>2, <1>3, <1>4
     DEF Next, Request, ExpiryJob, StartCreate, FindQuote, Forbid, DrawCode,
         StampCode, RefuseInsert, FindOverdue, FailJob, Tick, vars

LEMMA LoadedKnownStep ==
  ASSUME Typed, PricedInv, [Next]_vars
  PROVE  LoadedKnown'
<1> SUFFICES ASSUME NEW r \in Requests, pc'[r] = "loaded"
             PROVE  /\ NoMoreThan(job'[r].doc, quotes'[job'[r].quote])
                    /\ job'[r].call.op \in Answers =>
                         job'[r].doc.status = "sent" /\ Priced(job'[r].doc)
  BY DEF LoadedKnown
<1> USE DEF Typed, TypeOK
<1>1. ASSUME NEW c \in Calls, NEW q \in Quotes, FindQuote(r, c, q)
      PROVE  /\ NoMoreThan(job'[r].doc, quotes'[job'[r].quote])
             /\ job'[r].call.op \in Answers =>
                  job'[r].doc.status = "sent" /\ Priced(job'[r].doc)
  <2>1. /\ job'[r].call = c /\ job'[r].quote = q /\ job'[r].doc = quotes[q]
        /\ quotes' = quotes
    BY <1>1 DEF FindQuote, IdleJob
  <2>2. quotes[q].status # None
    BY <1>1 DEF FindQuote, Names
  <2>3. c.op \in Answers => quotes[q].status = "sent"
    BY <1>1 DEF FindQuote, Allows, Answers, ByOwner, ByReference, Answerable
  <2>4. c.op \in Answers => Priced(quotes[q])
    BY <2>3 DEF PricedInv, AnsweredPriced
  <2> QED
    BY <2>1, <2>2, <2>3, <2>4 DEF NoMoreThan
<1>2. CASE pc[r] = "loaded" /\ job'[r] = job[r]
  <2>1. /\ job[r].quote \in Quotes
        /\ NoMoreThan(job[r].doc, quotes[job[r].quote])
        /\ job[r].call.op \in Answers =>
             job[r].doc.status = "sent" /\ Priced(job[r].doc)
    BY <1>2 DEF PricedInv, LoadedKnown, Jobs
  <2>2. NoMoreThan(quotes[job[r].quote], quotes'[job[r].quote])
    BY <2>1, KnowledgeStays DEF NoMoreThan
  <2> QED
    BY <1>2, <2>1, <2>2 DEF NoMoreThan
<1>3. \/ \E c \in Calls, q \in Quotes : FindQuote(r, c, q)
      \/ pc[r] = "loaded" /\ job'[r] = job[r]
  <2>1. ASSUME NEW s \in Requests, NEW c \in Calls, NEW q \in Quotes,
               FindQuote(s, c, q), s # r
        PROVE  pc[r] = "loaded" /\ job'[r] = job[r]
    BY <2>1 DEF FindQuote, Goto
  <2>2. ASSUME NEW s \in Requests, NEW c \in Calls,
               StartCreate(s, c) \/ (\E q \in Quotes : Forbid(s, c, q))
        PROVE  pc[r] = "loaded" /\ job'[r] = job[r]
    BY <2>2 DEF StartCreate, Forbid, Goto
  <2>3. ASSUME NEW s \in Requests,
               \/ SavePrice(s) \/ SaveAccepted(s) \/ SaveRejected(s)
               \/ SaveConverted(s) \/ RefuseInsert(s)
               \/ \E q \in Quotes : InsertQuote(s, q)
        PROVE  pc[r] = "loaded" /\ job'[r] = job[r]
    <3>1. UNCHANGED job /\ (Goto(s, "done") \/ Goto(s, "failed"))
      BY <2>3 DEF SavePrice, SaveAccepted, SaveRejected, SaveConverted, Save,
                  RefuseInsert, InsertQuote
    <3> QED
      BY <3>1 DEF Goto
  <2>4. ASSUME NEW s \in Requests,
               \/ \E code \in Codes : DrawCode(s, code)
               \/ \E stamp \in Stamps : StampCode(s, stamp)
        PROVE  pc[r] = "loaded" /\ job'[r] = job[r]
    BY <2>4 DEF DrawCode, StampCode, Goto
  <2>5. CASE ExpiryJob \/ FailJob \/ Tick \/ UNCHANGED vars
    BY <2>5 DEF ExpiryJob, FindOverdue, ExpireQuote, FailJob, Tick, vars
  <2> QED
    BY <2>1, <2>2, <2>3, <2>4, <2>5 DEF Next, Request
<1> QED
  BY <1>1, <1>2, <1>3

(* The job only finds sent quotes, which have a price and a date.          *)
LEMMA DuePricedStep ==
  ASSUME Typed, PricedInv, [Next]_vars
  PROVE  DuePriced'
<1> SUFFICES ASSUME NEW q \in due'
             PROVE  quotes'[q].status # None /\ Priced(quotes'[q])
  BY DEF DuePriced
<1>1. q \in due \/ (q \in Quotes /\ Overdue(quotes[q], now))
  <2>1. CASE FindOverdue
    BY <2>1 DEF FindOverdue
  <2>2. ASSUME NEW p \in Quotes, ExpireQuote(p)
        PROVE  q \in due
    BY <2>2 DEF ExpireQuote
  <2>3. CASE FailJob
    BY <2>3 DEF FailJob
  <2>4. ASSUME NEW r \in Requests, Request(r)
        PROVE  q \in due
    <3>1. \/ \E c \in Calls, p \in Quotes : FindQuote(r, c, p) \/ Forbid(r, c, p)
          \/ \E c \in Calls : StartCreate(r, c)
          \/ \E code \in Codes : DrawCode(r, code)
          \/ \E stamp \in Stamps : StampCode(r, stamp)
          => due' = due
      BY DEF StartCreate, FindQuote, Forbid, DrawCode, StampCode
    <3>2. SavePrice(r) \/ SaveAccepted(r) \/ SaveRejected(r)
          \/ SaveConverted(r) => due' = due
      BY DEF SavePrice, SaveAccepted, SaveRejected, SaveConverted, Save
    <3>3. RefuseInsert(r) \/ (\E p \in Quotes : InsertQuote(r, p))
          => due' = due
      BY DEF InsertQuote, RefuseInsert
    <3>4. due' = due
      BY <2>4, <3>1, <3>2, <3>3 DEF Request
    <3> QED
      BY <3>4
  <2>5. CASE Tick
    BY <2>5 DEF Tick
  <2>6. CASE UNCHANGED vars
    BY <2>6 DEF vars
  <2> QED
    BY <2>1, <2>2, <2>3, <2>4, <2>5, <2>6 DEF Next, ExpiryJob
<1>2. q \in Quotes
  BY <1>1 DEF Typed, TypeOK
<1>3. quotes[q].status # None /\ Priced(quotes[q])
  BY <1>1, <1>2 DEF PricedInv, DuePriced, AnsweredPriced, Overdue, None
<1>4. NoMoreThan(quotes[q], quotes'[q])
  BY <1>2, <1>3, KnowledgeStays
<1> QED
  BY <1>3, <1>4 DEF NoMoreThan, Priced

(* A free id stays as empty as it was: a save always finds a quote.        *)
LEMMA FreeEmptyStep ==
  ASSUME Typed, PricedInv, [Next]_vars
  PROVE  FreeEmpty'
<1> SUFFICES ASSUME NEW q \in Quotes, quotes'[q].status = None
             PROVE  quotes'[q] = NoQuote
  BY DEF FreeEmpty
<1>1. quotes[q].status = None
  BY KnowledgeStays DEF NoMoreThan
<1>2. quotes[q] = NoQuote
  BY <1>1 DEF PricedInv, FreeEmpty
<1>3. \A r \in Requests : pc[r] = "loaded" => job[r].quote # q
  BY <1>1 DEF PricedInv, LoadedKnown, NoMoreThan
<1>4. q \notin due
  BY <1>1 DEF PricedInv, DuePriced
<1>5. ASSUME NEW r \in Requests, NEW p \in Quotes, InsertQuote(r, p)
      PROVE  quotes'[q] = quotes[q]
  <2>1. p # q
    <3> SUFFICES ASSUME p = q PROVE FALSE
      OBVIOUS
    <3>1. quotes'[q].status = "pending"
      BY <1>5 DEF InsertQuote, Pending, Typed, TypeOK
    <3> QED
      BY <3>1 DEF None
  <2> QED
    BY <1>5, <2>1 DEF InsertQuote, Typed, TypeOK
<1>6. quotes'[q] = quotes[q]
  BY <1>3, <1>4, <1>5
     DEF Typed, TypeOK, Next, Request, ExpiryJob, StartCreate, FindQuote,
         Forbid, DrawCode, StampCode, RefuseInsert, FindOverdue, ExpireQuote,
         FailJob, Tick, vars, SavePrice, SaveAccepted, SaveRejected,
         SaveConverted, Save, At
<1> QED
  BY <1>2, <1>6

(* Every answered, sent or expired quote has a price and a date.           *)
THEOREM AnsweredArePriced == Spec => []AnsweredPriced
<1>1. Init => PricedInv
  <2> SUFFICES ASSUME Init PROVE PricedInv
    OBVIOUS
  <2>1. FreeEmpty
    BY QuotesAssumption DEF Init, FreeEmpty
  <2>2. LoadedKnown /\ DuePriced
    BY DEF Init, LoadedKnown, DuePriced
  <2>3. AnsweredPriced
    BY QuotesAssumption DEF Init, AnsweredPriced, None
  <2> QED
    BY <2>1, <2>2, <2>3 DEF PricedInv
<1>2. Typed /\ PricedInv /\ [Next]_vars => PricedInv'
  BY AnsweredPricedStep, LoadedKnownStep, DuePricedStep, FreeEmptyStep
     DEF PricedInv
<1>3. PricedInv => AnsweredPriced
  BY DEF PricedInv
<1> QED
  BY <1>1, <1>2, <1>3, AlwaysTyped, PTL DEF Spec

-----------------------------------------------------------------------------
(* Without overlapping work every step of the handlers is a step of        *)
(* QuoteLifecycle, or changes nothing it sees: the copy a request loaded   *)
(* is the stored quote until it saves, and what the job found is overdue   *)
(* until it saves.                                                         *)
Fresh == \A r \in Requests : pc[r] = "loaded" =>
  /\ quotes[job[r].quote] = job[r].doc
  /\ job[r].doc.status # None
  /\ Allows(job[r].call, job[r].doc)
  /\ job[r].quote \notin due

Exclusive == \A r, s \in Requests :
  pc[r] = "loaded" /\ pc[s] = "loaded" /\ job[r].quote = job[s].quote => r = s

DueOverdue == \A q \in due : Overdue(quotes[q], now)

SerialInv == Fresh /\ Exclusive /\ DueOverdue

(* A step that changes at most one quote, which nobody else works on, and  *)
(* starts no work, keeps the invariant.                                    *)
LEMMA UntouchedStep ==
  ASSUME Typed, SerialInv, NEW q,
         \A p \in Quotes \ {q} : quotes'[p] = quotes[p],
         \A r \in Requests : pc'[r] = "loaded" =>
           pc[r] = "loaded" /\ job'[r] = job[r] /\ job[r].quote # q,
         due' \subseteq due, q \notin due',
         UNCHANGED now
  PROVE  SerialInv'
<1> USE DEF Typed, TypeOK
<1>1. Fresh'
  <2> SUFFICES ASSUME NEW r \in Requests, pc'[r] = "loaded"
               PROVE  /\ quotes'[job'[r].quote] = job'[r].doc
                      /\ job'[r].doc.status # None
                      /\ Allows(job'[r].call, job'[r].doc)
                      /\ job'[r].quote \notin due'
    BY DEF Fresh, Allows, IsOwner, Text, Answerable, Priceable
  <2>1. pc[r] = "loaded" /\ job'[r] = job[r] /\ job[r].quote # q
    OBVIOUS
  <2>2. job[r].quote \in Quotes \ {q}
    BY <2>1 DEF Jobs
  <2> QED
    BY <2>1, <2>2 DEF SerialInv, Fresh
<1>2. Exclusive'
  BY DEF SerialInv, Exclusive
<1>3. DueOverdue'
  <2> SUFFICES ASSUME NEW p \in due' PROVE Overdue(quotes'[p], now')
    BY DEF DueOverdue, Overdue
  <2>1. p \in due /\ p \in Quotes \ {q}
    OBVIOUS
  <2>2. quotes'[p] = quotes[p] /\ now' = now
    BY <2>1
  <2>3. Overdue(quotes[p], now)
    BY <2>1 DEF SerialInv, DueOverdue
  <2> QED
    BY <2>2, <2>3
<1> QED
  BY <1>1, <1>2, <1>3 DEF SerialInv

(* What a save does then: it replaces the quote by what was computed.      *)
LEMMA SaveSerial ==
  ASSUME Typed, SerialInv, NEW r \in Requests, pc[r] = "loaded",
         NEW new \in QuoteDocs, Save(r, new),
         new.ref = job[r].doc.ref, new.user = job[r].doc.user
  PROVE  /\ quotes' = [quotes EXCEPT ![job[r].quote] = new]
         /\ UNCHANGED now
         /\ SerialInv'
<1> USE DEF Typed, TypeOK
<1>1. /\ job[r].quote \in Quotes /\ job[r].doc \in QuoteDocs
      /\ quotes[job[r].quote] = job[r].doc
      /\ job[r].quote \notin due
  BY DEF Jobs, SerialInv, Fresh
<1>2. Merge(job[r].doc, job[r].doc, new) = new
  BY <1>1 DEF Merge, Delta, QuoteDocs
<1>3. quotes' = [quotes EXCEPT ![job[r].quote] = new]
  BY <1>1, <1>2 DEF Save
<1>4. \A p \in Quotes \ {job[r].quote} : quotes'[p] = quotes[p]
  BY <1>1, <1>3
<1>5. \A s \in Requests : pc'[s] = "loaded" =>
        pc[s] = "loaded" /\ job'[s] = job[s] /\ job[s].quote # job[r].quote
  <2> SUFFICES ASSUME NEW s \in Requests, pc'[s] = "loaded"
               PROVE  /\ pc[s] = "loaded" /\ job'[s] = job[s]
                      /\ job[s].quote # job[r].quote
    OBVIOUS
  <2>1. s # r /\ pc[s] = "loaded" /\ job' = job
    BY DEF Save, Goto
  <2> QED
    BY <2>1 DEF SerialInv, Exclusive
<1>6. due' = due /\ now' = now
  BY DEF Save
<1>7. SerialInv'
  BY <1>1, <1>4, <1>5, <1>6, UntouchedStep
<1> QED
  BY <1>3, <1>6, <1>7

(* Without overlap, each kind of step keeps the invariant, and is a step   *)
(* of QuoteLifecycle or leaves its variables alone.                        *)
LEMMA StillStep ==
  ASSUME Typed, SerialInv, UNCHANGED <<quotes, now>>, due' \subseteq due,
         \A r \in Requests : pc'[r] = "loaded" =>
           pc[r] = "loaded" /\ job'[r] = job[r]
  PROVE  SerialInv'
<1>1. PICK x : x \notin Quotes
  BY NoSetContainsEverything
<1>2. \A r \in Requests : job[r].quote # x
  BY <1>1 DEF Typed, TypeOK, Jobs
<1>3. x \notin due'
  BY <1>1 DEF Typed, TypeOK
<1> QED
  BY <1>2, <1>3, UntouchedStep

LEMMA FindSerial ==
  ASSUME Serial, Typed, SerialInv, NEW r \in Requests, NEW c \in Calls,
         NEW q \in Quotes, FindQuote(r, c, q)
  PROVE  SerialInv'
<1> USE DEF Typed, TypeOK
<1>1. /\ quotes' = quotes /\ now' = now /\ due' = due
      /\ job' = [job EXCEPT ![r] = [IdleJob EXCEPT !.call = c, !.quote = q,
                                                 !.doc = quotes[q]]]
      /\ pc' = [pc EXCEPT ![r] = "loaded"]
      /\ q \notin due
      /\ \A s \in Requests : pc[s] = "loaded" => job[s].quote # q
      /\ quotes[q].status # None
      /\ Allows(c, quotes[q])
  BY DEF FindQuote, Names, Goto
<1>2. job'[r].call = c /\ job'[r].quote = q /\ job'[r].doc = quotes[q]
  BY <1>1 DEF IdleJob
<1>3. \A s \in Requests \ {r} : job'[s] = job[s] /\ pc'[s] = pc[s]
  BY <1>1
<1>4. Fresh'
  <2> SUFFICES ASSUME NEW s \in Requests, pc'[s] = "loaded"
               PROVE  /\ quotes'[job'[s].quote] = job'[s].doc
                      /\ job'[s].doc.status # None
                      /\ Allows(job'[s].call, job'[s].doc)
                      /\ job'[s].quote \notin due'
    BY DEF Fresh, Allows, IsOwner, Text, Answerable, Priceable
  <2>1. CASE s = r
    BY <1>1, <1>2, <2>1
  <2>2. CASE s # r
    BY <1>1, <1>3, <2>2 DEF SerialInv, Fresh
  <2> QED
    BY <2>1, <2>2
<1>5. Exclusive'
  BY <1>1, <1>2, <1>3 DEF SerialInv, Exclusive
<1>6. DueOverdue'
  BY <1>1 DEF SerialInv, DueOverdue, Overdue
<1> QED
  BY <1>4, <1>5, <1>6 DEF SerialInv

LEMMA SaveImplements ==
  ASSUME Typed, SerialInv, NEW r \in Requests,
         \/ SavePrice(r) \/ SaveAccepted(r) \/ SaveRejected(r)
         \/ SaveConverted(r)
  PROVE  SerialInv' /\ Lifecycle!Next
<1> USE DEF Typed, TypeOK
<1> DEFINE q == job[r].quote
           doc == job[r].doc
           c == job[r].call
<1>1. /\ pc[r] = "loaded" /\ q \in Quotes /\ doc \in QuoteDocs
      /\ c \in Calls /\ now \in 0..MaxNow
  BY DEF SavePrice, SaveAccepted, SaveRejected, SaveConverted, At, Jobs
<1>2. quotes[q] = doc /\ doc.status # None /\ Allows(c, doc)
  BY <1>1 DEF SerialInv, Fresh
<1>3. CASE SavePrice(r)
  <2>1. c.op = "setPrice" /\ c.price \in Prices
    BY <1>1, <1>3, CallFields DEF SavePrice, At
  <2>2. /\ WithPrice(doc, c.price, now) \in QuoteDocs
        /\ WithPrice(doc, c.price, now).ref = doc.ref
        /\ WithPrice(doc, c.price, now).user = doc.user
    <3>1. WithPrice(doc, c.price, now) \in QuoteDocs
      BY <1>1, <2>1, ResultTypes
    <3> QED
      BY <1>1, <3>1 DEF WithPrice, QuoteDocs
  <2>3. /\ quotes' = [quotes EXCEPT ![q] = WithPrice(doc, c.price, now)]
        /\ now' = now /\ SerialInv'
    BY <1>1, <1>3, <2>2, SaveSerial DEF SavePrice
  <2>4. Lifecycle!SetPrice(q, c.price)
    BY <1>2, <2>1, <2>3
       DEF Lifecycle!SetPrice, Lifecycle!Step, Allows, Lifecycle!Priceable,
           Priceable, Lifecycle!WithPrice, WithPrice
  <2> QED
    BY <1>1, <2>1, <2>3, <2>4 DEF Lifecycle!Next
<1>4. CASE SaveAccepted(r)
  <2>2. /\ Accepted(doc) \in QuoteDocs
        /\ Accepted(doc).ref = doc.ref
        /\ Accepted(doc).user = doc.user
    BY <1>1, ResultTypes DEF Accepted, QuoteDocs
  <2>3. /\ quotes' = [quotes EXCEPT ![q] = Accepted(doc)]
        /\ now' = now /\ SerialInv'
    BY <1>1, <1>4, <2>2, SaveSerial DEF SaveAccepted
  <2>4. Lifecycle!Accept(q)
    BY <1>2, <1>4, <2>3
       DEF Lifecycle!Accept, Lifecycle!Step, Allows, SaveAccepted, At, ByOwner,
           ByReference, Lifecycle!Answerable, Answerable, Lifecycle!Accepted,
           Accepted
  <2> QED
    BY <1>1, <2>3, <2>4 DEF Lifecycle!Next
<1>5. CASE SaveRejected(r)
  <2>1. c.reason \in Reasons \cup {None}
    BY <1>1, <1>5, CallFields DEF SaveRejected, At
  <2>2. /\ Rejected(doc, c.reason) \in QuoteDocs
        /\ Rejected(doc, c.reason).ref = doc.ref
        /\ Rejected(doc, c.reason).user = doc.user
    BY <1>1, <2>1, ResultTypes DEF Rejected, QuoteDocs
  <2>3. /\ quotes' = [quotes EXCEPT ![q] = Rejected(doc, c.reason)]
        /\ now' = now /\ SerialInv'
    BY <1>1, <1>5, <2>2, SaveSerial DEF SaveRejected
  <2>4. Lifecycle!Reject(q, c.reason)
    BY <1>2, <1>5, <2>3
       DEF Lifecycle!Reject, Lifecycle!Step, Allows, SaveRejected, At, ByOwner,
           ByReference, Lifecycle!Answerable, Answerable, Lifecycle!Rejected,
           Rejected
  <2> QED
    BY <1>1, <2>1, <2>3, <2>4 DEF Lifecycle!Next, Lifecycle!None, None
<1>6. CASE SaveConverted(r)
  <2>1. c.order \in Orders
    BY <1>1, <1>6, CallFields DEF SaveConverted, At
  <2>2. /\ Converted(doc, c.order) \in QuoteDocs
        /\ Converted(doc, c.order).ref = doc.ref
        /\ Converted(doc, c.order).user = doc.user
    <3>1. Converted(doc, c.order) \in QuoteDocs
      BY <1>1, <2>1, ResultTypes
    <3> QED
      BY <1>1, <3>1 DEF Converted, QuoteDocs
  <2>3. /\ quotes' = [quotes EXCEPT ![q] = Converted(doc, c.order)]
        /\ now' = now /\ SerialInv'
    BY <1>1, <1>6, <2>2, SaveSerial DEF SaveConverted
  <2>4. Lifecycle!MarkConverted(q, c.order)
    BY <1>2, <2>3
       DEF Lifecycle!MarkConverted, Lifecycle!Step, Lifecycle!None, None,
           Lifecycle!Converted, Converted
  <2> QED
    BY <1>1, <2>1, <2>3, <2>4 DEF Lifecycle!Next
<1> QED
  BY <1>3, <1>4, <1>5, <1>6

LEMMA InsertImplements ==
  ASSUME Typed, SerialInv, NEW r \in Requests, NEW q \in Quotes,
         InsertQuote(r, q)
  PROVE  SerialInv' /\ Lifecycle!Next
<1> USE DEF Typed, TypeOK
<1>1. /\ job[r].call \in Calls /\ job[r].call.op = "create"
      /\ job[r].ref \in Refs
  BY DEF InsertQuote, Creating, Jobs
<1>2. job[r].call.user \in Users \cup {Guest}
  BY <1>1, CallFields
<1>3. Lifecycle!Create(q, job[r].call.user, job[r].ref)
  BY DEF InsertQuote, Used, Lifecycle!Create, Lifecycle!Step, Lifecycle!None,
         None, Lifecycle!Pending, Pending, Lifecycle!NoDate, NoDate
<1>4. q \notin due
  BY DEF SerialInv, DueOverdue, Overdue, InsertQuote, None
<1>5. \A s \in Requests : pc'[s] = "loaded" =>
        pc[s] = "loaded" /\ job'[s] = job[s] /\ job[s].quote # q
  BY DEF SerialInv, Fresh, InsertQuote, Goto
<1>6. /\ \A p \in Quotes \ {q} : quotes'[p] = quotes[p]
      /\ due' = due /\ now' = now
  BY DEF InsertQuote
<1>7. SerialInv'
  BY <1>4, <1>5, <1>6, UntouchedStep
<1> QED
  BY <1>1, <1>2, <1>3, <1>7 DEF Lifecycle!Next, Lifecycle!Refs, Refs

LEMMA ExpireImplements ==
  ASSUME Typed, SerialInv, NEW q \in Quotes, ExpireQuote(q)
  PROVE  SerialInv' /\ Lifecycle!Next
<1> USE DEF Typed, TypeOK
<1>1. Overdue(quotes[q], now)
  BY DEF ExpireQuote, SerialInv, DueOverdue
<1>2. Lifecycle!Expire(q)
  BY <1>1 DEF ExpireQuote, Lifecycle!Expire, Lifecycle!Step, Expired,
              Lifecycle!Expired, Lifecycle!Overdue, Overdue, NoDate,
              Lifecycle!NoDate
<1>3. \A s \in Requests : pc'[s] = "loaded" =>
        pc[s] = "loaded" /\ job'[s] = job[s] /\ job[s].quote # q
  BY DEF SerialInv, Fresh, ExpireQuote
<1>4. /\ \A p \in Quotes \ {q} : quotes'[p] = quotes[p]
      /\ due' = due \ {q} /\ now' = now
  BY DEF ExpireQuote
<1>5. SerialInv'
  BY <1>3, <1>4, UntouchedStep
<1> QED
  BY <1>2, <1>5 DEF Lifecycle!Next

(* QuotesService and the expiry job implement QuoteLifecycle when nobody   *)
(* works on a quote while another does.                                    *)
THEOREM QuotesImplementLifecycle ==
  ASSUME Serial PROVE Spec => ImplementsLifecycle
<1>1. Init => SerialInv /\ Lifecycle!Init
  BY DEF Init, SerialInv, Fresh, Exclusive, DueOverdue, Lifecycle!Init
<1>2. ASSUME Typed, SerialInv, [Next]_vars
      PROVE  SerialInv' /\ (Lifecycle!Next \/ UNCHANGED <<quotes, now>>)
  <2>1. ASSUME NEW r \in Requests, NEW c \in Calls, StartCreate(r, c)
        PROVE  SerialInv' /\ UNCHANGED <<quotes, now>>
    BY <1>2, <2>1, StillStep DEF StartCreate, Goto, Typed, TypeOK
  <2>2. ASSUME NEW r \in Requests, NEW c \in Calls, NEW q \in Quotes,
               FindQuote(r, c, q)
        PROVE  SerialInv' /\ UNCHANGED <<quotes, now>>
    BY <1>2, <2>2, FindSerial DEF FindQuote
  <2>3. ASSUME NEW r \in Requests, NEW c \in Calls, NEW q \in Quotes,
               Forbid(r, c, q)
        PROVE  SerialInv' /\ UNCHANGED <<quotes, now>>
    BY <1>2, <2>3, StillStep DEF Forbid, Goto, Typed, TypeOK
  <2>4. ASSUME NEW r \in Requests,
               \/ SavePrice(r) \/ SaveAccepted(r) \/ SaveRejected(r)
               \/ SaveConverted(r)
        PROVE  SerialInv' /\ Lifecycle!Next
    BY <1>2, <2>4, SaveImplements
  <2>5. ASSUME NEW r \in Requests,
               \/ \E code \in Codes : DrawCode(r, code)
               \/ \E stamp \in Stamps : StampCode(r, stamp)
               \/ RefuseInsert(r)
        PROVE  SerialInv' /\ UNCHANGED <<quotes, now>>
    BY <1>2, <2>5, StillStep
       DEF DrawCode, StampCode, RefuseInsert, Goto, Typed, TypeOK
  <2>6. ASSUME NEW r \in Requests, NEW q \in Quotes, InsertQuote(r, q)
        PROVE  SerialInv' /\ Lifecycle!Next
    BY <1>2, <2>6, InsertImplements
  <2>7. CASE FindOverdue
    <3>1. Fresh' /\ Exclusive'
      BY <2>7 DEF FindOverdue, Fresh, Exclusive
    <3>2. DueOverdue'
      BY <2>7 DEF FindOverdue, DueOverdue, Overdue
    <3> QED
      BY <2>7, <3>1, <3>2 DEF FindOverdue, SerialInv
  <2>8. ASSUME NEW q \in Quotes, ExpireQuote(q)
        PROVE  SerialInv' /\ Lifecycle!Next
    BY <1>2, <2>8, ExpireImplements
  <2>9. CASE FailJob
    BY <1>2, <2>9, StillStep DEF FailJob
  <2>10. CASE Tick
    <3>1. Fresh' /\ Exclusive'
      BY <1>2, <2>10
         DEF Tick, SerialInv, Fresh, Exclusive, Allows, IsOwner, Text,
             Answerable, Priceable
    <3>2. DueOverdue'
      <4> SUFFICES ASSUME NEW q \in due PROVE Overdue(quotes[q], now')
        BY <2>10 DEF Tick, DueOverdue, Overdue
      <4>1. Overdue(quotes[q], now)
        BY <1>2 DEF SerialInv, DueOverdue
      <4>2. /\ now' = now + 1 /\ now \in Nat
            /\ quotes[q].expiresAt \in Int
        BY <1>2, <2>10, QuotesAssumption
           DEF Tick, Typed, TypeOK, QuoteDocs, NoDate
      <4> QED
        BY <4>1, <4>2 DEF Overdue
    <3>3. Lifecycle!Next
      BY <2>10 DEF Tick, Lifecycle!Next, Lifecycle!Tick
    <3> QED
      BY <3>1, <3>2, <3>3 DEF SerialInv
  <2>11. CASE UNCHANGED vars
    BY <1>2, <2>11, StillStep DEF vars
  <2> QED
    BY <1>2, <2>1, <2>2, <2>3, <2>4, <2>5, <2>6, <2>7, <2>8, <2>9, <2>10,
       <2>11 DEF Next, Request, ExpiryJob
<1>3. Typed /\ SerialInv /\ [Next]_vars
        => SerialInv' /\ [Lifecycle!Next]_(Lifecycle!vars)
  BY <1>2 DEF Lifecycle!vars
<1> QED
  BY <1>1, <1>3, AlwaysTyped, PTL DEF Spec, ImplementsLifecycle, Lifecycle!Spec
=============================================================================
