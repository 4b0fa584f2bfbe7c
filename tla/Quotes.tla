------------------------------- MODULE Quotes -------------------------------
(***************************************************************************)
(* QuotesService (quotes/quotes.service.ts) and the daily expiry job of    *)
(* ScheduledTasksService, at the grain of their awaits.  A handler checks  *)
(* the copy it loads and saves the fields it changed in that copy; other   *)
(* handlers and the job run in between.                                    *)
(*                                                                         *)
(* A request handles one call and is used once.  With Serial, nobody works *)
(* on a quote while a request, or the job, does.                           *)
(***************************************************************************)
EXTENDS QuoteTypes

CONSTANTS
  Calls,        \* the calls the environment makes
  Requests,     \* request slots, each used for one call
  MaxAttempts,  \* draws of a reference code before the fallback, 10
  Serial,       \* TRUE: no overlapping work on a quote
  MayFail       \* TRUE: a run of the job may stop half way

(* The routes of quotes.controller.ts that change state.                   *)
AllCalls ==
  [op : {"create"}, user : Users \cup {Guest}]
  \cup [op : {"setPrice"}, quote : Quotes, price : Prices]
  \cup [op : {"acceptQuote"}, quote : Quotes, user : Users]
  \cup [op : {"rejectQuote"}, quote : Quotes, user : Users,
        reason : Reasons \cup {None}]
  \cup [op : {"acceptByReference"}, ref : Refs]
  \cup [op : {"rejectByReference"}, ref : Refs, reason : Reasons \cup {None}]
  \cup [op : {"markConverted"}, quote : Quotes, order : Orders]

ASSUME RequestsAssumption ==
  /\ Calls # {} /\ Calls \subseteq AllCalls
  /\ Quotes # {}
  /\ MaxAttempts \in Nat
  /\ Serial \in BOOLEAN
  /\ MayFail \in BOOLEAN

VARIABLES
  quotes,   \* collection "quotes"
  now,      \* the day
  due,      \* quotes the running job found overdue and has yet to save
  pc,       \* control state of every request
  job       \* what every started request works on

vars == <<quotes, now, due, pc, job>>

PCs == {"new", "loaded", "forbidden", "drawing", "drawn", "done", "failed"}

Jobs == [call : Calls, quote : Quotes, doc : QuoteDocs,
         ref : Refs \cup {None}, attempts : 0..MaxAttempts]

IdleJob == [call     |-> CHOOSE c \in Calls : TRUE,
            quote    |-> CHOOSE q \in Quotes : TRUE,
            doc      |-> NoQuote,
            ref      |-> None,
            attempts |-> 0]

TypeOK ==
  /\ quotes \in [Quotes -> QuoteDocs]
  /\ now \in 0..MaxNow
  /\ due \subseteq Quotes
  /\ pc \in [Requests -> PCs]
  /\ job \in [Requests -> Jobs]

Init ==
  /\ quotes = InitQuotes
  /\ now = 0
  /\ due = {}
  /\ pc = [r \in Requests |-> "new"]
  /\ job = [r \in Requests |-> IdleJob]

-----------------------------------------------------------------------------
Goto(r, at) == pc' = [pc EXCEPT ![r] = at]

(* r has loaded a quote and works for one of the operations.               *)
At(r, ops) == pc[r] = "loaded" /\ job[r].call.op \in ops

Delta(stored, loaded, value) == IF value # loaded THEN value ELSE stored

(* quote.save(): the fields whose value differs from the loaded one.       *)
Merge(stored, loaded, new) ==
  [ref       |-> stored.ref,
   user      |-> stored.user,
   status    |-> Delta(stored.status, loaded.status, new.status),
   price     |-> Delta(stored.price, loaded.price, new.price),
   reason    |-> Delta(stored.reason, loaded.reason, new.reason),
   expiresAt |-> Delta(stored.expiresAt, loaded.expiresAt, new.expiresAt),
   order     |-> Delta(stored.order, loaded.order, new.order)]

Save(r, new) ==
  /\ quotes' = [quotes EXCEPT ![job[r].quote] = Merge(@, job[r].doc, new)]
  /\ Goto(r, "done")
  /\ UNCHANGED <<now, due, job>>

(* toString() of a populated user prints the document, not its id.         *)
Text(user) == <<"document", user>>

IsOwner(doc, user) == doc.user # Guest /\ Text(doc.user) = user

ByOwner == {"acceptQuote", "rejectQuote"}
ByReference == {"acceptByReference", "rejectByReference"}

(* The quote a call names, by id or by reference.                          *)
Names(c, q) ==
  /\ quotes[q].status # None
  /\ IF c.op \in ByReference THEN quotes[q].ref = c.ref ELSE c.quote = q

(* The checks of the handler on the quote it loads.                        *)
Allows(c, doc) ==
  /\ c.op = "setPrice" => Priceable(doc)
  /\ c.op \in ByOwner => IsOwner(doc, c.user)
  /\ c.op \in ByOwner \cup ByReference => Answerable(doc)

Begin(r, c) ==
  /\ pc[r] = "new"
  /\ c.op # "create"

FindQuote(r, c, q) ==
  /\ Begin(r, c)
  /\ Names(c, q)
  /\ Allows(c, quotes[q])
  /\ Serial => /\ q \notin due
               /\ \A s \in Requests : pc[s] = "loaded" => job[s].quote # q
  /\ Goto(r, "loaded")
  /\ job' = [job EXCEPT ![r] = [IdleJob EXCEPT !.call = c, !.quote = q,
                                               !.doc = quotes[q]]]
  /\ UNCHANGED <<quotes, now, due>>

(* acceptQuote and rejectQuote answer 403 to whom they do not take for the *)
(* owner.                                                                  *)
Forbid(r, c, q) ==
  /\ Begin(r, c)
  /\ Names(c, q)
  /\ c.op \in ByOwner
  /\ ~ IsOwner(quotes[q], c.user)
  /\ Goto(r, "forbidden")
  /\ job' = [job EXCEPT ![r] = [IdleJob EXCEPT !.call = c, !.quote = q,
                                               !.doc = quotes[q]]]
  /\ UNCHANGED <<quotes, now, due>>

SavePrice(r) ==
  /\ At(r, {"setPrice"})
  /\ Save(r, WithPrice(job[r].doc, job[r].call.price, now))

SaveAccepted(r) ==
  /\ At(r, {"acceptQuote", "acceptByReference"})
  /\ Save(r, Accepted(job[r].doc))

SaveRejected(r) ==
  /\ At(r, {"rejectQuote", "rejectByReference"})
  /\ Save(r, Rejected(job[r].doc, job[r].call.reason))

SaveConverted(r) ==
  /\ At(r, {"markConverted"})
  /\ Save(r, Converted(job[r].doc, job[r].call.order))

-----------------------------------------------------------------------------
(* create, once the variant and the user are loaded and the dto accepted.  *)
StartCreate(r, c) ==
  /\ pc[r] = "new"
  /\ c.op = "create"
  /\ Goto(r, "drawing")
  /\ job' = [job EXCEPT ![r] = [IdleJob EXCEPT !.call = c]]
  /\ UNCHANGED <<quotes, now, due>>

Used(ref) == \E q \in Quotes : quotes[q].ref = ref

(* generateUniqueReference: a random code that no quote has, else another  *)
(* draw ...                                                                *)
DrawCode(r, code) ==
  /\ pc[r] = "drawing"
  /\ job[r].attempts < MaxAttempts
  /\ IF Used(code)
       THEN /\ job' = [job EXCEPT ![r].attempts = @ + 1]
            /\ UNCHANGED pc
       ELSE /\ job' = [job EXCEPT ![r].ref = code]
            /\ Goto(r, "drawn")
  /\ UNCHANGED <<quotes, now, due>>

(* ... and after so many draws a code made of the time, unchecked.         *)
StampCode(r, stamp) ==
  /\ pc[r] = "drawing"
  /\ job[r].attempts = MaxAttempts
  /\ job' = [job EXCEPT ![r].ref = stamp]
  /\ Goto(r, "drawn")
  /\ UNCHANGED <<quotes, now, due>>

(* Faulty variant: the schema declares no unique index.                    *)
InsertQuoteUnindexed(r, q) ==
  /\ pc[r] = "drawn"
  /\ quotes[q].status = None
  /\ quotes' = [quotes EXCEPT ![q] = Pending(job[r].call.user, job[r].ref)]
  /\ Goto(r, "done")
  /\ UNCHANGED <<now, due, job>>

(* The insert, which the unique index on referenceId lets through ...      *)
InsertQuote(r, q) ==
  /\ pc[r] = "drawn"
  /\ quotes[q].status = None
  /\ ~ Used(job[r].ref)
  /\ quotes' = [quotes EXCEPT ![q] = Pending(job[r].call.user, job[r].ref)]
  /\ Goto(r, "done")
  /\ UNCHANGED <<now, due, job>>

(* ... or refuses with a duplicate key error.                              *)
RefuseInsert(r) ==
  /\ pc[r] = "drawn"
  /\ Used(job[r].ref)
  /\ Goto(r, "failed")
  /\ UNCHANGED <<quotes, now, due, job>>

-----------------------------------------------------------------------------
(* Faulty variants: the query forgets the status, or names the wrong one.  *)
FindAnyOverdue ==
  /\ due = {}
  /\ Serial => \A r \in Requests : pc[r] # "loaded"
  /\ due' = {q \in Quotes : quotes[q].expiresAt \in 0..(now - 1)}
  /\ UNCHANGED <<quotes, now, pc, job>>

FindOverduePending ==
  /\ due = {}
  /\ Serial => \A r \in Requests : pc[r] # "loaded"
  /\ due' = {q \in Quotes : /\ quotes[q].status = "pending"
                            /\ quotes[q].expiresAt \in 0..(now - 1)}
  /\ UNCHANGED <<quotes, now, pc, job>>

(* handleExpiredQuotes: the query, once a day ...                          *)
FindOverdue ==
  /\ due = {}
  /\ Serial => \A r \in Requests : pc[r] # "loaded"
  /\ due' = {q \in Quotes : Overdue(quotes[q], now)}
  /\ UNCHANGED <<quotes, now, pc, job>>

(* Faulty variant: a status the schema's enum does not have.               *)
ExpireQuoteMisspelt(q) ==
  /\ q \in due
  /\ quotes' = [quotes EXCEPT ![q].status = "vencida"]
  /\ due' = due \ {q}
  /\ UNCHANGED <<now, pc, job>>

(* ... then one save per quote found, of the status alone.  The copy it    *)
(* holds says sent, so the status is always written.                       *)
ExpireQuote(q) ==
  /\ q \in due
  /\ quotes' = [quotes EXCEPT ![q].status = "expired"]
  /\ due' = due \ {q}
  /\ UNCHANGED <<now, pc, job>>

(* A failing save ends the run; what is left waits for the next one.       *)
FailJob ==
  /\ MayFail
  /\ due # {}
  /\ due' = {}
  /\ UNCHANGED <<quotes, now, pc, job>>

Tick ==
  /\ now < MaxNow
  /\ now' = now + 1
  /\ UNCHANGED <<quotes, due, pc, job>>

-----------------------------------------------------------------------------
Request(r) ==
  \/ \E c \in Calls : \/ StartCreate(r, c)
                      \/ \E q \in Quotes : FindQuote(r, c, q) \/ Forbid(r, c, q)
  \/ SavePrice(r)
  \/ SaveAccepted(r)
  \/ SaveRejected(r)
  \/ SaveConverted(r)
  \/ \E code \in Codes : DrawCode(r, code)
  \/ \E stamp \in Stamps : StampCode(r, stamp)
  \/ \E q \in Quotes : InsertQuote(r, q)
  \/ RefuseInsert(r)

ExpiryJob ==
  \/ FindOverdue
  \/ \E q \in Quotes : ExpireQuote(q)

Next ==
  \/ \E r \in Requests : Request(r)
  \/ ExpiryJob
  \/ FailJob
  \/ Tick

Spec == Init /\ [][Next]_vars

(* The scheduler runs the job every day and the event loop resumes it.     *)
FairSpec == Spec /\ WF_vars(ExpiryJob)
=============================================================================
