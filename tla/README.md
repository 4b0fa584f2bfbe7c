# zayrel-be in TLA+

Verification project of the zayrel-be shop backend (NestJS 11, Mongoose 8, MongoDB): TLA+
specifications of the handlers that change state, TLC configurations that model-check them on
small instances, and TLAPS proofs of the properties that matter most.

## 1. The system

The program is one Node process over one MongoDB. A handler (HTTP route, gateway or Telegram
webhook, socket event, cron job) is an async function; it runs alone until it awaits (a database
call, an e-mail, an upload) and any other handler may run before it resumes. Nothing is locked, no
transaction is used, and no document version is compared except the one Mongoose itself keeps for
saved arrays: the items of a cart are the only ones written that way, and module Carts has it. Three
kinds of write occur and the models keep them apart:

* `doc.save()` writes the paths the handler changed with respect to the copy it loaded, whatever
  the database holds by then;
* `findByIdAndUpdate(id, {field: value})` overwrites the field with a value computed earlier;
* `$inc`, `$push`, `$pull` are applied by the database to what it holds.

### Inventory

| Component (src/src) | State | Operations that change it | Talks to | What is hard |
|---|---|---|---|---|
| orders | Order, OrderItem; Variant.stock; User.vtoTokens | create (closed at this commit), updatePaymentProof, updateTracking, updateStatus, cancelOrder, archiveOrder, unarchiveOrder | notifications, dashboard, storage | saves from stale copies, partial cancellation, side effects after the save |
| payments | none of its own | initiatePayment, handleWebhook, handlePayPalWebhook | orders, gateways | duplicated, late and reordered webhooks, two order calls of which one fails |
| notifications (Telegram) | messages with buttons | handleCallbackQuery, sendPaymentProofForReview, notifyStatusChange | orders | stale buttons, redelivered callbacks |
| quotes, scheduled-tasks | Quote | create, setPrice, accept/reject (by id, by reference), markConverted, daily expiry | mail | expiry job racing an answer, accept racing reject, price changed under an acceptance |
| cart, coupon, scheduled-tasks | Cart, Coupon | addItem, updateItemQuantity, removeItem, clearCart, applyCoupon, removeCoupon, mergeCart, daily reminder | products | duplicate entries, coupons valid when applied and not when used |
| auth | PasswordResetToken, MagicLinkToken, EmailVerificationToken; User | register, forgot/resetPassword, magic link, verifyEmail, resend | users, mail | check-then-mark of one-time tokens, delete-then-create, an account that changes under a link |
| users | User, address list | create, update, ban, unban, softDelete, addAddress, updateAddress, deleteAddress, setDefaultAddress | - | whole list written from a loaded copy, exactly one default |
| products | Product, Variant, Color, Size, Category, ProductListing | CRUD, assignProductToCategory, createUniqueProduct | - | check-then-delete, stock taken after a check |
| images | Product.images, Image | uploadProductImage, setMainImage, reorderImages, deleteProductImage | Cloudinary | limit of five, list written from a stale copy |
| designs | relatedDesignIds | updateRelated, findRelated | - | bounded search of a graph with cycles |
| game (disabled) | players, drops, coupons, sessions in memory; User.zaycoins | socket events, drop and clean-up jobs | users | disconnect while connecting, cached balance |
| virtual-try-on | User.vtoTokens | none is reached: every call ends with 400 (section 12) | external API | - |
| dashboard | connected streams | notifyStatsUpdate | orders | pushes out of order |
| reports, storage, mail, seed, config | none | queries, formatting, transport | - | nothing to model |

### What makes each component correct

* **orders**: an order shown cancelled has its items back in stock; no piece is returned twice or
  lost; tokens are paid once per completion; no save from an old copy undoes a cancellation or
  drops an uploaded proof; a cancellation that began ends.
* **payments**: an order becomes paid only because a payment of that order was captured or a person
  said so; a capture is seen in the order although reports repeat, cross and overlap.
* **notifications (Telegram)**: a button acts on the order its message shows, and a press that is
  delivered again acts once.
* **quotes, scheduled-tasks**: an answered quote has a price and a date; references are unique;
  prices and answers follow the life cycle; overdue quotes do not stay open, and only overdue ones
  expire.
* **cart, coupon**: one line per variant, no line above the stock that was checked, discounts only
  from coupons that are valid when used.
* **auth**: a one-time link works once, and a newer one replaces the older.
* **users**: a non-empty address book has exactly one default address.
* **products**: the pieces of a variant are in stock or in a unique product made of it, a product has
  one category, nothing refers to a deleted color, size or category that was there when it was
  deleted.
* **images, designs**: no change of the order of images drops one that it did not see; related designs
  are those within the depth, each at its distance.
* **game**: coins are what was earned, from however many connections; nobody sees a player whose
  client left.
* **dashboard**: a screen at rest shows the orders as they are.

## 2. The modules

The order is by what matters most to the shop: money and stock first.

| # | Modules | What | Composition and abstraction |
|---|---|---|---|
| 1 | OrderTypes, Orders, OrderLifecycle, OrdersProps | the order handlers await by await | Orders implements the atomic OrderLifecycle when requests on an order do not overlap |
| 2 | QuoteTypes, Quotes, QuoteLifecycle, QuotesProps | the quote handlers and the expiry job | Quotes implements the atomic QuoteLifecycle when work on a quote does not overlap |
| 3 | Payments, PaymentsProps | checkout sessions, gateway reports, their handling | extends Orders: a report is one or two calls of it; PaymentsSpec implies Spec of Orders |
| 4 | TelegramReview, TelegramProps | review messages, buttons, redelivered presses | extends Orders: messages come of its steps, presses end in its calls; ReviewSpec implies Spec of Orders |
| 5 | Carts, Reminders, CartsProps | carts, coupons, the reminder job | Reminders extends Carts |
| 6 | Addresses, AddressesProps | the address book | the whole list is written: provable under every interleaving |
| 7 | AuthTokens, AuthProps | accounts, sign-in, one-time links | one life cycle of links for the three kinds |
| 8 | Catalog, CatalogProps | products, variants, listings, labels, unique products | - |
| 9 | Images, RelatedDesigns, LibraryProps | pictures of products; the library of designs and its bounded search | the search against walks in the graph |
| 10 | Game, GameProps | connections, drops, hidden coupons, trivia, coins | memory of the process beside the database |
| 11 | Dashboard, DashboardProps | pushed statistics | the saves of the order handlers, seen from the queries |

The MC modules hold the instances: MCOrders, MCQuotes, MCPayments, MCTelegram, MCShop (5) and MCSite
(6 to 11). The parts in MCSite share no state, and so MCSite runs them side by side: a variable
`component`, fixed at the start, says which part a behaviour is of, and the others rest. Every
behaviour of every part is in the one run, and none of them multiplies the states of another. MCShop
does the same with two uses of the carts. Slots that are interchangeable are used in one order
(`InOrder`), which leaves out only renamings.

`Lists` is `Array.prototype.filter`, for Carts and Images. Modules ending in `_proofs` hold the proofs:

| Module | About |
|---|---|
| SumsAndLists_proofs | lemmas: sums and counts over finite sets, lists, induction over Nat and over finite sets |
| Orders_proofs | Orders and its refinement of OrderLifecycle |
| OrderCallers_proofs | Payments and TelegramReview |
| Quotes_proofs | Quotes and its refinement of QuoteLifecycle |
| Accounts_proofs | Addresses and AuthTokens |
| Carts_proofs | Carts and Reminders |
| Catalog_proofs | Catalog, Images and RelatedDesigns |
| Site_proofs | Dashboard and Game, and the parts of MCSite put together |

**Sums, counts and lists in proofs.** A fold is a recursive function over sets; its values are had from
two facts, proved once in `SumsAndLists_proofs` by ordinary induction, which is stated as a fact about
sets (`AllNaturals`: a set that holds 0 and every successor holds Nat; `AllSubsets`: the like of the
finite subsets of a set) and used with the set of those numbers for which a claim holds. From there: a
sum changes by what one summand changes, or by the summand that is added; so do cardinalities. Lists
are had by places: `Filtered(s, K)` of `Lists` is SelectSeq with a set for the test, and
`FilteredIsSelectSeq` of MCShop checks that it is.

## 3. Orders

**Modules.** `OrderTypes` holds the documents and the pure parts of the handlers (which status a
review leaves, how a proof is merged, when a call is refused, when tokens are due). `Orders` is
`OrdersService`, one action per stretch between two awaits. `OrderLifecycle` is the atomic service
callers imagine. `OrdersProps` states the properties, `MCOrders` the instances, `Orders_proofs` the
proofs.

**State.** `orders[o]` is the Order document: `status` and the `paymentProof` subdocument with
`url`, `method`, `status`, `reason`. The proof's `reference` is not kept: the code treats it as it
treats the method. `stock[v]` is Variant.stock, `vtoTokens[u]` is User.vtoTokens. `pc[r]` and
`job[r]` are the local state of a running handler: its call, its order, the copy it loaded, the items
it has returned so far.

| Action | Code (orders.service.ts) |
|---|---|
| FindOrder | findById at the head of every handler, with its early error returns (337-340, 535-537, 568-570) |
| SaveStatus, AwardTokens | updateStatus to its save, then the `$inc` after the notification (480-531) |
| SaveProof | updatePaymentProof: merge, e-mail, save (337-455) |
| SaveTracking | updateTracking (457-478) |
| ReturnItem, SaveCancelled | cancelOrder: one `$inc` per item, then the save (533-552) |
| SaveArchived, SaveUnarchived | archiveOrder, unarchiveOrder (554-575) |
| Abort | any of those awaits throws, or the process restarts |

`Delta` is what `doc.save()` does to a field: it writes the handler's value if it differs from the
one loaded and leaves what is stored otherwise. `cancelOrder` returns its items in the order of the
items query; the model allows any order, which contains it.

**Runs.** Two orders share a variant; one belongs to a user, the other to a guest.

| Run | Question and answer |
|---|---|
| OrdersAll | Any three calls among all the routes and webhooks, interleaved at every await and stopping at any: cancelled orders have their stock back, stock and tokens count exactly what the handlers did, only a call that means to revives a cancelled order. 2.3 million states. |
| OrdersSerial | With one request at a time on an order: the handlers implement OrderLifecycle, no review or notice drops an uploaded file, marking an order paid leaves no proof pending. |
| OrdersApprovalRace | The comments at 410-411 promise that an approval moves only an order that waits for payment. An approval reads the status before it awaits the e-mail and saves after: it overwrites a cancellation or a later status. |
| OrdersDoubleCancel | The guard at 537 means one cancellation per order. Two that load it before either saves both return the items, the later one when the order is cancelled already (`NoReturnOnceCancelled`). |

**Bounds.** Three requests: the races of the code are between two handlers, and the third is the one
that notices (or a step of the path before them, as in cancel, archive, unarchive). Two orders of a
shared variant suffice for sums that mix orders; two variants for a cancellation that is half done.
The number of requests bounds every behaviour, so the runs say CHECK_DEADLOCK FALSE: the system
stops when all requests are used.

**Fairness.** Only in the composition with the payments (section 5), where a cancellation that
returned an item is shown to end with the order cancelled: weak fairness of `Continue(r)`, for each
request, since Node's event loop resumes a handler whose await has settled. No call is ever forced.

**Proved**, for every set of orders, variants, users, calls and requests:

* `TypeCorrect`; in particular no handler stores a status outside the enum.
* `CancelledStock`: the witness of a cancelled order is a finished request, and finished requests
  never change; only two saves make an order cancelled. TypeOK is all the strengthening needed.
* `CancelFinal`: from TypeOK and the definition of `Delta`: a save brings a status back only if the
  handler meant to change the copy it loaded.
* `TokenAccounting`: `TokensExact` needs `SavedAwards`: a request between save and award does have an
  award to pay.
* `SerialWorksOnCurrent`, `UploadsKept`, `PaidMarksVerify`, from the assumption `Serial`: the
  inductive invariant is `Exclusive` (no two requests in flight on an order) and `Fresh` (the copy
  loaded is the document stored, until the save).
* `SerialApprovals`, from the same: what the comment at 410 says of approvals is true while requests
  on an order do not overlap, and so the counterexample of OrdersApprovalRace needs an overlap.
* `SerialReturns`, from the same and `Accepted` (below): no cancelled order gets an item back to stock
  while requests on an order do not overlap, so the counterexample of OrdersDoubleCancel needs an
  overlap too.
* `CancellationsSave`, under every interleaving and with failures: a cancellation that finishes leaves
  its order cancelled, because its copy was not (`Accepted`), so that its save does write. This is what
  a cancellation that ends has achieved; that it ends is the liveness property `CancelCompletes`.
* `StockAccounting`: `StockExact` is inductive with TypeOK. A step that returns an item adds its
  quantity to the stock and the item to `returned` of one request, so the sum over requests and items
  grows by the same; no other step touches either.
* `LifecycleImplemented`: with `Serial` and without failures, Spec implies OrderLifecycle under the
  mapping of OrdersProps. A save is the instant at which a call takes effect, every other step
  stutters. What is needed beside `Exclusive`, `Fresh` and `SavedAwards` is `Accepted`: a handler that is
  under way works on a copy that accepted its call. The stock that callers have agreed to is the
  stored one less what cancellations under way have returned (`Returning`); the save of a cancellation
  gives all of it at once, which is a sum over its order's items.

**Model-checked only**: `CancelCompletes`, a liveness property.

## 4. Quotes

**Modules.** `QuoteTypes` (documents, guards and assignments), `Quotes` (the handlers and the expiry
job await by await), `QuoteLifecycle` (the atomic life cycle), `QuotesProps`, `MCQuotes`,
`Quotes_proofs`.

**State.** `quotes[q]` is the Quote document or `NoQuote` for a free id; `now` counts days; `due` is
what the running job found overdue and has not saved; `pc` and `job` as in Orders.

| Action | Code |
|---|---|
| FindQuote, SavePrice, SaveAccepted, SaveRejected, SaveConverted | setPrice, accept and reject by id and by reference, markConverted (quotes.service.ts 227-406) |
| Forbid | the 403 of acceptQuote and rejectQuote |
| StartCreate, DrawCode, StampCode, InsertQuote, RefuseInsert | create with generateUniqueReference (41-94, 358-369) and the unique index on referenceId |
| FindOverdue, ExpireQuote, FailJob | handleExpiredQuotes (scheduled-tasks.service.ts 195-228): the query, one save per quote, the catch |
| Tick | a day passes |

The owner check of 267 compares `quote.user.toString()`, the text of a populated document, with an
id. The model keeps that difference (`Text`): an owner is refused like everybody else.

**Runs.**

| Run | Question and answer |
|---|---|
| QuotesAll | Any two calls of any route with the job and time in between: answered quotes have a price and a date, references are unique, and with a job that runs every day no quote stays overdue for ever. |
| QuotesSerial | Without overlapping work on a quote, three requests and the job implement QuoteLifecycle. |

**Bounds.** Four quote ids: one pending of a user, one sent to a guest, two free for two creations.
Three codes and one time stamp, and two draws where the code makes ten: two draws give every pattern
of collision, last draw and fallback. A term of one day where the code has seven, and two or three
days: enough to price, let expire, and price a quote again after the date.

**Fairness.** Weak fairness of the job alone: the scheduler starts it daily. A run that fails half way
(`FailJob`) is excluded where the property is liveness: a job that fails every day resolves nothing.

**Proved**, for every collection and all constants: `TypeCorrect` (with `Creating`: a request that
draws holds a reference only when drawn); `ReferencesUnique` (the index: an insert is refused if the
reference is used, and no save touches it); `AnsweredArePriced`, whose inductive invariant `PricedInv`
adds that a loaded copy never knows more than the stored quote, and that quotes found by the job stay
priced; and `QuotesImplementLifecycle`, assuming `Serial`, from `SerialInv` = `Fresh` (loaded copies
are current), `Exclusive` and `DueOverdue` (what the job found is still overdue when it saves).

**Model-checked only**: `OverdueResolved`, a liveness property.

## 5. Payments

**Modules.** `Payments` extends `Orders`; `PaymentsProps`, `MCPayments`, `OrderCallers_proofs`.

**State.** `attempts[a]` is what the gateway holds of a payment a customer initiated, and its order;
`reports` are the reports the gateway has begun to deliver. Nothing else is added: PaymentService
keeps no state. A delivery `<<a, kind, n>>` is the n-th delivery of one report, and owns two request
slots of Orders, because its handler calls OrdersService at most twice.

| Action | Code (payment.service.ts) |
|---|---|
| Initiate, OpenSession | initiatePayment: the check of the order's status (36-53), then the gateway call (107-134); the `manual` method does nothing |
| Report | external: a session fails and is tried again, is deferred to a bank transfer, or captures the money, with or without an id in the notice |
| Receive | handleWebhook and handlePayPalWebhook: a capture calls updateStatus to pagada, the other reports call updatePaymentProof |
| RecordCapture | the second call of a capture, updatePaymentProof to verified; an error of the first call ends the handler (the catch answers received: true) |

Notices for unknown orders or of other types change nothing and are not modelled. The payment type
the proof names is one value for both gateways. Reports are delivered at least once, in any order,
a bounded number of times (`Copies`).

**Runs.**

| Run | Question and answer |
|---|---|
| PaymentsAll | The failure of a session, a capture that is reported twice (with an id) or once (without), and a call of a customer or administrator (upload, cancel, archive, advance) interleave at every await: the order becomes paid only by a capture of it or by a person; after every captured payment the order is, at some moment, pagada and its proof verified; and a cancellation that began to return items ends with the order cancelled (`CancelCompletes` of OrdersProps), whatever the reports do meanwhile. |

**Bounds.** One order and one attempt with seven deliveries-worth of slots and one person: the races
are between two deliveries, or a delivery and a person, on one document. Deferred reports are handled
as failed ones with another proof status; they are covered by the proofs, which take every set of
reports. `ASSUME PaymentsAssumption` ties `Requests` of Orders to the slots and is checked by TLC.

**Fairness.** The first delivery of every report happens, a handler that was begun makes its second
call, and the event loop resumes requests; a repeated delivery need not happen. Failures are excluded
where liveness is checked: with them it fails, since no report is answered with an error and so none
is retried.

**Proved**: `PaymentsTypeCorrect`; `PaymentsUseOrders`, that PaymentsSpec implies Spec of Orders, so
every theorem of section 3 that assumes no `Serial` holds with payments; and `PaidOnlyByCapture`, for
any number of attempts, repeated reports and people, with failures. Its inductive invariant `PaidInv`
says what the slots of a delivery do: they work on the order of the attempt, make the call of the
report's kind, and a capture is only reported of a captured attempt. From the same, `CapturesRecorded`:
whatever overlaps it, the status call of a capture that finishes leaves the order pagada or had loaded
it so, and its proof call does the like with a verified proof. This is the safety half of `CapturePays`
and `CaptureVerifies`; with failures, it says what a call that did finish has achieved.

**Model-checked only**: `CapturePays`, `CaptureVerifies` and `CancelCompletes` (liveness). That an order
is charged once is no property: two sessions opened before either is paid are both captured, and the
check of initiatePayment (44) promises only to refuse an order that is already paid.

## 6. The Telegram group

**Modules.** `TelegramReview` extends `Orders`; `TelegramProps`, `MCTelegram`,
`OrderCallers_proofs`.

**State.** `message[r]` is the message that request `r` posted: not sent yet, one of its keyboards, or
gone. `press[p]` is an update of Telegram: the message, the button, and how far its delivery came.
`cause[r]` says which press made call `r`. The process itself keeps nothing.

| Action | Code |
|---|---|
| RouteCall, Proceed | the order routes; a verification waits for its message to be sent (notifications.service.ts 177-200) |
| Post | sendPaymentProofForReview and notifyStatusChange (telegram.service.ts 50-199); an error is swallowed |
| Press | external: somebody presses a button the message shows |
| Turn | the first tap of approve or reject, and cancel: a new keyboard |
| Delete, Answer, FailAnswer | handleCallbackQuery for a button that acts: deleteMessage, whose errors are swallowed, then the answer, whose errors are not |
| Act | handleWebhook makes the order call (telegram.controller.ts 38-71) and answers 200 whatever becomes of it |

An upload posts its message before it saves and does not wait for it, a verification posts before it
saves and waits, a change of status posts after its save: `PostsBeforeSave`, `AwaitsPost`.

**Run.** `TelegramAll`: three calls, of which up to two come from presses of any buttons shown, each
delivered again whenever the answer fails; the routes either upload, or verify, move and cancel.
`PressActsOnce`: a press of a button that acts makes one call, never two, and does make one although
the message was deleted in a delivery that failed. `ButtonMovesShown`: a workflow button starts from
the status its message shows, unless a third call came between or the message is that of a
verification that is not saved yet or did not move the order. Three calls are the poster of a
message, the press of it, and one that may come between. 587 000 states.

**Fairness.** Telegram delivers an update until it is answered with 200 and does not refuse the answer
for ever (`Persistence`: weak fairness of the delivery and the order call, strong fairness of the
answer). Restarts are left out: they are an error of the webhook before its answer (FailAnswer), or an
order call that stops, which is `Abort` of Orders.

**Proved**: `ReviewTypeCorrect`; `ReviewUsesOrders`, that ReviewSpec implies Spec of Orders, so what is
proved of Spec without `Serial` holds with buttons; `PressActsAtMostOnce`, the safety half of
PressActsOnce, from `ActInv`: a press that made a call is done, no second call is of the same press, and
a press that is done is not delivered again. And `ButtonsMoveOn`, `ButtonMovesShown` for every set of
requests and presses. Its argument:

* `ShownInv`: when no other call has saved the order of a message's request `m` (`Touched`), its status
  is the one `m` loaded, and after the save of an `m` that moves the order on (`MovesOn`) the one it
  announces (`StatusKept`);
* `ButtonInv`: a message shows only a keyboard that its request announces (`MayShow`), a press is of a
  button it offered (`Offered`), and a call that a press caused is that button's, on the order of the
  message (`MadeBy`), by a request that is not the message's own;
* the step of the property is then the save of a call caused by a press: either a third call has
  touched the order, or its status is the shown one.

**Model-checked only**: that a press does act (the liveness half of PressActsOnce).

## 7. Carts, coupons and reminders

**Modules.** `Carts`, `Reminders` (extends it), `CartsProps`, `MCShop`.

**State.** `carts[u]`: the lines in their order, the coupon code, `version` for Mongoose's `__v`, `idle`
for a date of last change that is three days old, `reminded`. `shelf[g]` is a variant's stock, `coupons`
the coupons. The job has the batch it loaded (`batch`, `runPc`).

| Action | Code |
|---|---|
| FindCart, CreateCart | getOrCreateCart (cart.service.ts 30-43), whose two awaits another request may come between |
| CheckStock, CheckCoupon, CheckMinimum | the reads of a variant or a coupon after the cart was loaded |
| SaveCart | the handler's change of its copy and `cart.save()` |
| LoadCart | mergeCart: addItem once for each line of the guest's cart |
| WriteCoupon, SetStock, ExpireCoupon, GrowIdle | coupon.service.ts; the administrator and the clock |
| StartRun, ReadItems, FindReturnCoupon, CreateReturnCoupon, SendReminder, MarkReminded | handleAbandonedCarts cart by cart (scheduled-tasks.service.ts 53-190) |
| CartFails, CrashRun | an e-mail or a mark fails and the next cart follows; the process restarts |

`Written` and `Writable` are what Mongoose makes of a changed array: an appended line is a `$push` and
is not guarded, a changed quantity or a new list is written only if the version is the one loaded,
and a push or a new list raises it. A handler whose write is refused fails. `maxUses` is left out: the
counter it is compared with is written by the closed checkout only.

**Run.** `ShopAll`, two uses side by side. Carts: three calls of one customer on two variants with
coupons and stock changing. Reminders: three abandoned carts, a batch of two, one failure, and one call.
The shop may drop a variant that the first cart is made of, or the first two, which then have nothing
left to show before the others of the batch's order. `LinesKept`: no save drops a line that it did not
see. `LinesWithinStock`: a quantity grows only to what the stock allowed when it was read (or back, by
the one path its comment names). `TotalNotNegative`: with coupons of at most 100 percent.
`RemindedOnce`: a second reminder needs a lost mark. `AbandonedReminded`, under weak fairness of the
job, which the scheduler starts every day: a cart that stays abandoned is reminded, also behind a cart
that has nothing left to show, unless such carts fill the batch before it (`StuckBefore`). The code
takes the first carts of a fixed order and never marks one that it cannot present, so that a whole batch
of them starves every cart behind; the run reaches it, and without the exception TLC finds the starved
cart. That two additions that both find a variant absent push it twice is in the model as in the code,
and so is a coupon that keeps its discount after it expired.

**Proved**, for any shoppers, variants, codes, prices, stocks, calls, batch and number of failures, in
`Carts_proofs`:

* `RemindersTypeCorrect`: with `TypeInv`, which adds what a request at work has loaded, that a merge
  under way has lines left, and that a batch at work is not empty.
* `CopiesAreOld`: the copy a handler works on is of a cart that still exists, its version is no newer
  than the stored one, and at the same version it lists the same items in the same order (`CopyInv`).
  That is what the version of Mongoose is for, and the lemma on which the next two rest: a changed
  quantity, written at a place of the copy, reaches the line it was meant for.
* `LinesStay` (`LinesKept`) and `GrowthWithinStock` (`LinesWithinStock`): a list changes in a save only
  (`ListSaved`), and each of the four ways `Written` changes a list is compared with the copy.
* `OneReminder` (`RemindedOnce`): `MailInv` says that the carts of a batch are distinct and not yet marked,
  and that the mails of a shopper are at most the lost marks, and one more while the cart is marked or
  about to be.
* `TotalsNotNegative`: under the hypothesis `NoCouponOverAll`, which MCShop checks of its instance: no
  stored or written percentage is above 100. The DTOs of the code put no upper bound on it, and
  a larger one does make a total negative.

The hypotheses of the constants: the initial carts are carts or NoCart, the order of the job's query
names no cart twice (`CartOrder` is injective), a merge is of at least one line.

**Model-checked only**: `AbandonedReminded`, a liveness property.

## 8. The address book

**Modules.** `Addresses`, `AddressesProps`, `Accounts_proofs`; the instance is in `MCSite`.

**State.** `accounts[a]` is the part of a User document the handlers of the book touch: `isDeleted`
and the list `addresses`, each address a place (its text fields) and the flag `isDefault`. `pc` and
`job` as in Orders; the copy a handler loaded is its `book`.

| Action | Code (users.service.ts) |
|---|---|
| FindAccount | findOne at the head of every handler, with its early error returns |
| WriteBook | addAddress, updateAddress, deleteAddress, setDefaultAddress (201-331): the new list, written whole |
| WritePatch, WriteDeleted | update (66-94), for the fields of these documents, and softDelete (96-103) |

`update` stores the list of its dto as it is, past the rules of the other four; it is in the model,
and the properties name it as the one source of books without a single default.

**Run.** `SiteAll`, component addresses: any three calls on one book, two places, indexes 1 to 3 and
three lists for update (no default, one, two), interleaved between reading and writing: `DefaultKept`
(no address handler takes the only default away, unless it loaded a list without one) and
`LostOnlyByOverlap` (an address no call names is lost only in a write from a copy that had not seen it).
Three calls are enough for two writes from copies of one list and one that comes after them or between
them; accounts do not interact, so one suffices. The next-state relation forces nothing and no liveness
is claimed; a handler that fails stays `loaded`.

**Proved**, for any accounts, places, calls and requests: `TypeCorrect`, `DefaultIsKept`,
`AddressesLostOnlyByOverlap`, from `AddressInv` (types, and the index of a handler is one of its copy:
`IndexValid`) and one lemma per handler about the list it computes; and `BooksHaveOneDefault`: if
every list that update stores has its single default (`TidyUpdates`), every non-empty book has
exactly one, at every moment. Its invariant `TidyInv` adds that the loaded copies have one too, which is
what makes a late write from an old copy harmless for the default.

## 9. Accounts and links

**Modules.** `AuthTokens`, `AuthProps`, `Accounts_proofs`; the instance is in `MCSite`.

**State.** `members` are the accounts (e-mail, password as stored, verified, banned, deleted); `links`
every link ever made, of the three token collections; `making` the jobs that make links, which a
registration starts and does not wait for; `sessions` the accounts that have tokens; `signPc`,
`signJob` the requests.

| Action | Code (auth.service.ts) |
|---|---|
| Register, AskForLink | register (54-112), forgotPassword and resendVerification |
| ClearLinks, InsertLink, ExpireLink | createMagicLinkToken, sendVerificationEmail, forgotPassword: deleteMany, then create; the TTL |
| FindLink, FindHolder, ActOnMember, MarkLink, FindAgain | resetPassword, verifyEmail, verifyMagicLink, await by await; a magic link is marked before it has its effect, the others after |
| LogIn, Refresh, IssueTokens | login, refreshToken, generateTokens |
| FindOwnAccount, ComparePassword | changePassword |
| Update, SetFlag, SeedAccount | users.service.ts update, softDelete, ban, unban, verifyEmail; the seed at start-up |

**Runs.** `SiteAll`, component auth: one account or none, two requests, two links, and one step of the
administrator, the clock or the seed between them. `OneValidLink`: two links of a kind are valid
together only if their making overlapped. `UsedByItsEffect`: a reset or verification link is used up
only by its effect (`UsedHasActed`), and no request that is through with a link, or about to sign its
holder in, leaves one that works (`DoneIsSpent`). Two links is the least that can supersede, two
requests the least that can use one twice. That a link which two requests found before either marked it
works twice is in the model. `PasswordChange` (a disagreement): changePassword loads the account without
its password, so the right current password is refused; http-requests/auth.http:92 offers the route.

**Proved**: `AuthTypeCorrect`; `LinksUsedByEffect` (`UsedByItsEffect`), from `UsedInv`, which adds that a
request about to mark a link that is not magic has acted (`MarkedLater`) and works on a link that exists
(`Linked`), and from `SpentInv`, which adds that what a request has marked is `Spent`, for good; and
`LinksSuperseded`, from `ValidInv`, which adds that a job about to store its link has deleted all earlier
ones up to the moment it remembers (`Superseded`).

## 10. Catalogue, pictures, designs

**Modules.** `Catalog`, `CatalogProps`, `Catalog_proofs`; `Images` and `RelatedDesigns`, whose properties
are in `LibraryProps`; the instances are in `MCSite`.

**Catalogue.** `products`, `variants`, `listings`, `labels` (colours, sizes, categories) are the
collections. `clock` numbers the writes and is history, as are `stamp`, `cleared`, `counted`, `taken` and
`supply`: they let the properties speak of what was stored before what.

| Action | Code (products.service.ts) |
|---|---|
| StoreProduct, StoreVariant, DeleteDoc, CreateListing, EditListing, CreateLabel | writes of one statement, with the unique indexes |
| FindLabel, CountUses, CountMeasures, DeleteLabel | deleteColor, deleteSize, deleteCategory (348-437): find, count the variants or listings, for a size then count the products with measurements of it, delete |
| FindVariants, ClearCategory, InsertListings, SetShowcase | assignProductToCategory (439-460), removeProductFromCategory, updateShowcase |
| FindSource, SaveUniqueProduct, SaveUniqueVariant, TakePiece | createUniqueProduct (513-577), await by await |

`PiecesAddUp`: what is left of a variant and the unique products made of it are what was supplied (the
stock may go below zero: two calls that both see the last piece both take it, and the run has them).
`OneCategory`: two categories of a product mean overlapping assignments. `DeletedUnused`: what refers to
a deleted label was stored after it was counted, where each of the two counts of a size answers for its
own kind: a variant after the first, a product's measurements after the second.

**Pictures.** `gallery` is Product.images, `records` the Image collection, `files` what Cloudinary
keeps; actions are the awaits of uploadProductImage, setMainImage, reorderImages and deleteProductImage.
`ImagesKept`: an image leaves a list only by its deletion, by an order that names another one twice, or
by an order whose request had read the list before the image was there. `LimitPassedByOverlap`: the
limit of five is passed by overlapping uploads, in the model as in the code, and in no other way: by a
request that read the list before another one wrote it.

**Designs.** `made` and `related` are the library; a search is `findRelated`, two queries for every
level, with the library changing between them. `RelatedRight` compares its result with walks in the
graph: the other designs within the depth, each with the length of the shortest walk, if the library
did not change meanwhile.

**Run.** `SiteAll`, catalogue: one product with a variant of one or two pieces, three requests. The
calls that take several awaits are of one kind in a behaviour (`focus`), the writes of one statement
come in between: pieces (two unique products of the variant, with five writes, which is each of them
to its end and an edit of the stock), labels (a colour, a size and a category deleted beside writes that
use them, the size in measurements as well as in a variant), categories (two assignments), the last two
with three writes. Pictures and designs:
an image limit of two, three uploads, four requests; all graphs on three designs and a missing one,
the depths below, at and above the limits of the code, one change of the library. Three writes are
two that conflict and one that shows it.

**Proved**: `CatalogTypeCorrect`, `LabelsDeletedUnused`, `CategoriesReplaced`, for any catalogue and
number of requests. Both invariants rest on one lemma per step, `Grows`: whatever a step leaves
behind was there before or has a newer number. `UnusedInv` then adds what a deletion knows: since its
first count no variant or listing of the label is older (`UsesAfter`), and since its second, which is a
step of its own, no measurements are (`MeasuresAfter`). `CategoryInv` adds what an assignment that has
cleared knows.

`PiecesAccounted` (`PiecesAddUp`): a unique product's piece is recorded when its own variant is stored,
and its request then waits to take it from the stock, so the pieces recorded and the requests waiting
grow and shrink together. `PieceInv` adds that these sets are finite and that a piece is a variant that
was never stored before: that the stamp of a variant tells, and no write takes a stamp back.

`PicturesTypeCorrect` and `PicturesStay` (`ImagesKept`), for any products, images and requests: `PicturesInv`
says what a request has loaded at each await (`PictureSlotOK`), and that what is on a list now and was
not when it was read has been added since, by the log of the writes (`SinceRead`). `UploadsWithinLimit`
(`LimitPassedByOverlap`), from `LimitInv`: the list is as a request has read it, with room for the
upload it checked, or somebody has written it since (`ReadAsIs`). That a change of the order of a list
does not make it longer is `OrderNotLonger`.

`LibraryTypeCorrect` and `SearchesRight` (`RelatedRight`), for every graph and depth: the invariant
`FoundSoFar` of a breadth-first search. After `d` levels the result is the designs first met by a walk of
1 to `d` references (`HitsTo`), the level to expand is those first met after `d` (`FirstMet`), and those
visited are all met within `d` (`Within`); it is claimed of a search as long as the library has not been
edited since it began. The lemmas say that a design first met after d + 1 references is referred to
by one first met after d, and that nothing lies beyond an empty level.

## 11. Game and statistics

**Game.** `Game`, `GameProps`, `Site_proofs`. `players`, `drops`, `hidden`, `trivia` are the maps the
process keeps, `stored` is User.zaycoins and the skin, `writes` the updates that are on their way: a
handler changes the map and does not wait for the database. Actions are the events of a socket (Connect,
ReadProfile, Enter, Disconnect, ClaimDrop, FindCoupon, JoinTrivia, AnswerTrivia, EquipSkin), the timers
(MoveOn), and ApplyWrite, LoseWrite, Restart. The gateway awaits the answer to a trivia question before
it pays: the reward is `due` until PayReward, which pays nothing if the player has left meanwhile. In
`SiteAll`: two connections of an account or of guests, two updates on their way, one loss or restart; a
behaviour is about a drop, a hidden coupon or trivia (`focus`), with two questions where the code has
five: all right, all but one right, and less are still three rewards. `CoinsAddUp`: the stored coins
with the ones on their way and the ones lost are what the account earned on all its connections.
`GhostsOnlyFromRace`: a player whose client has left is one that left while it was connecting.
**Proved**, for any accounts, connections and updates on their way: `GameTypeCorrect` and
`NoOtherGhosts`, from `GameInv` (a player was made by its connection, with its account; a session counts
no more right answers than answers, and so never more than there are questions); and `CoinsConserved`
(`CoinsAddUp`), from `CoinInv`: what an account has, what is on its way (`CoinsOf`, a sum over the list
of updates, from which any one may be taken) and what was lost change by what it earns, because a drop
is claimed once for a key and a coupon found once on a connection. Accounts and connections are assumed
different keys (`Gamers \cap Sockets = {}`): one are ids of MongoDB, the other of Socket.IO, and a claim
is recorded under either.

**Statistics.** `Dashboard`, `DashboardProps`, `Site_proofs`. An order is what the queries see; a
handler is its save and its notice (`SaveSale`, `NotifyStatsUpdate`), and a computation makes its
queries (`ReadStat`) and shows what it read (`FinishPush`). The queries of the months and of the days of
the trend come one after the other, the two others at any time beside them; the periods asked for are
those of the time when the computation began (`began`), the days of the trend those of the time when the
months had been read (`trendFrom`), whatever time it is when a query is made. `FreshAtRest`: after a
change that notifies, a stream at rest shows the orders as they are. The exceptions are in `AtRest` and
`notified`: a computation overtaken by a later one, and the handlers that notify nobody (cancel,
archive, unarchive, tracking). In `SiteAll`: two orders, a handler for each, three computations,
midnight before them or within one; the pending proofs and the sales of today are queried after the
others. `DashboardSales` (a disagreement): the sums add a field `total` that order documents do not
have, so sales are always 0. **Proved**: `StatisticsFresh`, for any number of orders, handlers and
computations, from `FreshInv`: after a change that notifies, its handler has still to notify or what the
computation begun last has read is still so and its periods are those of now (`Fresh`); and what is on
the screen is what the computation that showed it has read (`ShownIsRead`); and `DashboardTypeCorrect`.

## 12. What is not modelled

* `orders.create` and the checkout answer 503 before anything else at this commit
  (orders.service.ts:43), so orders exist when the models start, and the use of coupons is not counted.
  The game module is commented out of app.module.ts; it is modelled as it stands.
* **Virtual try-on**: its controller looks for the user's id in fields that the JWT strategy does not
  set (virtual-try-on.controller.ts:71), so every call ends with 400 before any change of state.
* **Amounts charged** (payment.service.ts): computed from the items and handed to the gateway; no state
  depends on them.
* **Order access, guards, strategies**: they read and refuse; the models take the calls that got
  through.
* **Reports, mail, storage, configuration**: queries, templates, transport. Their awaits are
  interleaving points of the models, their failures `Abort`, `CartFails`, `FailAnswer` and the like.
* **In the dashboard**, active products and new customers, which nothing in the model changes; **in the
  game**, chat, positions and the disabled redeemZaycoins.
* Two processes on one database: the models interleave handlers at every await, which contains what
  two processes can do between database calls.
* **What the prover cannot reach**: liveness under fairness (`OverdueResolved`, `CapturePays`,
  `CaptureVerifies`, `CancelCompletes`, `AbandonedReminded`, and of `PressActsOnce` that a press does
  act). TLC checks them; what the steps they wait for achieve is proved for three of them
  (`CapturesRecorded`, `CancellationsSave`). Every other property of a run without a counterexample is
  a theorem. `SiteTypeOK` of MCSite is one too: `SitePartsRun` shows that a behaviour of the site is a
  behaviour of every part, which rest in it or move by their own steps, and `SiteTypeCorrect` follows
  from the type theorems of the parts.

Overlaps that the code allows and no property forbids are in the models and in the list of hazards
of PROJECT.json: an archived cancellation that is unarchived as completada; an expiry that overtakes
an answer; the owner of a quote who is always refused; a variant pushed twice
into a cart.

## 13. Reading and running

`tlc -config OrdersAll.cfg MCOrders` and so on for each cfg. The module of a cfg is the MC module of
its prefix; `ShopAll` is of MCShop, and `SiteAll`, `PasswordChange` and `DashboardSales` are of MCSite.
Eight runs end without an error; OrdersApprovalRace, OrdersDoubleCancel, PasswordChange and
DashboardSales end with a counterexample to what a comment or a document of the repository says. All
runs say CHECK_DEADLOCK FALSE, since request slots bound every behaviour.

`tlapm X_proofs.tla` with X one of SumsAndLists, Orders, OrderCallers, Quotes, Accounts, Carts, Catalog,
Site. Definitions marked "Faulty variant" are not part of the specifications: each is a plausible
bug of the definition after it, and the property it is paired with in PROJECT.json must fail when it
takes its place.
