# Zen Store backend: a TLA+ model

Zen Store sells games, Steam accounts and game packages. Its backend is one
NestJS process in front of MongoDB, Redis, Stripe, a cloud image store and a
mail server. The process is single threaded, but every handler awaits its
database and its services, so handlers interleave at every `await`. The code
uses neither transactions nor versions: a handler reads a document, checks the
copy it read, and later writes with `updateOne({ _id }, ...)`. Almost everything
that is hard here follows from that, from Stripe's at-least-once delivery, and
from failures between two steps.

Paths below are relative to the repository; `order.service.ts` is
`src/modules/order/order.service.ts` and so on.

## 1. Inventory

| Component | State | Operations | Hard behaviour | Correct when |
|---|---|---|---|---|
| Orders (`modules/order`) | `orders` collection: status, method, amounts, coupon, `paidAt`, refund and transfer fields | create, checkout, webhook, cancel, update status, submit transfer; reads and statistics | every write is by `_id` alone on a copy read earlier; deliveries late, repeated, lost | payments, refunds, evidence and statuses are each explained by what happened |
| Stripe client (`commen/service/stripe.service.ts`) | none; sessions and intents live at Stripe | open session, create coupon, verify a delivery; refund and intents have no caller | signature over raw bytes; delayed methods; retries; acknowledgement | only a captured payment is confirmed, and each is in the end |
| Pricing (in `order.service.ts`, `coupon.service.ts`) | none | list price, discount, unit amount, amount off | rounding on one path and not on another, caps, zero | what Stripe charges is what the order says |
| Coupons (`modules/coupon`) | `coupons` collection: code, window, limit, `usedCount`, active | create, update, delete, validate, apply | limit checked and counted in two awaits; failures after counting; administrators overtaking each other | codes unique, uses accounted for, overuse bounded |
| Accounts (`auth`, guards, tokens, `User`) | users: code and its expiry, password, phone, freeze and delete marks; tokens | sign up, confirm, log in, log in with Google, forget and reset password, refresh, freeze | one code for two purposes; mail sent before the code is stored; code read and cleared in different awaits; hooks that seal and open secrets at each save and find | a code works once, for its purpose, in its time; secrets are sealed once; frozen accounts stay frozen |
| Catalogue administration (`modules/SuperAdmin`) | games and packages: price, offer, final price, active, popular, deleted | create, update, delete, toggle | toggles are a read and a write; update hooks see the update alone and save hooks the copy alone | an offer's final price fits its price and discount; what is deleted stays deleted |
| Catalogue reads (`modules/game`, `modules/packages`) | Redis or memory cache with a time to live | lists, details | a cached list is never invalidated; an old list may be stored after a change | an answer was once true, and is true again a time to live after the last change |
| Categories and uploads (`modules/category`, `commen/multer`) | categories with a logo `{secure_url, public_id}`; images of games and packages; cloud files | create, update, delete, upload, destroy | upload, write and destroy are three awaits; two updates hold the same old logo | a stored logo exists; every file is accounted for |
| Requests in and out (`commen/middleware`, `guards`, `interceptors`, `filters`) | windows of the limiters, counters of `MetricsCollector` | count, refuse, admit, time out, answer | a timer answers for a handler that goes on; errors escape before and after the answer; the status that is counted is set by one layer and sent by another | every request is answered, once |
| Monitoring and alerts (`commen/services/monitoring.service.ts`, `monitoring`) | active alerts, cooldowns | collect on an interval, raise, resolve, send, reset | a collection starts while the last one still awaits its mails; an alert is found by the text of its metric | no alert without its condition; raisings a cooldown apart; what stays wrong is raised |
| Health checks (`health`) | request counters nobody fills | probes that set 200 or 503 and answer by themselves | the interceptor counts what they set, so an outage they see raises the error rate | each 503 is counted once |
| Security monitoring (`security-monitoring.service.ts`) | counts of events | count, log | - | - |
| Bootstrap and body parsing (`main.ts`, `app.module.ts`) | the order of the parsers and the layers | - | the first parser that matches consumes the body | the webhook sees the signed bytes |
| Errors, logging, versions, API documentation | none that a handler reads | formatting | none | - |
| Request validators (`modules/order/validators`) | none; they read the game | checks of one request | the game may change between four readings | an order fits a game that was on sale |
| Mail and encryption | none | calls out of the process; masking | a value encrypted or decrypted once too often | what is stored encrypted can be read by whom it is meant for |

How they meet. `createOrder` calls `CouponService.validateCoupon` and
`applyCoupon`, takes the price from the game or package the catalogue stores,
and inserts the order. `checkout` builds a line from the order's amounts, makes a
Stripe coupon of the same value when it can, and opens a session whose metadata
names the order. Stripe calls `/order/webhook` until it is answered with a 2xx;
the handler asks Stripe for the intent of the session and writes the order.
Customers cancel and submit wallet transfers, administrators set the status, all
on the same document. Before any of it, two validators and `createOrder` itself and
the order's save hook each read the game, which administrators change; the
customers' lists come from a cache that administrators do not touch. Every request
passes the limiters, the guards and the interceptors, whose counters the interval of
the monitoring service samples.

## 2. Modules

| Module | What it is |
|---|---|
| `Pricing` | Arithmetic of an order: `ListPrice`, `Discount`, `RoundCents`, `Charge`, as operators. |
| `Orders` | The order handlers, the Stripe account they use, the safety and liveness properties. |
| `OrderContract` | What the order subsystem promises, with no handlers: a status changes by a decision that was allowed when it was made; confirmed means captured; captured is confirmed in the end. |
| `Coupons` | The coupon handlers and the part of `createOrder` that spends a coupon. |
| `Sales` | Extends `Coupons` with the terms of each coupon and the discounts orders get under them. |
| `AccountContract` | What accounts promise, with no handlers, codes' lives or copies: a door opens to an unused code from the account's own mailbox, a password changes for who opened that door. |
| `Accounts` | `AuthService`, its tokens, `AuthGuard`, and the hooks of the user schema. |
| `Catalogue` | The administrators' handlers on games and packages, and the hooks of the two schemas. |
| `Storefront` | Extends `Catalogue` with the customers' reads and the cache they fill. |
| `Files` | Categories, their logos, the images of games and packages, and the cloud. |
| `Intake` | The four checks of an order's account fields against a game that changes. |
| `Desk` | Extends `Intake` with the paged lists of orders, and the transfer number with the hook that opens or masks it. |
| `Gateway` | Middleware, limiters, guards, interceptors, timer and filter around a handler, and what they count. |
| `Alerts` | The collections of `MonitoringService`, cooldowns, mails. |
| `Operations` | `Gateway` and `Alerts` around one `MetricsCollector`. |
| `MCOrders`, `MCCoupons`, `MCAccounts`, `MCStorefront`, `MCFiles`, `MCDesk`, `MCOperations` | Small instances for TLC. |
| `OrdersProofs` (with the prices and the order contract), `CouponsProofs`, `SalesProofs`, `AccountsProofs` (with the account contract), `StorefrontProofs`, `FilesProofs`, `DeskProofs`, `OperationsProofs` | Theorems. |

`PROJECT.json` maps each definition to the lines it stands for.

### Orders

A request in flight is a slot with a program counter (`reqs`). One action reads
and checks, a later action writes:

| Action | Code |
|---|---|
| `CreateOrder` | `createOrder`, its insert; nobody else can see the order before it |
| `CheckoutRead`, `CheckoutPrice`, `CheckoutSession` | `checkout`: the query, the line with or without the Stripe coupon, the session |
| `WebhookVerify`, `WebhookWrite` | `StripeService.webhook` (signature, event, intent), then the update of the order and the answer |
| `CancelRead`, `CancelWrite` | `cancelOrder` |
| `UpdateRead`, `UpdateWrite` | `updateOrderStatus` |
| `TransferRead`, `TransferUpload`, `TransferWrite` | `submitWalletTransfer` |
| `Complete`, `Settle`, `Expire` | Stripe (external): the customer pays or lets the session run out; a delayed payment succeeds or fails |
| `Fail` | a call throws, or the process stops, anywhere between two steps |

The request remembers the status it read (`read`), which is all a later step
takes from the copy that another handler could have changed; the other fields
a handler reads are never changed after the insert (theorem `NothingIsTakenBack`),
so they are looked up when used. A write names the fields it sets and leaves the
others as they are *now*, as `$set` does.

Three variables do not exist in the code. `seen` (the statuses an order has
had), and `stale` (the slots whose order another handler has written since they
read it) are histories for the properties; no guard reads them. `images` are
the pictures in the cloud store.

Data that no property tells apart is a flag: the transfer's image, number and
date are one field (`evidence`), the name of the Insta account another; the
refund's amount is always the total, so the refund is a flag. Ownership is left
out: `CancelRead` and the others stand for requests of the order's own customer.

Left out of `Orders`: the coupon's counter, which `Coupons` models, the account
fields and currencies, which no handler branches on after creation, and reads.

### Pricing

An amount is a number of grains; `Grain` grains make a cent, so that a
percentage may leave a fraction of a cent and rounding is visible. The code's
doubles also carry a binary error of about 1e-13; it is not modelled.

### Coupons

`CreateRead`/`CreateWrite`, `UpdateRead`/`CodeRead`/`UpdateWrite` and `Delete` are the
administrator's (`CodeRead` is the second await of `updateCoupon`, which looks for a new code); `Validate`, `Apply` and `Insert` are the three awaits of
`createOrder` that concern a coupon. `CreateWrite` and `UpdateWrite` take effect
only under the unique index on `code`, which MongoDB keeps (external). A coupon
is also used after it was deleted: `Apply` then matches no document, and the
order is inserted all the same. `limits` and `lost` are histories; `placed`
counts orders by `couponId`.

The dates of an update are compared only when one of them is truthy. A date that is cleared
(null or empty) is stored as null and read as the epoch, so `Date` has `Epoch` besides the times
of the clock: an update that clears the end of a window turns it around unchecked, and one
that clears its beginning only widens it.

`Sales` adds what the same awaits do to amounts. Each of its actions is an action of
`Coupons` with more conjuncts, so what holds of `Coupons` holds of it; it takes no
decision of its own but `Accepts` (the minimum order) and `Sane` (a percentage over
100 is refused when type and value are both given). `terms` are the documents'
type, value, minimum and maximum, `forms` those in an administrator's request,
`deals` the amounts `createOrder` carries from `validateCoupon` (`Promise`) to its
insert (`Sell`), `bills` the amounts in the orders that hold a coupon's id. `cost` sums
their discounts, and `offered` collects the terms each coupon had while
`getCouponDetails` called it valid (`Usable`); both are histories.

### Accounts

A request reads the user, changes its copy and saves it; Mongoose writes the
modified fields of the copy over what is stored by then. So a slot holds the copy
(`doc`) and the names of its modified fields (`dirty`), and `Written` is what a save does:
`pre('save')` puts a layer on a modified password and a modified phone, and `Merged`
takes the modified fields and leaves the others. `post('findOne')` takes a layer off the
phone of every copy, which marks it modified: so every save of a loaded copy
encrypts the phone again. A layer too many or too few is the failure
`SecretsSealedOnce` looks for. Login reads and signs, and is one step.

| Action | Code |
|---|---|
| `SignupRead`, `SignupCreate`, `Save` | `signup`: look for the address and mail the code; create; save the code |
| `ReSendCode`, `ForgetPassword`, `Confrim`, `ResetPassword`, `FreezeAccount`, each followed by `Save` | the handlers of those names: read and check, then save |
| `ConfirmForgetPassword`, `SaveAndSign` | save the cleared code and sign the reset token |
| `Login`, `GoogleLogin`, `GoogleRead`, `GoogleCreate`, `RefreshToken` | sessions |
| `Tick`, `Fail` | time, and a throw or a stop between two steps |

`mails`, `spent` and `late` are histories. `mails` also stands for the knowledge of
codes; a mail that is lost is one nobody answers. A code is generated once: six
random digits may repeat within their life, and the model does not follow that.

`AccountContract` sees an account as one of none, unconfirmed, confirmed (`Standing`), with
a password, and a request as what it was allowed on the state it read (`Grant`): the handler
that will save `isConfirm` was allowed to confirm, one about to sign a reset token to open that
door, and so on. A request that only stores a new code is allowed nothing. Sessions and trust are
the tokens (`HoldersOf`), and the mailbox is `mails`.

### Catalogue and Storefront

A body is a record of the fields it gives, so that an update that leaves out `type` or
`isOffer` is one. A game is changed by `updateOne` in one step, and its hook sees the
update alone (`UpdatedGame`). A package is loaded, assigned to, checked by the save hook, and
saved (`LoadPackage`, `SavePackage`); only the fields that differ from the loaded ones are
written. `addGame` waits for uploads between its look for the name and its insert, and
`toggleGamePopular` between its read and its write. `patched`, `revived` and `raced` are
histories that name the exceptions the properties leave out; each is a thing the
code really does (an update checked without the stored fields, a deleted game
switched on again, a save over newer prices).

`Storefront` has three kinds of cached answers. A reader that missed the cache looks
(`Lookup`), asks the database (`Fetch`) and stores (`Store`), each an await of its own.
The cache's times are milliseconds, as version 7 of the cache manager takes them.
The whole list of a category and its first page have one key, so either may be the
answer to both (`Answers`). The reads without the cache are operators of `Catalogue`
(`GetGameById`, `ListGames` and the others). `getSteamGameById` asks for neither mark, and
shows a game that is switched off or deleted; no property speaks of it.

### Files

`Creat`, `CreatUpload`, `CreatCategory`; `Update`, `UpdateUpload`, `UpdateDestroy`, `UpdateWrite`;
`DeleteCategory`, `DeleteCategoryRemove`; and the images: `UploadImage`, `ImageUpload`, `Attach`.
A file gets a new identity at each upload. `torn` names the categories a failure
or an old copy has spoiled and `leaked` the files nothing will remove. A category whose
logo is gone can never be deleted, since the cloud's refusal to destroy it again
stops the handler: the guard of `DeleteCategory`.

### Intake and Desk

`createOrder` asks whether the account fields fit the game four times: the validator of
`accountInfo` and that of `packageId` (at once, in any order; `Validate`), the
handler (`ReadGame`, `ReadPackage`), and the save hook (`Hook`), with the insert after it. The
questions differ, and so do the operators: the packageId validator is skipped when there is no
packageId, the handler asks about the fields of Steam games only, the hook does not ask
whether the game is active. A value counts by its form.

`Desk` lets a reader go through the pages of a list while orders are placed. The
administrators' list takes count and page in one aggregation, the customers' in two
queries. `findWithPopulate` holds a page to 100 orders while the skip is computed from the limit
that was asked for; `PageSize` and `Skip` say so, and `WalkComplete` leaves that case out.
`Found` is the find hook on the transfer number. A number is one of three digits or a longer one, open or
`sealed`: the DTO takes three digits, and `maskData` returns these in full. A transfer may be submitted by
overlapping requests that all read the order before; the last write stays.

### Gateway, Alerts, Operations

A request goes through `RateLimitMiddleware`, CSRF, the limiter of its route, the guards, the
interceptors and the handler. `code` is `response.statusCode`, which several layers set and
`LoggingInterceptor` reads. It reads it before `AllExceptionsFilter` sets the status of an
exception: an exception that a handler throws is counted as a success, which the run `errors` shows, and
`ErrorAlertExplained` says what is left to raise the error rate: the timer, errors outside the
handler's promise, which reach the domain any number of times (`HandleUncaughtError`), and health probes,
which set 503 themselves (`Probe`). The timer answers once and the handler goes on: its late answer is
lost, its late count is not. Only the last response times are kept, 1000 in the code (`MaxResponseTimes`). The auth limiter gives back successes and the upload limiter
failures, at the answer that is really sent. In the repository as it is, only
`auth/freeze-account` has the strict limiter, and the upload limiter's paths are those of
no route. A full limiter does not count requests that are not followed (a bound).

A collection is a slot of `passes`. It takes its samples and its time at once
(`Collect`), and stops at the first alert it raises, for its mails. `AlertSent` goes on to the
next metric with the time and the samples of the beginning; `SendHangs` is a
mail that never comes back. `cpu_usage` has no rule whose metric contains its name; in development the
configuration leaves out rules, hence the constant `Metric`. A health alert is never resolved.

## 3. What the runs check

| Run | Instance | Shows |
|---|---|---|
| `orders` | 1 order, 2 requests at once, 2 sessions, 4 purchases, half-cent grains; symmetric | `TypeOK`, five invariants, two action properties, and that the handlers implement `OrderContract` |
| `orders_live` | 1 order, 2 requests, 1 session, `FairSpec` | every captured payment is confirmed in the end |
| `refund_on_reject` | 1 order, 2 requests | violation: a paid order is rejected without refund |
| `webhook_json` | as `orders_live`, parsers in the order of `main.ts` | violation: no captured payment is ever confirmed |
| `coupons` | 2 coupons, 2 codes, 2 requests, clock 0..1, 3 uses, 1 price, terms changed from a percentage to a fixed amount; symmetric | unique codes, uses that add up, bounded overuse, discounts that were on offer and cost no more than they may, windows turned around only by updates whose check did not see it |
| `accounts` | 1 address, 2 passwords, 2 requests at once, 3 codes, clock 1..2; symmetric | secrets sealed once, spent codes gone, codes kept to their purpose, resets in time, freezing final, and that the handlers implement `AccountContract` |
| `storefront` | 1 game, 1 package, 2 administrators, 1 reader, 5 requests, complete, partial and wrong bodies, `FairSpec` | `TypeOK`, offers, marks, deleted packages, what answers show, and that stale answers end |
| `files` | 2 categories, 1 image, 4 files, 2 requests; symmetric | logos that can be shown, files accounted for, removal after the logo |
| `desk` | a plain and an address field, 3 versions of the game, 3 bodies, 3 orders, pages of 1 to 3 with a maximum of 2 | orders placed as offered, walks that miss nothing, transfer numbers sealed once, open to administrators and masked to customers but for three digits |
| `review` | as `desk` | violation: the review of a transfer has no number to show |
| `operations` | 1 request, a login or a health probe, 2 escaped errors, 2 response times kept, 2 collections, 2 metrics, clock 1..2, `FairSpec` | explained error alerts and counts, raisings apart, every request answered, a lasting excursion raised |
| `errors` | as `operations`, 1 collection | violation: all requests end in errors and no alert is raised |

Properties of `Orders`:

- `PaidInFull`: a payment date needs a card payment of that order that captured its total,
  to within half a cent, and more than nothing, whatever deliveries are late, repeated, or about
  delayed methods. An order made free by its coupon opens a session without an intent, whose
  completion must not be taken for a payment.
- `AcknowledgedIsRecorded`: once Stripe has its 2xx, and will not deliver again,
  the payment is on the order; a crash between verifying and writing loses nothing.
- `ChargeMatchesTotal`: each open or paid session asks for the order's total to
  within half a cent, on the path with a Stripe coupon and on the fallback.
- `RefundOnlyAfterPaid`: a refund note is on a card order that was paid and was
  rejected, although it is decided on an old copy.
- `EvidenceIsComplete`: transfer evidence has its picture, its account name and a
  review, whatever handler overtakes the transfer.
- `TerminalLeftOnlyByOldCopy`: an order leaves rejected or delivered only by a
  payment or by a handler that decided before another wrote.
- `SessionOnlyForPending`: a session is opened for a pending order, or on an old copy.
- `ImplementsContract`: each step is a step of `OrderContract` or none. The mapping
  takes `status` and `confirmed` from the documents, `captured` from Stripe, and
  `decided` from the program counters (`Decision`).
- `CapturedIsConfirmed`: the contract's liveness.

Properties of `Coupons`: `CodesUnique`, `CountsAddUp` (a counter is the orders
placed, the requests between counting and inserting, and the failures there),
`OveruseIsBounded` (fewer than limit + requests in flight), and
`InvertedOnlyUnseen` (a window is turned around only by an update that another one overtook, or
that clears the end).

Properties of `Sales`: `DiscountWasOffered` (the discount in an order is what its coupon gave on
its list price under one set of terms, at some moment at which the coupon could be used;
updates and deletions between validation and insert mix nothing), and `CostIsBounded` (a
coupon costs no more than its highest `maxDiscount` for each use of its most generous
limit and for each other request in flight, although the limit is checked and counted in two
awaits, and although a deleted coupon counts nothing any more).

Properties of `Accounts`:

- `SecretsSealedOnce`: a stored password has one layer of hashing and a phone one of
  encryption, however saves of old copies overlap and although the find hook marks
  the phone of every copy modified.
- `SpentCodeIsGone`: a code that opened a door is not stored again by a request
  that holds an older copy.
- `PurposeKept`: a code mailed for confirmation waits on a confirmed account, where it would
  open a reset, only if the confirmation overtook its own request.
- `ResetEarnedInTime`: a reset token needs a code mailed to the account, and in time if it
  was mailed for a reset. One mailed for confirmation has no such bound:
  `confrim` does not look at the expiry.
- `FrozenIsFinal`: no save of an old copy unfreezes an account.
- `ImplementsContract`: each step is a step of `AccountContract` or none. An account is
  confirmed, and its password changed, only through a code its own mailbox got and nobody
  had used when it was given; nothing done to one account reaches another.

Properties of `Storefront` and `Catalogue`: `GameOfferSound` and `PackageOfferSound` (price and offer
fit, but for partial updates of games and for packages saved over newer prices),
`DeletedPackageFinal`, `PageMatchesLists` (a game has a page exactly while lists may show it, in
whatever order it was deleted and switched on), `ShownWasOnSale` (every row of an answer was
for sale at its price at some moment), and `CacheSettles`: when administrators stop, answers
that are no longer true stop too.

Properties of `Files`: `LogoShown`, `FilesAccounted`, `RemovedAfterLogo`. Two updates cannot both
destroy a logo, since destroying it twice throws; but an update without a file writes back
the logo it had read, over a newer one. `torn` is the trace of that.

Properties of `Desk` and `Intake`: `PlacedAsOffered` (an order about to be stored has valid addresses,
fits the fields of a game the save hook may have read, and was orderable at some moment of its
request), `WalkComplete` (going through the pages shows every order there was at the
beginning), and `EvidenceReadable` (a transfer number is stored encrypted, and once, whichever of
several submissions was the last: an administrator reads it in full on the order's page, and its customer
reads it masked, or in full if it has three digits). What the page for the review of transfers shows is the
violation `ReviewShowsNumber`.

Properties of `Operations`: `ErrorAlertExplained` (an alert of the error rate has a request behind it that ran
into the timer, let an error escape, or was a probe that answered 503), `CountsExplained` (what is counted as
failed is at most one for each timeout, one for each escaped error, and one for each of these requests and
of the unavailable probes when it ends; what is kept as slow, at most two for each timeout),
`RaisingsApart` (two raisings of a rule are a cooldown
apart by the clock, unless the first was dated by a collection an earlier mail held up),
`EveryRequestAnswered`, `LastingExcursionRaised` (an error rate that stays high is raised or was raised
within a cooldown, although mails hang and collections overtake each other). The type
invariant of `Operations` is proved and is not part of the run.

Several of these properties name an exception that the code really has: a handler that decided on an old copy
(`TerminalLeftOnlyByOldCopy`, `SessionOnlyForPending`), an update that was overtaken or clears a date
(`InvertedOnlyUnseen`), one that leaves out the fields it depends on (`GameOfferSound`), one saved over newer
prices (`PackageOfferSound`), a deleted game switched on again (`PageMatchesLists`), a code whose request was
overtaken (`PurposeKept`). They do not exclude the exception; they say that there is no other way to the same
state.

Every property of a passing run has a mutant in `PROJECT.json`: a plausible
mistake in the code (an operator marked `Mistake:` in the module) that TLC must
find with it.

### Bounds, and why they are enough

Handlers touch one order, and sessions name one order, so orders interact only
through the slots: one order is enough for races between handlers. Two requests
make every race of a reader and a writer; the model lets a slot be used again
without end, so a handler may be overtaken by any number of others in turn. Two
sessions give two payments of one order, an old session paid late, and a
delivery that crosses another. The purchases cover a coupon line that rounds, a
discounted order of amount 0, a price that is no whole number of cents, an offer,
and a transfer. Half cents are the smallest grain in which rounding to a cent
shows. The theorems take all these bounds away, for the safety properties.

Coupons: two documents and codes let an update take a code another coupon
holds or had. A coupon begins with one use. One change moves the beginning of the window, lowers the limit
to 0 and switches the coupon off; the second moves the end and the code, so the two together turn a window around;
the third is the first with the end cleared and the code moved back. Each goes with new terms. `MaxTime` bounds the clock at the
start of a window and `MaxUses` the counter, both in the guards: with a limit of 1 two requests may place two
orders, and `MaxUses` is one above that, so the overuse and the cost that
`OveruseIsBounded` and `CostIsBounded` forbid could happen. Raised and absent limits are left to the proofs.

Accounts: documents of different users never meet, so one address is enough for what copies
do to each other; that codes and tokens of one account are no use with another is in the
refinement's proof, for any number of addresses. Two
requests make every race of a save with a save; three codes let an old one be
stored over a newer one while a third is spent; two ticks pass the life of a code (0),
of an access token (1) and not of the others (2). Storefront: five requests
create a game and a package and leave three changes to overlap; a price of 3 and offers
2/3, 3/2 and 1/2 are in order, out of order, and in order with another percentage. Files:
names matter between two categories, so there are two; four files let a
category have had three logos while a second one has its own. Desk: three orders with pages
of one let two orders move between pages during a walk; a page size above the maximum is the
excepted case. Operations: one request passes every outcome, as a login and as a probe (`Kinds`), and others count only at
the limiters (`CountElsewhere`); two errors escape from one request (`MaxEscapes`); with two response times
kept (`MaxResponseTimes`) the third pushes the first out; two collections overlap; two metrics are the
least for a mail that holds up the next one. The proofs take these bounds away for the safety
properties.

`CHECK_DEADLOCK FALSE`: an instance in which all ids are used up and nothing is
left to decide really stops. Symmetry is used only in runs that check no liveness.

### Fairness

`FairSpec` assumes two things. `Progress`: a request under way ends, by writing
or by failing (weak fairness, since its next step stays possible until taken):
NestJS runs every continuation. `Redelivery`: Stripe delivers an event that was
not acknowledged again and again to a server with a request slot, and not every
delivery fails for ever (strong fairness, since the slot may be taken and a
request may fail in between). The model has no end of the retry period: an
outage longer than Stripe's three days is outside the assumption. Nothing is
assumed about customers, administrators, or delayed payments.

`Storefront`'s `FairSpec` assumes that a time to live ends (`Expire`): the cache drops what is
due. Readers may be as slow as they like; an old answer stored late ends as well.
`Operations`' `FairSpec` assumes that timers fire: the 30 seconds of a request that was not
answered (`HandleTimeout`), and the interval (`CollectAndAnalyze`, for a slot that is free); and that a
mail ends or is given up (`Proceed`, which may be `SendHangs`). Guards and handlers may wait for
ever: that is what the timer is for. The slots are the model's bound of collections in
flight: the code has none, and a collection that hangs leaves its slot.

### External assumptions

Stripe (`Complete`, `Settle`, `Expire`, `Delivered`, `Chargeable`): a completed
session has a payment intent unless its amount is 0; a delayed method leaves the
intent processing; amounts are whole cents; a coupon's `amount_off` is positive;
events are delivered at least once. MongoDB: `updateOne` is atomic, `$inc` adds
to the stored value, the unique indexes hold; Mongoose's `save` writes the modified
fields, drops what is undefined from an update, and its `sanitizeFilter` does not rewrite
the filters the code builds itself. The cloud names every upload anew, and destroys
a file once. Express sends headers once.

The passing order runs put the raw parser first, in front of `/order/webhook`.
`main.ts` puts `express.json` first; then no delivery verifies, and the behaviours are
those of the passing run in which no webhook step happens. The safety theorems
hold for any `BodyParsers`; the liveness property does not, and that is the
finding of `webhook_json`. Both runs describe a server with
`STRIPE_WEBHOOK_SECRET` set. Without it the handler answers
without reading the event.

## 4. Findings

1. `refund_on_reject`. "`PAID` → `REJECTED` (refunded)". A handler reads a
   pending order, the payment is confirmed, the handler rejects the order by
   what it had read: rejected, paid and without refund.
2. `webhook_json`. `main.ts` installs `express.json()` before
   `express.raw` for `/order/webhook`; the handler gets a parsed object,
   cannot rebuild the signed bytes, and refuses every delivery.
3. `errors`. `LoggingInterceptor` counts an exception with the status of the route, because
   `AllExceptionsFilter` sets the exception's only afterwards, and `recordMetrics` ignores the
   `success` it is given. `HEALTH_MONITORING.md` asks for an alert of error rates above 5%; requests that all
   end in errors raise none.
4. `review`. `getWalletTransferDetails` is to return the decrypted transfer details; the find hook has
   decrypted the number already, the handler decrypts it again, and the review answers with an error.

Two more ways in which the code departs from the documents are stated by properties that hold.
`ORDER_SYSTEM_README.md` draws no way out of REJECTED, and `updateOrderStatus` refuses one; `webhook` writes by
`_id` alone, and `TerminalLeftOnlyByOldCopy` names a payment as a way out: an order rejected while the event
is on its way becomes paid. The limit of a coupon is checked in one await and the counter raised in
another, so two orders may share the last use; `OveruseIsBounded` says how far this goes.

## 5. What is proved

`tlapm` checks every proof to the leaves. The constants are arbitrary: any sets of
orders, sessions, requests (finite for coupons), accounts, codes, games, packages, bodies,
categories, files, metrics. The assumptions are the named ones of the modules (`GrainAssumption`,
`OrdersAssumption`, `CouponsAssumption`, `SalesAssumption`, `AccountsAssumption`, `CatalogueAssumption`, `FilesAssumption`,
`IntakeAssumption`, `DeskAssumption`, `GatewayAssumption`, `AlertsAssumption`): null values differ from
the ids, inputs are well formed, lives and limits are natural numbers. TLC evaluates them in
the runs. Every invariant and action property of a passing run is proved. So are the type invariants the
runs leave out, and `ConfirmedOnlyIfCaptured`, the part of `PaidInFull` that `OrderContract` states too.

- `OrdersProofs`, on prices: a discount is between 0 and the amount (`DiscountWithinOrder`);
  the coupon line is within half a cent of the total and not negative
  (`DiscountedChargeRounded`); the fallback charges the total grain for grain (`PlainChargeExact`). On orders:
  `TypeInvariant`; `NothingIsTakenBack`; `Inductive`, and from it
  `ConfirmedTheorem`, `AcknowledgedTheorem`, `ChargeTheorem`, `PaidTheorem`,
  `RefundTheorem`, `EvidenceTheorem`, `TerminalTheorem`, `SessionTheorem`;
  `Implementation`, the refinement of `OrderContract`'s safety part.
- `CouponsProofs`: `TypeInvariant`, `Inductive`, `CodesTheorem`, `CountsTheorem`,
  `OveruseTheorem`, `InvertedTheorem`.
- `SalesProofs`: `SalesInductive`, `DiscountTheorem`, `CostTheorem`.
- `AccountsProofs`: `TypeInvariant`, `SecretsTheorem`, `FrozenTheorem`, `SpentTheorem`,
  `PurposeTheorem`, `ResetTheorem`, and `Implementation`, the refinement of `AccountContract`.
- `StorefrontProofs`: `TypeInvariant`, `GameOfferTheorem`, `PackageOfferTheorem`, `PageTheorem`,
  `DeletedTheorem`, `ShownTheorem`.
- `FilesProofs`: `TypeInvariant`, `LogoTheorem`, `FilesTheorem`, `RemovalTheorem`.
- `DeskProofs`: `TypeInvariant`, `OfferTheorem`, `WalkTheorem`, `EvidenceTheorem`.
- `OperationsProofs`: `TypeInvariant`, `ErrorAlertTheorem`, `CountsTheorem`, `RaisingsTheorem`.

**Orders.** The inductive invariant (`IInv`) adds to the properties what a request knows
between its steps (`RequestInv`: a webhook's payment is captured, the status a
handler read was once the order's, a submitted transfer has its picture, the
line to charge belongs to the order), that a copy no write overtook is current
(`FreshInv`), that the stored amounts fit (`OrderInv`), and whose an opened
session is (`SessionInv`, `AckInv`). Without `RequestInv` none of the
properties survives the step that writes. The proof shares two facts: every
step leaves what it cannot change (`SteadyStep`), and every step has one of a
few shapes (`StepShape`: start, write, fail, other), so each part of the invariant is
shown once per shape and not once per action.

**Coupons.** The invariant strengthens the bound: each request that has validated
a coupon will use it once more, so used + validated stays under a limit the
coupon has had plus the number of slots (`UseInv`). At `Validate` the request
itself is not yet counted and `used < limit` holds, and the others are fewer
than the slots. `NewInv`, `LimitInv` and `FreshInv` are what that and
the action property rest on; for the latter `CheckedStaysOrdered` shows that an update whose check saw the
stored dates leaves them in order unless it clears the end.

**Sales.** Every step is a step of `Coupons` (`StepIsNext`), so `SalesSpec` implies `Spec` and the
invariant of `Coupons` is used and not proved again. A request between validation and insert
holds a deal that its coupon offered (`SlotInv`), because the terms of a usable coupon are in
`offered` before and after each step (`TermsInv`). The counter is no help with the cost of a deleted
coupon, which `applyCoupon` does not find; `SpendInv` bounds instead the orders placed and those on
their way. While the coupon is stored this follows from `UseInv` and `CountsAddUp`; when it is deleted
the sum only shrinks, for nobody validates it any more (`SpentStep`). `CostInv` compares the
sum of discounts with orders times the highest maximum; the products are kept apart in lemmas
(`OneMore`, `NoMore`).

**Accounts.** Three invariants, each on the one before. `TInv` types the state.
`DocInv` follows the layers of secrets through copies: what a copy has modified has one layer less
than what is stored, and what it has not is never written. `CodeInv` follows each code:
the codes of two mails differ; a spent code was mailed; a stored code was mailed to its account,
expires as its mail says, was never spent, and on a confirmed account was mailed for a reset or
is in `late`; a code about to be stored is stored nowhere, is not spent and is in no other
request; and a request that was given a code clears it. The last two keep an old copy from bringing a
spent code back: a save writes a code only if it is its own new one or none.
The refinement adds `KindInv`: what a request has modified tells which handler it is (`OneKind`), so
`Grant` is well defined and its save is the one contract step it was allowed; and an account
opened by Google is confirmed. `CodeInv` gives that the code it presents came from that account's
mailbox, and was not spent when the request was allowed; `DocInv` that the password saved is the one granted.

**Storefront.** `CatalogueInv` says of a handler between its reading and its writing that what it
will write is sound by itself (`EditSound`), so the write needs nothing of the reading. A
package's save mixes the copy with the stored document; `MergedPackageSound` shows that the
mixture is sound when the stored offer is the loaded one, which is what `raced` leaves out, and that a
deletion is never undone, because no handler changes the mark in its copy. That answers were
once true follows from `OnSale \subseteq offered`.

**Files.** `FileInv` counts: of all the files a category shows or a request has read as its logo, at
most one is in the cloud (`Single`), and none while a handler that destroyed one has still to
write. Hence two handlers cannot both destroy a logo, and a removal finds it gone.

**Desk.** For a walk: the orders that were there at the beginning and that now lie in front of the
next page have been shown (`WalkSound`). A new order only increases the distance of the others from
the front, so it keeps this; and the last page reaches the count (`PagesReach`). For a
request: what each of its four checks has established, with the versions of the game it
overlapped (`Established`). For the transfer number: it is stored sealed once or not at all (`NumbersSealed`).

**Operations.** A metric is above its threshold only when a failed request is counted, and a failed
request is one the timer or an escaped error answered for, or a probe that ended with 503 (`GatewayInv`, `Blamed`). A
cooldown is dated at or before the clock's raising (`AlertsInv`), and a collection not before its
own beginning, which gives `RaisingsApart`. For `CountsExplained`
each step that counts also pays for the count: the timer, which fires once because it has answered
(`CountsInv`), moves its request into `TimedOut`; an escaped error is counted in `escapes`; the end of a
handler moves its request into those that are done. For the slow response times the proof adds that a full
window loses its oldest (`Kept`), which can only make them fewer.

Only model-checked: liveness (`CapturedIsConfirmed`, `CacheSettles`, `EveryRequestAnswered`,
`LastingExcursionRaised`), which the prover does not reach; and the four violations.

## 6. Not modelled, and why

- What the health checks find: those of Redis, the disk and external services only simulate an
  answer; `setHealthService` and `recordRequest` have no caller. What their probes add to the counters
  is in `Gateway`.
- `SecurityMonitoringService`: counts events and logs them; nothing reads the counts.
- `GlobalExceptionFilter`: bound nowhere; `main.ts` binds `AllExceptionsFilter`.
  `ApiVersionGuard` always sees version 1, and is left out with it.
- Statistics, dashboards, reports, exports and text search: reads with no decision.
- Sanitising, headers, formats of names and addresses: judge one request; a refused
  request is one the model does not make. CSRF is an outcome of `Gateway`.
- API documentation, log formatting, mail templates, ciphers: formatting, or calls
  out of the process. A value is encrypted or not, and a mail is answered or not.
- The library's windows: when they end is any moment (`NewWindow`).
- The second instance of `MonitoringService`, which another module provides: it has its own maps and
  an interval of its own, and does not touch the first.
- Repeated random codes, and the Stripe coupon left over when a session fails:
  no property of the repository speaks of them.
- Fields other than dates that an update of a coupon sets to null.

Things met on the way that no property states: the administrators' search filters by fields
that a later stage of the aggregation brings, and so finds nothing; `DBService.find` cuts a list at
100; `listGames` with an unknown category asks for `$in: [undefined]`; the validators of order fields
share one field for their messages, so overlapping validations may word each
other's refusals; two overlapping `toggleGamePopular` count as one.

## 7. Plan

Done: everything in section 2, with the theorems of section 5.

What would add most from here:

1. A composition of `Orders`, `Sales` and `Intake`: `createOrder` in full, from the price in the
   catalogue to the session that charges it. Of the coupon's part `Sales` has the discount
   stored and the use counted; the order's later life is in `Orders`.
2. Two instances of the server: the limiters' windows, the alerts and the memory cache are then per
   process, and `Slots` is no longer one event loop. The database's guarantees carry over.
3. A property of the limiters' windows in `Gateway`: what a client may do in one window, with the
   counts that are given back late.
4. Abstract specifications of the catalogue (what customers are shown) and of the files, with
   `Storefront` and `Files` shown to implement them.
