------------------------------- MODULE Orders -------------------------------
(***************************************************************************)
(* The life of an order: OrderService, StripeService.webhook and the       *)
(* Stripe account they talk to.                                            *)
(*                                                                         *)
(* Every handler reads the order, awaits something (a catalogue query, the *)
(* Stripe API, a cloud upload, the database driver) and then writes the    *)
(* order with an updateOne whose filter is the _id alone.  Between the two *)
(* any other handler may run, so a handler is a request slot with a        *)
(* program counter: one action reads and checks, a later one writes what   *)
(* was decided from the copy read.  The fields of an order that no handler *)
(* ever changes (method, amounts, coupon) are looked up when used.         *)
(***************************************************************************)
EXTENDS Pricing

CONSTANTS
    OrderIds,      \* ids of the orders that may be created
    Slots,         \* requests the server has in flight at once
    SessionIds,    \* ids of the Stripe checkout sessions
    Purchases,     \* what customers ask for: [method, item, coupon]
    BodyParsers,   \* body parsers in front of /order/webhook, first to last
    NoCoupon,      \* a purchase without a coupon code
    NoOrder,       \* the order of an idle slot or an unused session
    NoSessionId    \* the session of a request that is no webhook

CardMethod == "card"
WalletMethods == {"wallet-transfer", "insta-transfer", "fawry-transfer"}
PaymentMethods == {CardMethod, "cash"} \cup WalletMethods

OrderStatus == {"pending", "paid", "delivered", "rejected", "processing"}
AnyStatus == OrderStatus \cup {"absent"}

Purchase == [method : PaymentMethods, item : Item, coupon : Coupon \cup {NoCoupon}]

ASSUME OrdersAssumption ==
    /\ NoOrder \notin OrderIds
    /\ NoSessionId \notin SessionIds
    /\ NoCoupon \notin Coupon
    /\ Purchases \subseteq Purchase

VARIABLES
    orders,    \* the orders collection; status "absent": no such document
    reqs,      \* the handler running in each slot
    sessions,  \* Stripe's checkout sessions and the intents behind them
    acked,     \* sessions whose webhook was answered with a 2xx
    images,    \* orders with a transfer image in cloud storage
    seen,      \* history: every status each order has had
    stale      \* history: slots whose order was written since they read it

vars == <<orders, reqs, sessions, acked, images, seen, stale>>

-----------------------------------------------------------------------------
(* State                                                                   *)

\* evidence stands for walletTransferImage, walletTransferNumber and
\* walletTransferSubmittedAt, instaName for nameOfInsta and its date, refunded
\* for refundAmount (always totalAmount) and refundDate.  original is 0 when
\* the document has no originalAmount.
OrderDoc == [status : AnyStatus, method : PaymentMethods,
             coupon : BOOLEAN, original : Nat, discount : Nat, total : Nat,
             paidAt : BOOLEAN, refunded : BOOLEAN,
             evidence : BOOLEAN, instaName : BOOLEAN]

NoDoc == [status |-> "absent", method |-> CardMethod, coupon |-> FALSE,
          original |-> 0, discount |-> 0, total |-> 0, paidAt |-> FALSE,
          refunded |-> FALSE, evidence |-> FALSE, instaName |-> FALSE]

Line == [unit : Nat, off : Nat]
NoLine == PlainLine(0)

\* read: the status in the copy the handler holds; target: the status an
\* administrator asks for; line: what checkout will send to Stripe; session:
\* the one a webhook is about.
Steps == {"checkout", "session", "cancel", "upload", "submit"}

Idle == [pc |-> "idle", order |-> NoOrder, read |-> "absent",
         target |-> "absent", line |-> NoLine, session |-> NoSessionId]

OrderRequest ==
    [pc : Steps, order : OrderIds, read : OrderStatus, target : {"absent"},
     line : Line, session : {NoSessionId}]
UpdateRequest ==
    [pc : {"update"}, order : OrderIds, read : OrderStatus, target : OrderStatus,
     line : {NoLine}, session : {NoSessionId}]
WebhookRequest ==
    [pc : {"webhook"}, order : OrderIds, read : {"absent"}, target : {"absent"},
     line : {NoLine}, session : SessionIds]

Request == {Idle} \cup OrderRequest \cup UpdateRequest \cup WebhookRequest

\* "free" is a completed session of amount 0: Stripe makes no intent for it.
Completed == {"processing", "succeeded", "failed", "free"}

NoSession == [state |-> "none", order |-> NoOrder, amount |-> 0]

Session == {NoSession}
    \cup [state : {"open", "expired"} \cup Completed, order : OrderIds, amount : Int]

TypeOK ==
    /\ orders \in [OrderIds -> OrderDoc]
    /\ reqs \in [Slots -> Request]
    /\ sessions \in [SessionIds -> Session]
    /\ acked \subseteq SessionIds
    /\ images \subseteq OrderIds
    /\ seen \in [OrderIds -> SUBSET OrderStatus]
    /\ stale \subseteq Slots

Init ==
    /\ orders = [o \in OrderIds |-> NoDoc]
    /\ reqs = [s \in Slots |-> Idle]
    /\ sessions = [x \in SessionIds |-> NoSession]
    /\ acked = {}
    /\ images = {}
    /\ seen = [o \in OrderIds |-> {}]
    /\ stale = {}

-----------------------------------------------------------------------------
(* Steps every handler is made of                                          *)

\* A handler has read an order and goes on; a failed check is an error
\* response and changes nothing.
Start(s, req) ==
    /\ reqs[s].pc = "idle"
    /\ reqs' = [reqs EXCEPT ![s] = req]
    /\ stale' = stale \ {s}
    /\ UNCHANGED <<orders, seen>>

\* A handler writes doc over order o and answers; every other handler that
\* holds a copy of o now holds an old one.
Write(s, o, doc) ==
    /\ orders' = [orders EXCEPT ![o] = doc]
    /\ seen' = [seen EXCEPT ![o] = @ \cup {doc.status}]
    /\ stale' = (stale \cup {t \in Slots : reqs[t].order = o}) \ {s}
    /\ reqs' = [reqs EXCEPT ![s] = Idle]

\* A database, Stripe or cloud call throws, or the server stops: the request
\* is over and what it did so far stays.
Fail(s) ==
    /\ reqs[s].pc # "idle"
    /\ reqs' = [reqs EXCEPT ![s] = Idle]
    /\ stale' = stale \ {s}
    /\ UNCHANGED <<orders, sessions, acked, images, seen>>

-----------------------------------------------------------------------------
(* createOrder: the insert that ends it                                    *)

NewOrder(p) ==
    LET price == ListPrice(p.item)
        off   == IF p.coupon = NoCoupon THEN 0 ELSE Discount(p.coupon, price)
    IN  [NoDoc EXCEPT !.status = "pending", !.method = p.method,
                      !.coupon = p.coupon # NoCoupon,
                      !.original = IF p.coupon = NoCoupon THEN 0 ELSE price,
                      !.discount = off, !.total = price - off]

CreateOrder(o, p) ==
    /\ orders[o].status = "absent"
    /\ p.coupon # NoCoupon => Accepts(p.coupon, ListPrice(p.item))
    /\ orders' = [orders EXCEPT ![o] = NewOrder(p)]
    /\ seen' = [seen EXCEPT ![o] = {"pending"}]
    /\ UNCHANGED <<reqs, sessions, acked, images, stale>>

-----------------------------------------------------------------------------
(* checkout                                                                *)

\* Mistake: any order of the customer may be checked out.
CheckoutReadAny(s, o) ==
    /\ orders[o].method = CardMethod
    /\ orders[o].status # "absent"
    /\ Start(s, [Idle EXCEPT !.pc = "checkout", !.order = o, !.read = "pending"])
    /\ UNCHANGED <<sessions, acked, images>>

CheckoutRead(s, o) ==
    /\ orders[o].method = CardMethod
    /\ orders[o].status = "pending"
    /\ Start(s, [Idle EXCEPT !.pc = "checkout", !.order = o, !.read = "pending"])
    /\ UNCHANGED <<sessions, acked, images>>

\* Mistake: the fallback keeps the unit amount before the discount.
CheckoutLineKept(doc) ==
    LET listed == IF doc.original > 0 THEN doc.original ELSE doc.total
    IN  {DiscountedLine(listed, doc.discount), PlainLine(listed)}

\* The amounts sent to Stripe: with the coupon's Stripe twin, or plain when
\* the order has no discount or the twin could not be made (the coupon was
\* deleted, or Stripe refused it: it takes no amount_off of 0).
CheckoutLine(doc) ==
    LET listed == IF doc.original > 0 THEN doc.original ELSE doc.total
    IN  IF doc.coupon /\ doc.discount > 0
        THEN {l \in {DiscountedLine(listed, doc.discount)} : l.off > 0}
                 \cup {PlainLine(doc.total)}
        ELSE {PlainLine(listed)}

CheckoutPrice(s) ==
    /\ reqs[s].pc = "checkout"
    /\ \E line \in CheckoutLine(orders[reqs[s].order]) :
          reqs' = [reqs EXCEPT ![s] = [@ EXCEPT !.pc = "session", !.line = line]]
    /\ UNCHANGED <<orders, sessions, acked, images, seen, stale>>

\* Stripe opens the session; the handler answers with its url and stores
\* nothing.  A fraction of a cent is refused (then only Fail is left).
CheckoutSession(s, x) ==
    /\ reqs[s].pc = "session"
    /\ sessions[x].state = "none"
    /\ Chargeable(reqs[s].line)
    /\ sessions' = [sessions EXCEPT ![x] =
                      [state |-> "open", order |-> reqs[s].order,
                       amount |-> Charge(reqs[s].line)]]
    /\ reqs' = [reqs EXCEPT ![s] = Idle]
    /\ stale' = stale \ {s}
    /\ UNCHANGED <<orders, acked, images, seen>>

-----------------------------------------------------------------------------
(* Stripe, as the code uses it                                             *)

\* The customer completes the session: a card is captured at once, a delayed
\* method later; nothing is owed on a session of amount 0.
Complete(x, state) ==
    /\ sessions[x].state = "open"
    /\ IF sessions[x].amount = 0 THEN state = "free"
                                 ELSE state \in {"processing", "succeeded"}
    /\ sessions' = [sessions EXCEPT ![x] = [@ EXCEPT !.state = state]]
    /\ UNCHANGED <<orders, reqs, acked, images, seen, stale>>

Settle(x, state) ==
    /\ sessions[x].state = "processing"
    /\ state \in {"succeeded", "failed"}
    /\ sessions' = [sessions EXCEPT ![x] = [@ EXCEPT !.state = state]]
    /\ UNCHANGED <<orders, reqs, acked, images, seen, stale>>

Expire(x) ==
    /\ sessions[x].state = "open"
    /\ sessions' = [sessions EXCEPT ![x] = [@ EXCEPT !.state = "expired"]]
    /\ UNCHANGED <<orders, reqs, acked, images, seen, stale>>

-----------------------------------------------------------------------------
(* webhook                                                                 *)

\* The first parser to match application/json consumes the request; the
\* signature is that of the raw bytes, and the handler cannot make them again
\* from a parsed object.
SignatureVerifies == BodyParsers # <<>> /\ BodyParsers[1] = "raw"

\* Stripe has sent checkout.session.completed for x; it sends it again until
\* it is acknowledged, and may send it again after that.
Delivered(x) == sessions[x].state \in Completed

\* Mistake: a session with nothing to pay counts as paid.
IntentOrFree(x) == sessions[x].state \in {"succeeded", "free"}

IntentSucceeded(x) == sessions[x].state = "succeeded"

\* Mistake: the event is acknowledged before the order is written.
WebhookAckFirst(s, x) ==
    /\ Delivered(x) /\ SignatureVerifies /\ IntentSucceeded(x)
    /\ Start(s, [Idle EXCEPT !.pc = "webhook", !.session = x,
                             !.order = sessions[x].order])
    /\ acked' = acked \cup {x}
    /\ UNCHANGED <<sessions, images>>

WebhookVerify(s, x) ==
    /\ Delivered(x)
    /\ SignatureVerifies
    /\ IntentSucceeded(x)
    /\ Start(s, [Idle EXCEPT !.pc = "webhook", !.session = x,
                             !.order = sessions[x].order])
    /\ UNCHANGED <<sessions, acked, images>>

\* Mistake: a payment is confirmed on a pending order only.
WebhookWriteIfPending(s) ==
    LET o == reqs[s].order
    IN  /\ reqs[s].pc = "webhook"
        /\ Write(s, o, IF orders[o].status = "pending"
                       THEN [orders[o] EXCEPT !.status = "paid", !.paidAt = TRUE]
                       ELSE orders[o])
        /\ acked' = acked \cup {reqs[s].session}
        /\ UNCHANGED <<sessions, images>>

\* The update does not look at the order it confirms.  Its 2xx may be lost.
WebhookWrite(s) ==
    LET o == reqs[s].order
    IN  /\ reqs[s].pc = "webhook"
        /\ Write(s, o, [orders[o] EXCEPT !.status = "paid", !.paidAt = TRUE])
        /\ \/ acked' = acked \cup {reqs[s].session}
           \/ UNCHANGED acked
        /\ UNCHANGED <<sessions, images>>

-----------------------------------------------------------------------------
(* cancelOrder                                                             *)

\* Mistake: the customer cancels an order in any status.
CancelReadAny(s, o) ==
    /\ orders[o].status # "absent"
    /\ Start(s, [Idle EXCEPT !.pc = "cancel", !.order = o,
                             !.read = orders[o].status])
    /\ UNCHANGED <<sessions, acked, images>>

CancelRead(s, o) ==
    /\ orders[o].status \in {"pending", "paid"}
    /\ Start(s, [Idle EXCEPT !.pc = "cancel", !.order = o,
                             !.read = orders[o].status])
    /\ UNCHANGED <<sessions, acked, images>>

\* Mistake: every rejected card order is noted as refunded.
RejectedCard(doc, read) ==
    [doc EXCEPT !.status = "rejected", !.refunded = @ \/ doc.method = CardMethod]

\* The refund is noted when the copy read was a paid card order.  No call to
\* Stripe is made.
Rejected(doc, read) ==
    [doc EXCEPT !.status = "rejected",
                !.refunded = @ \/ (doc.method = CardMethod /\ read = "paid")]

CancelWrite(s) ==
    LET o == reqs[s].order
    IN  /\ reqs[s].pc = "cancel"
        /\ Write(s, o, Rejected(orders[o], reqs[s].read))
        /\ UNCHANGED <<sessions, acked, images>>

-----------------------------------------------------------------------------
(* updateOrderStatus                                                       *)

\* Mistake: only rejected orders are final.
MayUpdateDelivered(read, target) == read # "rejected"

MayUpdate(read, target) ==
    /\ read # "rejected"
    /\ read = "delivered" => target = "delivered"

UpdateRead(s, o, target) ==
    /\ orders[o].status # "absent"
    /\ MayUpdate(orders[o].status, target)
    /\ Start(s, [Idle EXCEPT !.pc = "update", !.order = o,
                             !.read = orders[o].status, !.target = target])
    /\ UNCHANGED <<sessions, acked, images>>

UpdateWrite(s) ==
    LET o == reqs[s].order
        t == reqs[s].target
    IN  /\ reqs[s].pc = "update"
        /\ Write(s, o, IF t = "rejected" THEN Rejected(orders[o], reqs[s].read)
                                         ELSE [orders[o] EXCEPT !.status = t])
        /\ UNCHANGED <<sessions, acked, images>>

-----------------------------------------------------------------------------
(* submitWalletTransfer                                                    *)

\* nameOfInsta comes with insta-transfer and with nothing else, so the method
\* tells whether the request carries one.
TransferRead(s, o) ==
    /\ orders[o].method \in WalletMethods
    /\ orders[o].status = "pending"
    /\ Start(s, [Idle EXCEPT !.pc = "upload", !.order = o, !.read = "pending"])
    /\ UNCHANGED <<sessions, acked, images>>

\* Mistake: the order is written without waiting for the upload.
TransferNoUpload(s) ==
    /\ reqs[s].pc = "upload"
    /\ reqs' = [reqs EXCEPT ![s] = [@ EXCEPT !.pc = "submit"]]
    /\ UNCHANGED <<orders, sessions, acked, images, seen, stale>>

TransferUpload(s) ==
    /\ reqs[s].pc = "upload"
    /\ images' = images \cup {reqs[s].order}
    /\ reqs' = [reqs EXCEPT ![s] = [@ EXCEPT !.pc = "submit"]]
    /\ UNCHANGED <<orders, sessions, acked, seen, stale>>

TransferWrite(s) ==
    LET o == reqs[s].order
    IN  /\ reqs[s].pc = "submit"
        /\ Write(s, o, [orders[o] EXCEPT !.status = "processing", !.evidence = TRUE,
                           !.instaName = @ \/ orders[o].method = "insta-transfer"])
        /\ UNCHANGED <<sessions, acked, images>>

-----------------------------------------------------------------------------

Checkout(s) ==
    \/ \E o \in OrderIds : CheckoutRead(s, o)
    \/ CheckoutPrice(s)
    \/ \E x \in SessionIds : CheckoutSession(s, x)

Webhook(s) == (\E x \in SessionIds : WebhookVerify(s, x)) \/ WebhookWrite(s)

Cancel(s) == (\E o \in OrderIds : CancelRead(s, o)) \/ CancelWrite(s)

Update(s) ==
    \/ \E o \in OrderIds, t \in OrderStatus : UpdateRead(s, o, t)
    \/ UpdateWrite(s)

Transfer(s) ==
    \/ \E o \in OrderIds : TransferRead(s, o)
    \/ TransferUpload(s)
    \/ TransferWrite(s)

Stripe(x) ==
    \/ \E state \in Completed : Complete(x, state) \/ Settle(x, state)
    \/ Expire(x)

Next ==
    \/ \E o \in OrderIds, p \in Purchases : CreateOrder(o, p)
    \/ \E s \in Slots :
          Checkout(s) \/ Webhook(s) \/ Cancel(s) \/ Update(s) \/ Transfer(s) \/ Fail(s)
    \/ \E x \in SessionIds : Stripe(x)

Spec == Init /\ [][Next]_vars

-----------------------------------------------------------------------------
(* Fairness                                                                *)

\* An event that was not acknowledged is delivered to a handler again and
\* again, and one of the deliveries finds the database up.
Redelivery(x) ==
    /\ SF_vars(\E s \in Slots : x \notin acked /\ WebhookVerify(s, x))
    /\ SF_vars(\E s \in Slots : reqs[s].session = x /\ WebhookWrite(s))

\* A request ends: it writes and answers, or fails.
Progress(s) == WF_vars(reqs[s].pc # "idle" /\ (Checkout(s) \/ Webhook(s) \/ Cancel(s) \/ Update(s) \/ Transfer(s) \/ Fail(s)))

FairSpec ==
    /\ Spec
    /\ \A s \in Slots : Progress(s)
    /\ \A x \in SessionIds : Redelivery(x)

-----------------------------------------------------------------------------
(* Safety                                                                  *)

CapturedFor(o) ==
    \E x \in SessionIds : sessions[x].state = "succeeded" /\ sessions[x].order = o

\* An order carries a payment date only if a card payment for that very order
\* was captured: no delayed method still processing, no failed intent, no
\* session of another order, whatever deliveries repeat or cross.
ConfirmedOnlyIfCaptured ==
    \A o \in OrderIds : orders[o].paidAt => CapturedFor(o)

\* A 2xx to Stripe, which ends the redelivery, means the payment it was about
\* has been written: no failure between the two loses a payment.
AcknowledgedIsRecorded ==
    \A x \in acked : orders[sessions[x].order].paidAt

\* What a session asks the customer to pay is the total stored on its order to
\* within half a cent, on the discounted path and on the fallback alike, and
\* is never negative.
ChargeMatchesTotal ==
    \A x \in SessionIds : sessions[x].state # "none" =>
        /\ sessions[x].amount >= 0
        /\ WithinHalfCent(sessions[x].amount, orders[sessions[x].order].total)

\* An order with a payment date was paid in full, and was not free: one of its
\* sessions captured its total, to within half a cent, and more than nothing.
\* An order that its coupon has made free is therefore never confirmed.
PaidInFull ==
    \A o \in OrderIds : orders[o].paidAt =>
        \E x \in SessionIds :
            /\ sessions[x].state = "succeeded" /\ sessions[x].order = o
            /\ sessions[x].amount > 0
            /\ WithinHalfCent(sessions[x].amount, orders[o].total)

\* A refund is noted only on a card order that was once marked paid and was
\* then rejected, however old the copy it was decided from.
RefundOnlyAfterPaid ==
    \A o \in OrderIds : orders[o].refunded =>
        orders[o].method = CardMethod /\ {"paid", "rejected"} \subseteq seen[o]

\* Transfer evidence is on transfer orders only, its picture is in the cloud,
\* it carries an account name exactly for insta-transfer, and the order went
\* through review.
EvidenceIsComplete ==
    \A o \in OrderIds : orders[o].evidence \/ orders[o].instaName =>
        /\ orders[o].evidence
        /\ orders[o].method \in WalletMethods
        /\ o \in images
        /\ orders[o].instaName <=> orders[o].method = "insta-transfer"
        /\ "processing" \in seen[o]

-----------------------------------------------------------------------------
(* Action properties                                                       *)

Terminal == {"rejected", "delivered"}

WrittenBy(o, s) == reqs[s].order = o /\ reqs[s].pc # "idle" /\ reqs'[s].pc = "idle"

\* An order leaves rejected or delivered only through a payment confirmation
\* or through a handler whose copy was overtaken by another write: no handler
\* does it from the state it sees.
TerminalLeftOnlyByOldCopy ==
    [][\A o \in OrderIds :
          orders[o].status \in Terminal /\ orders'[o].status # orders[o].status =>
              \E s \in Slots : WrittenBy(o, s) /\ (reqs[s].pc = "webhook" \/ s \in stale)]_vars

\* A checkout session is opened for an order that is pending at that moment,
\* unless another handler wrote the order after checkout had read it.
SessionOnlyForPending ==
    [][\A x \in SessionIds :
          sessions[x].state = "none" /\ sessions'[x].state # "none" =>
              LET o == sessions'[x].order
              IN  \/ orders[o].status = "pending"
                  \/ \E s \in stale : WrittenBy(o, s)]_vars

-----------------------------------------------------------------------------
(* The contract                                                            *)

Captured == {o \in OrderIds : CapturedFor(o)}

Decision(req) ==
    CASE req.pc = "cancel" ->
             [order |-> req.order, to |-> "rejected", by |-> "customer"]
      [] req.pc \in {"upload", "submit"} ->
             [order |-> req.order, to |-> "processing", by |-> "customer"]
      [] req.pc = "update" ->
             [order |-> req.order, to |-> req.target, by |-> "admin"]
      [] OTHER -> [order |-> NoOrder, to |-> "absent", by |-> "nobody"]

Contract == INSTANCE OrderContract WITH
    status <- [o \in OrderIds |-> orders[o].status],
    decided <- [s \in Slots |-> Decision(reqs[s])],
    captured <- Captured,
    confirmed <- {o \in OrderIds : orders[o].paidAt}

\* The handlers, their races and Stripe together keep the contract's safety
\* part: every stored status was decided by a rule that held at that time.
ImplementsContract == Contract!SafetySpec

-----------------------------------------------------------------------------
(* Liveness, of FairSpec                                                   *)

\* The contract's promise: a captured payment is confirmed in the end, though
\* deliveries are repeated, requests fail half way and other handlers keep
\* writing the order.
CapturedIsConfirmed == Contract!Liveness

-----------------------------------------------------------------------------
(* What the repository's documents say, and the handlers do not keep       *)

\* ORDER_SYSTEM_README.md: PAID -> REJECTED is "(refunded)".
RejectingPaidRefunds ==
    [][\A o \in OrderIds :
          /\ orders[o].status = "paid" /\ orders[o].method = CardMethod
          /\ orders'[o].status = "rejected"
          => orders'[o].refunded]_vars
=============================================================================
