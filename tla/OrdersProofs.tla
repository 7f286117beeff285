---------------------------- MODULE OrdersProofs ----------------------------
(***************************************************************************)
(* Theorems about Orders, its prices and its contract, for every set of    *)
(* orders, requests, sessions and purchases and every order of the parsers.*)
(***************************************************************************)
EXTENDS Orders, TLAPS

USE GrainAssumption

-----------------------------------------------------------------------------
(* Prices: what a discount and a charge are, for every price, coupon, grain *)

\* The price of an item of the catalogue is an amount: a missing or zero offer
\* price falls back on the list price.
LEMMA ListPriceType ==
    ASSUME NEW item \in Item
    PROVE  ListPrice(item) \in Nat
BY DEF Item, ListPrice

\* A percentage of an amount and a fixed value are both amounts.
LEMMA FaceDiscountType ==
    ASSUME NEW c \in Coupon, NEW a \in Nat
    PROVE  FaceDiscount(c, a) \in Nat
<1>1. c.value \in Nat /\ a * c.value \in Nat
    BY DEF Coupon
<1>2. (a * c.value) \div 100 \in Nat
    <2> DEFINE n == a * c.value
    <2>1. n \in Nat
        BY <1>1
    <2> HIDE DEF n
    <2>2. n \div 100 \in Nat
        BY <2>1
    <2> QED  BY <2>2 DEF n
<1> QED  BY <1>1, <1>2 DEF FaceDiscount

\* validateCoupon: whatever its terms (a percentage over 100 included), a
\* coupon takes off nothing negative, no more than its maximum and no more
\* than the order, so the final amount is never negative.
THEOREM DiscountWithinOrder ==
    ASSUME NEW c \in Coupon, NEW a \in Nat
    PROVE  /\ Discount(c, a) \in 0 .. a
           /\ Discount(c, a) <= c.maxDiscount
           /\ a - Discount(c, a) \in 0 .. a
<1>1. FaceDiscount(c, a) \in Nat
    BY FaceDiscountType
<1>2. c.maxDiscount \in Nat
    BY DEF Coupon
<1> QED  BY <1>1, <1>2 DEF Discount, AtMost

-----------------------------------------------------------------------------

\* Grain cents nearest to an amount differ from it by half a cent at most.
LEMMA RoundCentsNearest ==
    ASSUME NEW a \in Nat
    PROVE  RoundCents(a) \in Nat /\ WithinHalfCent(RoundCents(a), a)
<1> DEFINE g == 2 * Grain
           n == 2 * a + Grain
           q == n \div g
<1>1. g \in Nat \ {0} /\ n \in Nat
    OBVIOUS
<1>2. q \in Int /\ n = g * q + (n % g) /\ n % g \in 0 .. (g - 1)
    <2> HIDE DEF g, n
    <2> QED  BY <1>1
<1>3. g * q = 2 * (Grain * q)
    <2>1. q \in Int /\ Grain \in Int
        BY <1>2
    <2> HIDE DEF q
    <2> QED  BY <2>1
<1>4. 2 * (Grain * q) <= 2 * a + Grain /\ 2 * a + Grain < 2 * (Grain * q) + 2 * Grain
    BY <1>2, <1>3
<1>5. q >= 0
    <2> SUFFICES ASSUME q < 0 PROVE FALSE
        BY <1>2
    <2>1. g * q <= - g
        <3>1. q <= -1
            BY <1>2
        <3> HIDE DEF g, q
        <3> QED  BY <1>1, <1>2, <3>1
    <2> QED  BY <2>1, <1>1, <1>2
<1> QED  BY <1>2, <1>4, <1>5 DEF RoundCents, WithinHalfCent

\* A whole number of cents is that many times the grain.
LEMMA WholeCentsExact ==
    ASSUME NEW a \in Nat, WholeCents(a)
    PROVE  a \div Grain \in Nat /\ Grain * (a \div Grain) = a
<1>1. a \div Grain \in Int /\ a = Grain * (a \div Grain) + (a % Grain)
    OBVIOUS
<1>2. a \div Grain \in Nat
    OBVIOUS
<1> QED  BY <1>1, <1>2 DEF WholeCents

\* checkout, discounted path: when the original price is a whole number of
\* cents, Stripe charges the stored total to within half a cent.
THEOREM DiscountedChargeRounded ==
    ASSUME NEW original \in Nat, NEW discount \in 0 .. original,
           Chargeable(DiscountedLine(original, discount))
    PROVE  /\ Charge(DiscountedLine(original, discount)) \in Nat
           /\ WithinHalfCent(Charge(DiscountedLine(original, discount)),
                             original - discount)
<1> DEFINE u == original \div Grain
           r == RoundCents(discount)
<1>1. u \in Nat /\ Grain * u = original
    BY WholeCentsExact DEF Chargeable, DiscountedLine
<1>2. r \in Nat /\ WithinHalfCent(r, discount)
    BY RoundCentsNearest
<1>3. Grain * (u - r) = Grain * u - Grain * r
    <2>1. u \in Int /\ r \in Int /\ Grain \in Int
        BY <1>1, <1>2
    <2> HIDE DEF u, r
    <2> QED  BY <2>1
<1>4. WithinHalfCent(u - r, original - discount)
    BY <1>1, <1>2, <1>3 DEF WithinHalfCent
<1>5. u - r >= 0
    <2> SUFFICES ASSUME u - r < 0 PROVE FALSE
        BY <1>1, <1>2
    <2>1. Grain * (u - r) <= - Grain
        <3>1. u - r <= -1
            BY <1>1, <1>2
        <3> HIDE DEF u, r
        <3> QED  BY <1>1, <1>2, <3>1
    <2>2. Grain * u - Grain * r <= - Grain
        BY <2>1, <1>3
    <2>3. 2 * (Grain * r - discount) <= Grain
        BY <1>2 DEF WithinHalfCent
    <2> QED  BY <1>1, <1>2, <2>2, <2>3
<1> QED  BY <1>1, <1>2, <1>4, <1>5 DEF Charge, DiscountedLine

\* checkout, plain and fallback path: Stripe charges exactly the total, which
\* it accepts only when it is a whole number of cents.
THEOREM PlainChargeExact ==
    ASSUME NEW total \in Nat, Chargeable(PlainLine(total))
    PROVE  /\ Charge(PlainLine(total)) \in Nat
           /\ Grain * Charge(PlainLine(total)) = total
<1>1. total \div Grain \in Nat /\ Grain * (total \div Grain) = total
    BY WholeCentsExact DEF Chargeable, PlainLine
<1> QED  BY <1>1 DEF Charge, PlainLine

LEMMA PlainChargeNear ==
    ASSUME NEW total \in Nat, Chargeable(PlainLine(total))
    PROVE  /\ Charge(PlainLine(total)) \in Nat
           /\ WithinHalfCent(Charge(PlainLine(total)), total)
<1>1. Grain \in Nat \ {0}
    BY GrainAssumption
<1> QED  BY <1>1, PlainChargeExact DEF WithinHalfCent

-----------------------------------------------------------------------------
(* Types                                                                   *)

LEMMA IdleType == Idle \in Request
BY DEF Request

LEMMA NoDocType == NoDoc \in OrderDoc
BY DEF NoDoc, OrderDoc, AnyStatus, CardMethod, PaymentMethods

\* What createOrder inserts is an order whose total is its price less its
\* discount.
LEMMA NewOrderType ==
    ASSUME NEW p \in Purchases,
           p.coupon # NoCoupon => Accepts(p.coupon, ListPrice(p.item))
    PROVE  NewOrder(p) \in OrderDoc
<1> DEFINE price == ListPrice(p.item)
           off == IF p.coupon = NoCoupon THEN 0 ELSE Discount(p.coupon, price)
<1>1. p \in Purchase /\ p.method \in PaymentMethods
    BY OrdersAssumption DEF Purchase
<1>2. price \in Nat
    BY <1>1, ListPriceType DEF Purchase
<1>3. off \in 0 .. price
    <2>1. CASE p.coupon = NoCoupon
        BY <2>1, <1>2
    <2>2. CASE p.coupon # NoCoupon
        <3>1. p.coupon \in Coupon
            BY <2>2, <1>1 DEF Purchase
        <3> QED  BY <3>1, <2>2, <1>2, DiscountWithinOrder
    <2> QED  BY <2>1, <2>2
<1>4. price - off \in Nat /\ off \in Nat
    BY <1>2, <1>3
<1> HIDE DEF price, off
<1>5. NewOrder(p) = [NoDoc EXCEPT !.status = "pending", !.method = p.method,
                      !.coupon = p.coupon # NoCoupon,
                      !.original = IF p.coupon = NoCoupon THEN 0 ELSE price,
                      !.discount = off, !.total = price - off]
    BY DEF NewOrder, price, off
<1> QED  BY ZenonT(60), <1>1, <1>2, <1>4, <1>5, NoDocType DEF OrderDoc, AnyStatus, OrderStatus, NoDoc

\* The lines checkout may send are made of amounts.
LEMMA CheckoutLineType ==
    ASSUME NEW doc \in OrderDoc, NEW line \in CheckoutLine(doc)
    PROVE  line \in Line
<1>1. RoundCents(doc.discount) \in Nat
    BY RoundCentsNearest DEF OrderDoc
<1> QED  BY <1>1 DEF CheckoutLine, DiscountedLine, PlainLine, Line, OrderDoc

\* A request that is under way is about an order.
LEMMA BusyOrder ==
    ASSUME TypeOK, NEW s \in Slots, reqs[s].pc # "idle"
    PROVE  reqs[s].order \in OrderIds /\ orders[reqs[s].order] \in OrderDoc
BY DEF TypeOK, Request, OrderRequest, UpdateRequest, WebhookRequest, Idle

LEMMA TypeStep ==
    ASSUME TypeOK, [Next]_vars
    PROVE  TypeOK'
<1> USE IdleType
<1>1. ASSUME NEW o \in OrderIds, NEW p \in Purchases, CreateOrder(o, p)
      PROVE  TypeOK'
    BY <1>1, NewOrderType DEF CreateOrder, TypeOK, OrderStatus
<1>2. ASSUME NEW s \in Slots, NEW req \in Request, Start(s, req),
             UNCHANGED <<sessions, acked, images>>
      PROVE  TypeOK'
    BY <1>2 DEF Start, TypeOK
<1>3. ASSUME NEW s \in Slots, NEW o \in OrderIds, NEW doc \in OrderDoc,
             doc.status \in OrderStatus, Write(s, o, doc),
             UNCHANGED <<sessions, images>>, acked' \subseteq SessionIds
      PROVE  TypeOK'
    BY <1>3 DEF Write, TypeOK
<1>4. ASSUME NEW s \in Slots, Checkout(s)
      PROVE  TypeOK'
    <2>1. ASSUME NEW o \in OrderIds, CheckoutRead(s, o)
          PROVE  TypeOK'
        <3>1. [Idle EXCEPT !.pc = "checkout", !.order = o, !.read = "pending"] \in Request
            BY DEF Idle, Request, OrderRequest, Steps, AnyStatus, OrderStatus, Line, NoLine, PlainLine
        <3> QED  BY <3>1, <2>1, <1>2 DEF CheckoutRead
    <2>2. CASE CheckoutPrice(s)
        <3>1. PICK line \in CheckoutLine(orders[reqs[s].order]) :
                    reqs' = [reqs EXCEPT ![s] =
                                [reqs[s] EXCEPT !.pc = "session", !.line = line]]
            BY <2>2 DEF CheckoutPrice
        <3>2. line \in Line
            BY <2>2, BusyOrder, CheckoutLineType DEF CheckoutPrice
        <3>3. [reqs[s] EXCEPT !.pc = "session", !.line = line] \in Request
            <4>1. reqs[s] \in Request /\ reqs[s].pc = "checkout"
                BY <2>2 DEF CheckoutPrice, TypeOK
            <4>2. reqs[s] \in OrderRequest
                BY <4>1 DEF Request, UpdateRequest, WebhookRequest, Idle
            <4> QED  BY <3>2, <4>2 DEF Request, OrderRequest, Steps
        <3>4. reqs' \in [Slots -> Request]
            BY <3>1, <3>3 DEF TypeOK
        <3> QED  BY <2>2, <3>4 DEF CheckoutPrice, TypeOK
    <2>3. ASSUME NEW x \in SessionIds, CheckoutSession(s, x)
          PROVE  TypeOK'
        <3>1. reqs[s].line \in Line /\ reqs[s].order \in OrderIds
            BY <2>3 DEF CheckoutSession, TypeOK, Request, OrderRequest, UpdateRequest, WebhookRequest, Idle
        <3>2. Charge(reqs[s].line) \in Int
            BY <3>1 DEF Charge, Line
        <3> QED  BY <2>3, <3>1, <3>2 DEF CheckoutSession, TypeOK, Session
    <2> QED  BY <1>4, <2>1, <2>2, <2>3 DEF Checkout
<1>5. ASSUME NEW s \in Slots, Webhook(s)
      PROVE  TypeOK'
    <2>1. ASSUME NEW x \in SessionIds, WebhookVerify(s, x)
          PROVE  TypeOK'
        <3> DEFINE req == [Idle EXCEPT !.pc = "webhook", !.session = x,
                                       !.order = sessions[x].order]
        <3>1. sessions[x].order \in OrderIds
            BY <2>1 DEF WebhookVerify, IntentSucceeded, TypeOK, Session, NoSession
        <3>2. req \in Request
            BY <3>1 DEF Idle, Request, WebhookRequest, AnyStatus, Line, NoLine, PlainLine
        <3>3. Start(s, req) /\ UNCHANGED <<sessions, acked, images>>
            BY <2>1 DEF WebhookVerify
        <3> HIDE DEF req
        <3> QED  BY <3>2, <3>3, <1>2
    <2>2. CASE WebhookWrite(s)
        <3>1. reqs[s].session \in SessionIds
            BY <2>2 DEF WebhookWrite, TypeOK, Request, OrderRequest, UpdateRequest, WebhookRequest, Idle, Steps
        <3> QED
            BY <2>2, <3>1, <1>3, BusyOrder
            DEF WebhookWrite, TypeOK, OrderDoc, AnyStatus, OrderStatus
    <2> QED  BY <1>5, <2>1, <2>2 DEF Webhook
<1>6. ASSUME NEW s \in Slots, Cancel(s)
      PROVE  TypeOK'
    <2>1. ASSUME NEW o \in OrderIds, CancelRead(s, o)
          PROVE  TypeOK'
        <3>1. [Idle EXCEPT !.pc = "cancel", !.order = o,
                           !.read = orders[o].status] \in Request
            <4>1. orders[o].status \in OrderStatus
                BY <2>1 DEF CancelRead, OrderStatus
            <4> QED  BY <4>1 DEF Idle, Request, OrderRequest, Steps, Line, NoLine, PlainLine
        <3> QED  BY <3>1, <2>1, <1>2 DEF CancelRead
    <2>2. CASE CancelWrite(s)
        BY <2>2, <1>3, BusyOrder
        DEF CancelWrite, Rejected, TypeOK, OrderDoc, AnyStatus, OrderStatus
    <2> QED  BY <1>6, <2>1, <2>2 DEF Cancel
<1>7. ASSUME NEW s \in Slots, Update(s)
      PROVE  TypeOK'
    <2>1. ASSUME NEW o \in OrderIds, NEW t \in OrderStatus, UpdateRead(s, o, t)
          PROVE  TypeOK'
        <3>1. [Idle EXCEPT !.pc = "update", !.order = o, !.read = orders[o].status,
                           !.target = t] \in Request
            <4>1. orders[o].status \in OrderStatus
                BY <2>1 DEF UpdateRead, TypeOK, OrderDoc, AnyStatus
            <4> QED  BY <4>1 DEF Idle, Request, UpdateRequest
        <3> QED  BY <3>1, <2>1, <1>2 DEF UpdateRead
    <2>2. CASE UpdateWrite(s)
        <3> DEFINE o == reqs[s].order
                   t == reqs[s].target
                   doc == IF t = "rejected" THEN Rejected(orders[o], reqs[s].read)
                                            ELSE [orders[o] EXCEPT !.status = t]
        <3>1. o \in OrderIds /\ orders[o] \in OrderDoc /\ t \in OrderStatus
            BY <2>2, BusyOrder DEF UpdateWrite, TypeOK, Request, OrderRequest, UpdateRequest,
                WebhookRequest, Idle, Steps
        <3>2. doc \in OrderDoc /\ doc.status \in OrderStatus
            BY <3>1 DEF Rejected, OrderDoc, AnyStatus, OrderStatus
        <3>3. Write(s, o, doc) /\ UNCHANGED <<sessions, acked, images>>
            BY <2>2 DEF UpdateWrite
        <3>4. acked' \subseteq SessionIds
            BY <3>3 DEF TypeOK
        <3> HIDE DEF o, doc
        <3> QED  BY <3>1, <3>2, <3>3, <3>4, <1>3
    <2> QED  BY <1>7, <2>1, <2>2 DEF Update
<1>8. ASSUME NEW s \in Slots, Transfer(s)
      PROVE  TypeOK'
    <2>1. ASSUME NEW o \in OrderIds, TransferRead(s, o)
          PROVE  TypeOK'
        <3>1. [Idle EXCEPT !.pc = "upload", !.order = o, !.read = "pending"] \in Request
            BY DEF Idle, Request, OrderRequest, Steps, AnyStatus, OrderStatus, Line, NoLine, PlainLine
        <3> QED  BY <3>1, <2>1, <1>2 DEF TransferRead
    <2>2. CASE TransferUpload(s)
        <3>1. [reqs[s] EXCEPT !.pc = "submit"] \in Request
            <4>1. reqs[s] \in Request /\ reqs[s].pc = "upload"
                BY <2>2 DEF TransferUpload, TypeOK
            <4>2. reqs[s] \in OrderRequest
                BY <4>1 DEF Request, UpdateRequest, WebhookRequest, Idle
            <4> QED  BY <4>2 DEF Request, OrderRequest, Steps
        <3>2. reqs' = [reqs EXCEPT ![s] = [reqs[s] EXCEPT !.pc = "submit"]]
            BY <2>2 DEF TransferUpload
        <3>3. reqs' \in [Slots -> Request]
            BY <3>1, <3>2 DEF TypeOK
        <3> QED  BY <2>2, <3>3, BusyOrder DEF TransferUpload, TypeOK
    <2>3. CASE TransferWrite(s)
        <3> DEFINE o == reqs[s].order
                   doc == [orders[o] EXCEPT !.status = "processing", !.evidence = TRUE,
                              !.instaName = @ \/ orders[o].method = "insta-transfer"]
        <3>1. o \in OrderIds /\ orders[o] \in OrderDoc
            BY <2>3, BusyOrder DEF TransferWrite
        <3>2. doc \in OrderDoc /\ doc.status \in OrderStatus
            BY <3>1 DEF OrderDoc, AnyStatus, OrderStatus
        <3>3. Write(s, o, doc) /\ UNCHANGED <<sessions, acked, images>>
            BY <2>3 DEF TransferWrite
        <3>4. acked' \subseteq SessionIds
            BY <3>3 DEF TypeOK
        <3> HIDE DEF o, doc
        <3> QED  BY <3>1, <3>2, <3>3, <3>4, <1>3
    <2> QED  BY <1>8, <2>1, <2>2, <2>3 DEF Transfer
<1>9. ASSUME NEW s \in Slots, Fail(s)
      PROVE  TypeOK'
    BY <1>9 DEF Fail, TypeOK
<1>10. ASSUME NEW x \in SessionIds, Stripe(x)
       PROVE  TypeOK'
    BY <1>10 DEF Stripe, Complete, Settle, Expire, TypeOK, Session, NoSession, Completed
<1>11. CASE UNCHANGED vars
    BY <1>11 DEF vars, TypeOK
<1> QED
    BY <1>1, <1>4, <1>5, <1>6, <1>7, <1>8, <1>9, <1>10, <1>11 DEF Next

\* Every reachable state of the store, of the requests and of Stripe is made
\* of the documents and records the code builds; in particular no order ever
\* gets an amount below zero.
THEOREM TypeInvariant == Spec => []TypeOK
<1>1. Init => TypeOK
    BY IdleType, NoDocType DEF Init, TypeOK, NoSession, Session
<1>2. TypeOK /\ [Next]_vars => TypeOK'
    BY TypeStep
<1> QED  BY <1>1, <1>2, PTL DEF Spec

-----------------------------------------------------------------------------
(* What no step changes                                                    *)

Placed(o) == orders[o].status # "absent"
Opened(x) == sessions[x].state # "none"

\* An order once placed stays, with its method, its amounts and its payment
\* date; a session once opened keeps its order and its amount; a captured
\* intent stays captured; histories grow.
Steady ==
    /\ \A o \in OrderIds : Placed(o) =>
          /\ Placed(o)'
          /\ orders'[o].method = orders[o].method
          /\ orders'[o].coupon = orders[o].coupon
          /\ orders'[o].original = orders[o].original
          /\ orders'[o].discount = orders[o].discount
          /\ orders'[o].total = orders[o].total
          /\ orders[o].paidAt => orders'[o].paidAt
          /\ seen[o] \subseteq seen'[o]
    /\ \A x \in SessionIds : Opened(x) =>
          /\ Opened(x)'
          /\ sessions'[x].order = sessions[x].order
          /\ sessions'[x].amount = sessions[x].amount
          /\ sessions[x].state = "succeeded" => sessions'[x].state = "succeeded"
    /\ images \subseteq images'
    /\ acked \subseteq acked'

\* What a write may do to the document it replaces.
Rewrites(doc, old) ==
    /\ doc \in OrderDoc
    /\ doc.status # "absent"
    /\ doc.method = old.method
    /\ doc.coupon = old.coupon
    /\ doc.original = old.original
    /\ doc.discount = old.discount
    /\ doc.total = old.total
    /\ old.paidAt => doc.paidAt

\* The three documents handlers write, in one place.
LEMMA WriteRewrites ==
    ASSUME TypeOK, NEW s \in Slots, reqs[s].pc # "idle"
    PROVE  LET old == orders[reqs[s].order]
               t   == reqs[s].target
           IN  /\ Rewrites([old EXCEPT !.status = "paid", !.paidAt = TRUE], old)
               /\ Rewrites(Rejected(old, reqs[s].read), old)
               /\ reqs[s].pc = "update" => Rewrites([old EXCEPT !.status = t], old)
               /\ Rewrites([old EXCEPT !.status = "processing", !.evidence = TRUE,
                               !.instaName = @ \/ old.method = "insta-transfer"], old)
<1> DEFINE old == orders[reqs[s].order]
           t   == reqs[s].target
<1>1. old \in OrderDoc
    BY BusyOrder
<1>2. reqs[s].pc = "update" => t \in OrderStatus
    BY DEF TypeOK, Request, OrderRequest, WebhookRequest, UpdateRequest, Idle, Steps
<1> HIDE DEF old, t
<1>3. Rewrites([old EXCEPT !.status = "paid", !.paidAt = TRUE], old)
    BY <1>1 DEF Rewrites, OrderDoc, AnyStatus, OrderStatus
<1>4. Rewrites(Rejected(old, reqs[s].read), old)
    BY <1>1 DEF Rewrites, Rejected, OrderDoc, AnyStatus, OrderStatus
<1>5. reqs[s].pc = "update" => Rewrites([old EXCEPT !.status = t], old)
    BY <1>1, <1>2 DEF Rewrites, OrderDoc, AnyStatus, OrderStatus
<1>6. Rewrites([old EXCEPT !.status = "processing", !.evidence = TRUE,
                   !.instaName = @ \/ old.method = "insta-transfer"], old)
    BY <1>1 DEF Rewrites, OrderDoc, AnyStatus, OrderStatus
<1> QED  BY <1>3, <1>4, <1>5, <1>6 DEF old, t

LEMMA SteadyStep ==
    ASSUME TypeOK, [Next]_vars
    PROVE  Steady
<1>1. ASSUME NEW s \in Slots, NEW doc, reqs[s].pc # "idle",
             Rewrites(doc, orders[reqs[s].order]), Write(s, reqs[s].order, doc),
             UNCHANGED <<sessions, images>>, acked \subseteq acked'
      PROVE  Steady
    BY <1>1, BusyOrder DEF Write, Rewrites, Steady, Placed, Opened, TypeOK
<1>2. ASSUME UNCHANGED <<orders, sessions, seen>>, images \subseteq images', acked \subseteq acked'
      PROVE  Steady
    BY <1>2 DEF Steady, Placed, Opened
<1>3. ASSUME UNCHANGED <<orders, seen, images, acked>>,
             NEW x \in SessionIds, NEW ses, sessions' = [sessions EXCEPT ![x] = ses],
             ses.state # "none",
             Opened(x) => /\ ses.order = sessions[x].order
                          /\ ses.amount = sessions[x].amount
                          /\ sessions[x].state # "succeeded"
      PROVE  Steady
    BY <1>3 DEF Steady, Placed, Opened, TypeOK
<1>4. ASSUME NEW o \in OrderIds, NEW p \in Purchases, CreateOrder(o, p)
      PROVE  Steady
    BY <1>4 DEF CreateOrder, Steady, Placed, Opened, TypeOK
<1>5. ASSUME NEW s \in Slots, Checkout(s)
      PROVE  Steady
    <2>1. ASSUME NEW o \in OrderIds, CheckoutRead(s, o)
          PROVE  Steady
        BY <2>1, <1>2 DEF CheckoutRead, Start
    <2>2. CASE CheckoutPrice(s)
        BY <2>2, <1>2 DEF CheckoutPrice
    <2>3. ASSUME NEW x \in SessionIds, CheckoutSession(s, x)
          PROVE  Steady
        <3> DEFINE ses == [state |-> "open", order |-> reqs[s].order,
                           amount |-> Charge(reqs[s].line)]
        <3>1. sessions' = [sessions EXCEPT ![x] = ses]
            BY <2>3 DEF CheckoutSession
        <3>2. ses.state # "none" /\ ~Opened(x)
            BY <2>3 DEF CheckoutSession, Opened
        <3>3. UNCHANGED <<orders, seen, images, acked>>
            BY <2>3 DEF CheckoutSession
        <3> HIDE DEF ses
        <3> QED  BY <3>1, <3>2, <3>3, <1>3
    <2> QED  BY <1>5, <2>1, <2>2, <2>3 DEF Checkout
<1>6. ASSUME NEW s \in Slots, Webhook(s)
      PROVE  Steady
    <2>1. ASSUME NEW x \in SessionIds, WebhookVerify(s, x)
          PROVE  Steady
        BY <2>1, <1>2 DEF WebhookVerify, Start
    <2>2. CASE WebhookWrite(s)
        BY <2>2, <1>1, WriteRewrites DEF WebhookWrite
    <2> QED  BY <1>6, <2>1, <2>2 DEF Webhook
<1>7. ASSUME NEW s \in Slots, Cancel(s)
      PROVE  Steady
    <2>1. ASSUME NEW o \in OrderIds, CancelRead(s, o)
          PROVE  Steady
        BY <2>1, <1>2 DEF CancelRead, Start
    <2>2. CASE CancelWrite(s)
        BY <2>2, <1>1, WriteRewrites DEF CancelWrite
    <2> QED  BY <1>7, <2>1, <2>2 DEF Cancel
<1>8. ASSUME NEW s \in Slots, Update(s)
      PROVE  Steady
    <2>1. ASSUME NEW o \in OrderIds, NEW t \in OrderStatus, UpdateRead(s, o, t)
          PROVE  Steady
        BY <2>1, <1>2 DEF UpdateRead, Start
    <2>2. CASE UpdateWrite(s)
        BY <2>2, <1>1, WriteRewrites DEF UpdateWrite
    <2> QED  BY <1>8, <2>1, <2>2 DEF Update
<1>9. ASSUME NEW s \in Slots, Transfer(s)
      PROVE  Steady
    <2>1. ASSUME NEW o \in OrderIds, TransferRead(s, o)
          PROVE  Steady
        BY <2>1, <1>2 DEF TransferRead, Start
    <2>2. CASE TransferUpload(s)
        BY <2>2, <1>2 DEF TransferUpload
    <2>3. CASE TransferWrite(s)
        BY <2>3, <1>1, WriteRewrites DEF TransferWrite
    <2> QED  BY <1>9, <2>1, <2>2, <2>3 DEF Transfer
<1>10. ASSUME NEW s \in Slots, Fail(s)
       PROVE  Steady
    BY <1>10, <1>2 DEF Fail
<1>11. ASSUME NEW x \in SessionIds, Stripe(x)
       PROVE  Steady
    <2>1. ASSUME NEW state \in Completed \cup {"expired"},
                 sessions' = [sessions EXCEPT ![x] = [@ EXCEPT !.state = state]],
                 sessions[x].state \in {"open", "processing"},
                 UNCHANGED <<orders, seen, images, acked>>
          PROVE  Steady
        <3> DEFINE ses == [sessions[x] EXCEPT !.state = state]
        <3>1. sessions' = [sessions EXCEPT ![x] = ses]
            BY <2>1
        <3>2. sessions[x] \in [state : {"open", "expired"} \cup Completed,
                               order : OrderIds, amount : Int]
            BY <2>1 DEF TypeOK, Session, NoSession
        <3>3. /\ ses.state # "none"
              /\ ses.order = sessions[x].order
              /\ ses.amount = sessions[x].amount
              /\ sessions[x].state # "succeeded"
            BY <2>1, <3>2 DEF Completed
        <3> HIDE DEF ses
        <3> QED  BY <2>1, <3>1, <3>3, <1>3
    <2>2. ASSUME NEW state \in Completed, Complete(x, state)
          PROVE  Steady
        BY <2>1, <2>2 DEF Complete
    <2>3. ASSUME NEW state \in Completed, Settle(x, state)
          PROVE  Steady
        BY <2>1, <2>3 DEF Settle
    <2>4. CASE Expire(x)
        BY <2>1, <2>4 DEF Expire
    <2> QED  BY <1>11, <2>2, <2>3, <2>4 DEF Stripe
<1>12. CASE UNCHANGED vars
    BY <1>12, <1>2 DEF vars
<1> QED
    BY <1>4, <1>5, <1>6, <1>7, <1>8, <1>9, <1>10, <1>11, <1>12 DEF Next

\* Amounts, method and coupon of an order never change once it is placed, its
\* payment date is never taken back, and neither is a capture.
THEOREM NothingIsTakenBack == Spec => [][Steady]_vars
<1>1. TypeOK /\ [Next]_vars => [Steady]_vars
    BY SteadyStep
<1> QED  BY <1>1, TypeInvariant, PTL DEF Spec

-----------------------------------------------------------------------------
(* The inductive invariant                                                 *)

\* What a request that is under way knows about the order it read and about
\* the payment it was told of.
RequestInv(s) ==
    LET r == reqs[s] IN
    r.pc # "idle" =>
        /\ Placed(r.order)
        /\ r.pc \in {"checkout", "session"} => r.read = "pending"
        /\ r.pc = "session" => r.line \in CheckoutLine(orders[r.order])
        /\ r.pc = "webhook" => /\ sessions[r.session].state = "succeeded"
                               /\ sessions[r.session].order = r.order
        /\ r.pc = "cancel" => r.read \in {"pending", "paid"}
        /\ r.pc = "update" => MayUpdate(r.read, r.target)
        /\ r.pc \in {"upload", "submit"} =>
              r.read = "pending" /\ orders[r.order].method \in WalletMethods
        /\ r.pc = "submit" => r.order \in images
        /\ r.pc # "webhook" => r.read \in seen[r.order]

\* A copy that no write has overtaken shows the status the order has.
FreshInv(s) ==
    reqs[s].pc \notin {"idle", "webhook"} /\ s \notin stale =>
        reqs[s].read = orders[reqs[s].order].status

\* The amounts createOrder stored, and a history that holds the present.
OrderInv(o) ==
    Placed(o) =>
        /\ orders[o].status \in seen[o]
        /\ IF orders[o].coupon
           THEN /\ orders[o].discount <= orders[o].original
                /\ orders[o].total = orders[o].original - orders[o].discount
           ELSE orders[o].original = 0 /\ orders[o].discount = 0

SessionInv(x) == Opened(x) => Placed(sessions[x].order)

AckInv(x) ==
    x \in acked => /\ sessions[x].state = "succeeded"
                   /\ orders[sessions[x].order].paidAt

IInv ==
    /\ TypeOK
    /\ \A s \in Slots : RequestInv(s) /\ FreshInv(s)
    /\ \A o \in OrderIds : OrderInv(o)
    /\ \A x \in SessionIds : SessionInv(x) /\ AckInv(x)
    /\ ConfirmedOnlyIfCaptured
    /\ ChargeMatchesTotal
    /\ RefundOnlyAfterPaid
    /\ EvidenceIsComplete

-----------------------------------------------------------------------------
(* The shapes of a step                                                    *)

Writers == {"webhook", "cancel", "update", "submit"}

\* The document the request r writes over old.
Written(r, old) ==
    CASE r.pc = "webhook" -> [old EXCEPT !.status = "paid", !.paidAt = TRUE]
      [] r.pc = "cancel" -> Rejected(old, r.read)
      [] r.pc = "update" -> IF r.target = "rejected" THEN Rejected(old, r.read)
                            ELSE [old EXCEPT !.status = r.target]
      [] r.pc = "submit" -> [old EXCEPT !.status = "processing", !.evidence = TRUE,
                                !.instaName = @ \/ old.method = "insta-transfer"]

HandlerWrite(s) ==
    /\ reqs[s].pc \in Writers
    /\ Write(s, reqs[s].order, Written(reqs[s], orders[reqs[s].order]))
    /\ UNCHANGED <<sessions, images>>
    /\ \/ UNCHANGED acked
       \/ reqs[s].pc = "webhook" /\ acked' = acked \cup {reqs[s].session}

HandlerRead(s) ==
    \/ \E o \in OrderIds : CheckoutRead(s, o) \/ CancelRead(s, o) \/ TransferRead(s, o)
    \/ \E o \in OrderIds, t \in OrderStatus : UpdateRead(s, o, t)
    \/ \E x \in SessionIds : WebhookVerify(s, x)

\* A step places an order, writes one, or leaves the collection alone; in the
\* last case it moves at most one request or one session.
LEMMA StepShape ==
    ASSUME [Next]_vars
    PROVE  \/ \E o \in OrderIds, p \in Purchases : CreateOrder(o, p)
           \/ \E s \in Slots : HandlerWrite(s)
           \/ \E s \in Slots :
                 HandlerRead(s) \/ CheckoutPrice(s) \/ TransferUpload(s) \/ Fail(s)
           \/ \E s \in Slots, x \in SessionIds : CheckoutSession(s, x)
           \/ \E x \in SessionIds : Stripe(x)
           \/ UNCHANGED vars
<1>1. ASSUME NEW s \in Slots, WebhookWrite(s)
      PROVE  HandlerWrite(s)
    BY <1>1 DEF WebhookWrite, HandlerWrite, Written, Writers
<1>2. ASSUME NEW s \in Slots, CancelWrite(s)
      PROVE  HandlerWrite(s)
    BY <1>2 DEF CancelWrite, HandlerWrite, Written, Writers
<1>3. ASSUME NEW s \in Slots, UpdateWrite(s)
      PROVE  HandlerWrite(s)
    BY <1>3 DEF UpdateWrite, HandlerWrite, Written, Writers
<1>4. ASSUME NEW s \in Slots, TransferWrite(s)
      PROVE  HandlerWrite(s)
    BY <1>4 DEF TransferWrite, HandlerWrite, Written, Writers
<1>5. ASSUME NEW s \in Slots, Checkout(s)
      PROVE  \/ HandlerRead(s) \/ CheckoutPrice(s)
             \/ \E x \in SessionIds : CheckoutSession(s, x)
    BY <1>5 DEF Checkout, HandlerRead
<1>6. ASSUME NEW s \in Slots, Webhook(s) \/ Cancel(s) \/ Update(s) \/ Transfer(s)
      PROVE  HandlerWrite(s) \/ HandlerRead(s) \/ TransferUpload(s)
    BY <1>1, <1>2, <1>3, <1>4, <1>6 DEF Webhook, Cancel, Update, Transfer, HandlerRead
<1> QED  BY <1>5, <1>6 DEF Next

\* A write rewrites the document of a placed order.
LEMMA WrittenRewrites ==
    ASSUME TypeOK, NEW s \in Slots, reqs[s].pc \in Writers
    PROVE  Rewrites(Written(reqs[s], orders[reqs[s].order]), orders[reqs[s].order])
<1>1. reqs[s].pc # "idle"
    BY DEF Writers
<1> QED  BY <1>1, WriteRewrites DEF Writers, Written

\* Only createOrder and the writing handlers touch the collection.
LEMMA StoreShape ==
    ASSUME [Next]_vars
    PROVE  \/ \E o \in OrderIds, p \in Purchases : CreateOrder(o, p)
           \/ \E s \in Slots : HandlerWrite(s)
           \/ UNCHANGED <<orders, seen>>
<1>1. ASSUME NEW s \in Slots,
             HandlerRead(s) \/ CheckoutPrice(s) \/ TransferUpload(s) \/ Fail(s)
      PROVE  UNCHANGED <<orders, seen>>
    BY <1>1 DEF HandlerRead, CheckoutRead, CancelRead, TransferRead, UpdateRead,
        WebhookVerify, Start, CheckoutPrice, TransferUpload, Fail
<1>2. ASSUME NEW s \in Slots, NEW x \in SessionIds, CheckoutSession(s, x)
      PROVE  UNCHANGED <<orders, seen>>
    BY <1>2 DEF CheckoutSession
<1>3. ASSUME NEW x \in SessionIds, Stripe(x)
      PROVE  UNCHANGED <<orders, seen>>
    BY <1>3 DEF Stripe, Complete, Settle, Expire
<1> QED  BY <1>1, <1>2, <1>3, StepShape DEF vars

-----------------------------------------------------------------------------
(* Each part of the invariant is preserved                                 *)

\* createOrder stores a total that is the listed price less the discount.
LEMMA NewOrderAmounts ==
    ASSUME NEW p \in Purchases
    PROVE  LET doc == NewOrder(p) IN
           /\ doc.status = "pending" /\ ~doc.paidAt /\ ~doc.refunded
           /\ ~doc.evidence /\ ~doc.instaName
           /\ IF doc.coupon
              THEN /\ doc.discount <= doc.original
                   /\ doc.total = doc.original - doc.discount
              ELSE doc.original = 0 /\ doc.discount = 0
<1> DEFINE price == ListPrice(p.item)
           off == IF p.coupon = NoCoupon THEN 0 ELSE Discount(p.coupon, price)
<1>1. p \in Purchase
    BY OrdersAssumption
<1>2. price \in Nat
    BY <1>1, ListPriceType DEF Purchase
<1>3. p.coupon # NoCoupon => off \in 0 .. price
    BY <1>1, <1>2, DiscountWithinOrder DEF Purchase
<1>4. p.coupon = NoCoupon => off = 0
    OBVIOUS
<1> HIDE DEF price, off
<1>5. NewOrder(p) = [NoDoc EXCEPT !.status = "pending", !.method = p.method,
                      !.coupon = p.coupon # NoCoupon,
                      !.original = IF p.coupon = NoCoupon THEN 0 ELSE price,
                      !.discount = off, !.total = price - off]
    BY DEF NewOrder, price, off
<1>6. /\ NewOrder(p).status = "pending" /\ ~NewOrder(p).paidAt
      /\ ~NewOrder(p).refunded /\ ~NewOrder(p).evidence /\ ~NewOrder(p).instaName
      /\ NewOrder(p).coupon <=> p.coupon # NoCoupon
      /\ NewOrder(p).discount = off
    BY <1>5 DEF NoDoc
<1>7. CASE p.coupon = NoCoupon
    <2>1. NewOrder(p).original = 0
        BY <1>7, <1>5 DEF NoDoc
    <2> QED  BY <2>1, <1>4, <1>6, <1>7
<1>8. CASE p.coupon # NoCoupon
    <2>1. NewOrder(p).original = price /\ NewOrder(p).total = price - off
        BY <1>8, <1>5 DEF NoDoc
    <2> QED  BY <2>1, <1>2, <1>3, <1>6, <1>8
<1> QED  BY <1>7, <1>8

LEMMA OrderStep ==
    ASSUME IInv, [Next]_vars
    PROVE  \A o \in OrderIds : OrderInv(o)'
<1>1. ASSUME NEW o \in OrderIds, NEW p \in Purchases, CreateOrder(o, p)
      PROVE  \A q \in OrderIds : OrderInv(q)'
    BY <1>1, NewOrderAmounts DEF CreateOrder, OrderInv, Placed, TypeOK, IInv
<1>2. ASSUME NEW s \in Slots, HandlerWrite(s)
      PROVE  \A q \in OrderIds : OrderInv(q)'
    <2> DEFINE o == reqs[s].order
               doc == Written(reqs[s], orders[o])
    <2>1. o \in OrderIds /\ orders[o] \in OrderDoc
        BY <1>2, BusyOrder DEF HandlerWrite, Writers, IInv
    <2>2. Rewrites(doc, orders[o])
        BY <1>2, WrittenRewrites DEF HandlerWrite, IInv
    <2>3. Write(s, o, doc)
        BY <1>2 DEF HandlerWrite
    <2>4. Placed(o)
        BY <1>2 DEF HandlerWrite, IInv, RequestInv, Writers
    <2> HIDE DEF o, doc
    <2> QED  BY <2>1, <2>2, <2>3, <2>4 DEF Write, Rewrites, OrderInv, Placed, TypeOK, IInv
<1>3. CASE UNCHANGED <<orders, seen>>
    BY <1>3 DEF OrderInv, Placed, IInv
<1> QED  BY <1>1, <1>2, <1>3, StoreShape

LEMMA RequestStep ==
    ASSUME IInv, [Next]_vars
    PROVE  \A s \in Slots : RequestInv(s)'
<1> USE DEF Placed
<1>0. TypeOK /\ Steady
    BY SteadyStep DEF IInv
<1>1. ASSUME NEW s \in Slots, reqs'[s] = reqs[s]
      PROVE  RequestInv(s)'
    <2>1. CASE reqs[s].pc = "idle"
        BY <1>1, <2>1 DEF RequestInv
    <2>2. CASE reqs[s].pc # "idle"
        <3>1. reqs[s].order \in OrderIds /\ RequestInv(s)
            BY <1>0, <2>2, BusyOrder DEF IInv
        <3>2. CheckoutLine(orders[reqs[s].order])' = CheckoutLine(orders[reqs[s].order])
            BY ZenonT(60), <1>0, <1>1, <2>2, <3>1 DEF Steady, RequestInv, CheckoutLine
        <3>3. reqs[s].pc = "webhook" => reqs[s].session \in SessionIds
            BY <1>0 DEF TypeOK, Request, OrderRequest, UpdateRequest, WebhookRequest, Idle, Steps
        <3> QED  BY <1>0, <1>1, <2>2, <3>1, <3>2, <3>3 DEF Steady, RequestInv, Opened
    <2> QED  BY <2>1, <2>2
<1>2. ASSUME NEW s \in Slots, NEW req, RequestInv(s)', reqs' = [reqs EXCEPT ![s] = req]
      PROVE  \A t \in Slots : RequestInv(t)'
    BY <1>0, <1>1, <1>2 DEF TypeOK
<1>3. ASSUME NEW s \in Slots, reqs' = [reqs EXCEPT ![s] = Idle]
      PROVE  \A t \in Slots : RequestInv(t)'
    BY <1>0, <1>2, <1>3 DEF TypeOK, RequestInv, Idle
<1>4. ASSUME NEW s \in Slots, HandlerRead(s)
      PROVE  \A t \in Slots : RequestInv(t)'
    <2>1. ASSUME NEW req, Start(s, req), UNCHANGED <<sessions, acked, images>>,
                 req.order \in OrderIds, orders[req.order].status # "absent",
                 req.pc # "session", req.pc # "submit",
                 req.pc = "checkout" => req.read = "pending",
                 req.pc = "webhook" => /\ sessions[req.session].state = "succeeded"
                                       /\ sessions[req.session].order = req.order,
                 req.pc = "cancel" => req.read \in {"pending", "paid"},
                 req.pc = "update" => MayUpdate(req.read, req.target),
                 req.pc = "upload" => /\ req.read = "pending"
                                      /\ orders[req.order].method \in WalletMethods,
                 req.pc # "webhook" => req.read = orders[req.order].status
          PROVE  \A t \in Slots : RequestInv(t)'
        <3>1. reqs' = [reqs EXCEPT ![s] = req] /\ reqs'[s] = req
            BY <1>0, <2>1 DEF Start, TypeOK
        <3>2. orders[req.order].status \in seen[req.order]
            BY <2>1 DEF IInv, OrderInv
        <3>3. RequestInv(s)'
            BY <2>1, <3>1, <3>2 DEF RequestInv, Start
        <3> QED  BY <3>1, <3>3, <1>2
    <2>2. ASSUME NEW o \in OrderIds, CheckoutRead(s, o)
          PROVE  \A t \in Slots : RequestInv(t)'
        <3> DEFINE req == [Idle EXCEPT !.pc = "checkout", !.order = o, !.read = "pending"]
        <3>1. req.pc = "checkout" /\ req.order = o /\ req.read = "pending"
            BY DEF Idle
        <3>2. Start(s, req) /\ UNCHANGED <<sessions, acked, images>>
            BY <2>2 DEF CheckoutRead
        <3> HIDE DEF req
        <3> QED  BY <2>1, <2>2, <3>1, <3>2 DEF CheckoutRead
    <2>3. ASSUME NEW o \in OrderIds, CancelRead(s, o)
          PROVE  \A t \in Slots : RequestInv(t)'
        <3> DEFINE req == [Idle EXCEPT !.pc = "cancel", !.order = o, !.read = orders[o].status]
        <3>1. req.pc = "cancel" /\ req.order = o /\ req.read = orders[o].status
            BY DEF Idle
        <3>2. Start(s, req) /\ UNCHANGED <<sessions, acked, images>>
            BY <2>3 DEF CancelRead
        <3> HIDE DEF req
        <3> QED  BY <2>1, <2>3, <3>1, <3>2 DEF CancelRead
    <2>4. ASSUME NEW o \in OrderIds, TransferRead(s, o)
          PROVE  \A t \in Slots : RequestInv(t)'
        <3> DEFINE req == [Idle EXCEPT !.pc = "upload", !.order = o, !.read = "pending"]
        <3>1. req.pc = "upload" /\ req.order = o /\ req.read = "pending"
            BY DEF Idle
        <3>2. Start(s, req) /\ UNCHANGED <<sessions, acked, images>>
            BY <2>4 DEF TransferRead
        <3> HIDE DEF req
        <3> QED  BY <2>1, <2>4, <3>1, <3>2 DEF TransferRead
    <2>5. ASSUME NEW o \in OrderIds, NEW t \in OrderStatus, UpdateRead(s, o, t)
          PROVE  \A u \in Slots : RequestInv(u)'
        <3> DEFINE req == [Idle EXCEPT !.pc = "update", !.order = o,
                                       !.read = orders[o].status, !.target = t]
        <3>1. req.pc = "update" /\ req.order = o /\ req.read = orders[o].status
              /\ req.target = t
            BY DEF Idle
        <3>2. Start(s, req) /\ UNCHANGED <<sessions, acked, images>>
            BY <2>5 DEF UpdateRead
        <3> HIDE DEF req
        <3> QED  BY <2>1, <2>5, <3>1, <3>2 DEF UpdateRead
    <2>6. ASSUME NEW x \in SessionIds, WebhookVerify(s, x)
          PROVE  \A t \in Slots : RequestInv(t)'
        <3> DEFINE req == [Idle EXCEPT !.pc = "webhook", !.session = x,
                                       !.order = sessions[x].order]
        <3>1. req.pc = "webhook" /\ req.session = x /\ req.order = sessions[x].order
            BY DEF Idle
        <3>2. Start(s, req) /\ UNCHANGED <<sessions, acked, images>>
            BY <2>6 DEF WebhookVerify
        <3>3. sessions[x].state = "succeeded"
            BY <2>6 DEF WebhookVerify, IntentSucceeded
        <3>4. sessions[x].order \in OrderIds /\ orders[sessions[x].order].status # "absent"
            BY <1>0, <3>3 DEF TypeOK, Session, NoSession, IInv, SessionInv, Opened
        <3> HIDE DEF req
        <3> QED  BY <2>1, <3>1, <3>2, <3>3, <3>4
    <2> QED  BY <1>4, <2>2, <2>3, <2>4, <2>5, <2>6 DEF HandlerRead
<1>5. ASSUME NEW s \in Slots, CheckoutPrice(s)
      PROVE  \A t \in Slots : RequestInv(t)'
    <2>1. PICK line \in CheckoutLine(orders[reqs[s].order]) :
                reqs' = [reqs EXCEPT ![s] =
                            [reqs[s] EXCEPT !.pc = "session", !.line = line]]
        BY <1>5 DEF CheckoutPrice
    <2> DEFINE req == [reqs[s] EXCEPT !.pc = "session", !.line = line]
    <2>2. reqs[s] \in OrderRequest /\ reqs[s].pc = "checkout"
        BY <1>0, <1>5 DEF CheckoutPrice, TypeOK, Request, UpdateRequest, WebhookRequest, Idle
    <2>3. req.pc = "session" /\ req.line = line /\ req.order = reqs[s].order
          /\ req.read = reqs[s].read
        BY <2>2 DEF OrderRequest
    <2>4. reqs' = [reqs EXCEPT ![s] = req] /\ reqs'[s] = req
        BY <1>0, <2>1 DEF TypeOK
    <2> HIDE DEF req
    <2>5. RequestInv(s)
        BY DEF IInv
    <2>6. RequestInv(s)'
        BY <1>5, <2>2, <2>3, <2>4, <2>5 DEF CheckoutPrice, RequestInv
    <2> QED  BY <2>4, <2>6, <1>2
<1>6. ASSUME NEW s \in Slots, TransferUpload(s)
      PROVE  \A t \in Slots : RequestInv(t)'
    <2> DEFINE req == [reqs[s] EXCEPT !.pc = "submit"]
    <2>1. reqs[s] \in OrderRequest /\ reqs[s].pc = "upload"
        BY <1>0, <1>6 DEF TransferUpload, TypeOK, Request, UpdateRequest, WebhookRequest, Idle
    <2>2. req.pc = "submit" /\ req.order = reqs[s].order /\ req.read = reqs[s].read
        BY <2>1 DEF OrderRequest
    <2>3. reqs' = [reqs EXCEPT ![s] = req] /\ reqs'[s] = req
        BY <1>0, <1>6 DEF TransferUpload, TypeOK
    <2> HIDE DEF req
    <2>4. RequestInv(s)
        BY DEF IInv
    <2>5. RequestInv(s)'
        BY <1>6, <2>1, <2>2, <2>3, <2>4 DEF TransferUpload, RequestInv
    <2> QED  BY <2>3, <2>5, <1>2
<1>7. ASSUME NEW s \in Slots,
             HandlerWrite(s) \/ Fail(s) \/ (\E x \in SessionIds : CheckoutSession(s, x))
      PROVE  \A t \in Slots : RequestInv(t)'
    BY <1>3, <1>7 DEF HandlerWrite, Write, Fail, CheckoutSession
<1>8. CASE UNCHANGED reqs
    BY <1>1, <1>8
<1>9. ASSUME NEW x \in SessionIds, Stripe(x)
      PROVE  UNCHANGED reqs
    BY <1>9 DEF Stripe, Complete, Settle, Expire
<1>10. ASSUME NEW o \in OrderIds, NEW p \in Purchases, CreateOrder(o, p)
      PROVE  UNCHANGED reqs
    BY <1>10 DEF CreateOrder
<1> QED  BY <1>4, <1>5, <1>6, <1>7, <1>8, <1>9, <1>10, StepShape DEF vars

LEMMA FreshStep ==
    ASSUME IInv, [Next]_vars
    PROVE  \A s \in Slots : FreshInv(s)'
<1>0. TypeOK /\ \A s \in Slots : FreshInv(s)
    BY DEF IInv
<1>1. ASSUME NEW s \in Slots, reqs'[s].pc = "idle"
      PROVE  FreshInv(s)'
    BY <1>1 DEF FreshInv
<1>2. ASSUME NEW s \in Slots, reqs'[s].pc = reqs[s].pc, reqs'[s].read = reqs[s].read,
             reqs'[s].order = reqs[s].order, s \in stale => s \in stale',
             s \in stale' \/ orders'[reqs[s].order] = orders[reqs[s].order]
      PROVE  FreshInv(s)'
    BY <1>0, <1>2 DEF FreshInv
<1>3. ASSUME NEW s \in Slots, UNCHANGED orders, stale' = stale \ {s},
             NEW req, reqs' = [reqs EXCEPT ![s] = req],
             req.pc \in {"idle", "webhook"} \/ req.read = orders[req.order].status
      PROVE  \A t \in Slots : FreshInv(t)'
    <2>1. FreshInv(s)'
        BY <1>0, <1>3 DEF FreshInv, TypeOK
    <2>2. ASSUME NEW t \in Slots, t # s
          PROVE  FreshInv(t)'
        BY <1>0, <1>2, <1>3, <2>2 DEF TypeOK
    <2> QED  BY <2>1, <2>2
<1>4. ASSUME NEW s \in Slots, HandlerRead(s)
      PROVE  \A t \in Slots : FreshInv(t)'
    <2>1. ASSUME NEW o \in OrderIds, CheckoutRead(s, o)
          PROVE  \A t \in Slots : FreshInv(t)'
        <3> DEFINE req == [Idle EXCEPT !.pc = "checkout", !.order = o, !.read = "pending"]
        <3>1. req.order = o /\ req.read = "pending"
            BY DEF Idle
        <3>2. Start(s, req)
            BY <2>1 DEF CheckoutRead
        <3> HIDE DEF req
        <3> QED  BY <1>3, <2>1, <3>1, <3>2 DEF CheckoutRead, Start
    <2>2. ASSUME NEW o \in OrderIds, CancelRead(s, o)
          PROVE  \A t \in Slots : FreshInv(t)'
        <3> DEFINE req == [Idle EXCEPT !.pc = "cancel", !.order = o, !.read = orders[o].status]
        <3>1. req.order = o /\ req.read = orders[o].status
            BY DEF Idle
        <3>2. Start(s, req)
            BY <2>2 DEF CancelRead
        <3> HIDE DEF req
        <3> QED  BY <1>3, <3>1, <3>2 DEF Start
    <2>3. ASSUME NEW o \in OrderIds, TransferRead(s, o)
          PROVE  \A t \in Slots : FreshInv(t)'
        <3> DEFINE req == [Idle EXCEPT !.pc = "upload", !.order = o, !.read = "pending"]
        <3>1. req.order = o /\ req.read = "pending"
            BY DEF Idle
        <3>2. Start(s, req)
            BY <2>3 DEF TransferRead
        <3> HIDE DEF req
        <3> QED  BY <1>3, <2>3, <3>1, <3>2 DEF TransferRead, Start
    <2>4. ASSUME NEW o \in OrderIds, NEW u \in OrderStatus, UpdateRead(s, o, u)
          PROVE  \A t \in Slots : FreshInv(t)'
        <3> DEFINE req == [Idle EXCEPT !.pc = "update", !.order = o,
                                       !.read = orders[o].status, !.target = u]
        <3>1. req.order = o /\ req.read = orders[o].status
            BY DEF Idle
        <3>2. Start(s, req)
            BY <2>4 DEF UpdateRead
        <3> HIDE DEF req
        <3> QED  BY <1>3, <3>1, <3>2 DEF Start
    <2>5. ASSUME NEW x \in SessionIds, WebhookVerify(s, x)
          PROVE  \A t \in Slots : FreshInv(t)'
        <3> DEFINE req == [Idle EXCEPT !.pc = "webhook", !.session = x,
                                       !.order = sessions[x].order]
        <3>1. req.pc = "webhook"
            BY DEF Idle
        <3>2. Start(s, req)
            BY <2>5 DEF WebhookVerify
        <3> HIDE DEF req
        <3> QED  BY <1>3, <3>1, <3>2 DEF Start
    <2> QED  BY <1>4, <2>1, <2>2, <2>3, <2>4, <2>5 DEF HandlerRead
<1>5. ASSUME NEW s \in Slots, Fail(s) \/ (\E x \in SessionIds : CheckoutSession(s, x))
      PROVE  \A t \in Slots : FreshInv(t)'
    BY <1>3, <1>5 DEF Fail, CheckoutSession, Idle
<1>6. ASSUME NEW s \in Slots, CheckoutPrice(s)
      PROVE  \A t \in Slots : FreshInv(t)'
    <2>1. PICK line \in CheckoutLine(orders[reqs[s].order]) :
                reqs' = [reqs EXCEPT ![s] =
                            [reqs[s] EXCEPT !.pc = "session", !.line = line]]
        BY <1>6 DEF CheckoutPrice
    <2> DEFINE req == [reqs[s] EXCEPT !.pc = "session", !.line = line]
    <2>2. reqs[s] \in OrderRequest /\ reqs[s].pc = "checkout"
        BY <1>0, <1>6 DEF CheckoutPrice, TypeOK, Request, UpdateRequest, WebhookRequest, Idle
    <2>3. req.order = reqs[s].order /\ req.read = reqs[s].read
        BY <2>2 DEF OrderRequest
    <2>4. reqs' = [reqs EXCEPT ![s] = req]
        BY <2>1
    <2> HIDE DEF req
    <2> QED  BY <1>0, <1>6, <2>2, <2>3, <2>4 DEF CheckoutPrice, FreshInv, TypeOK
<1>7. ASSUME NEW s \in Slots, TransferUpload(s)
      PROVE  \A t \in Slots : FreshInv(t)'
    <2> DEFINE req == [reqs[s] EXCEPT !.pc = "submit"]
    <2>1. reqs[s] \in OrderRequest /\ reqs[s].pc = "upload"
        BY <1>0, <1>7 DEF TransferUpload, TypeOK, Request, UpdateRequest, WebhookRequest, Idle
    <2>2. req.order = reqs[s].order /\ req.read = reqs[s].read
        BY <2>1 DEF OrderRequest
    <2>3. reqs' = [reqs EXCEPT ![s] = req]
        BY <1>7 DEF TransferUpload
    <2> HIDE DEF req
    <2> QED  BY <1>0, <1>7, <2>1, <2>2, <2>3 DEF TransferUpload, FreshInv, TypeOK
<1>8. ASSUME NEW s \in Slots, HandlerWrite(s)
      PROVE  \A t \in Slots : FreshInv(t)'
    <2> DEFINE o == reqs[s].order
               doc == Written(reqs[s], orders[o])
    <2>1. Write(s, o, doc)
        BY <1>8 DEF HandlerWrite
    <2> HIDE DEF doc
    <2>2. FreshInv(s)'
        BY <1>0, <1>1, <2>1 DEF Write, TypeOK, Idle
    <2>3. ASSUME NEW t \in Slots, t # s
          PROVE  FreshInv(t)'
        <3>1. reqs'[t] = reqs[t] /\ (t \in stale => t \in stale')
            BY <1>0, <2>1, <2>3 DEF Write, TypeOK
        <3>2. t \in stale' \/ orders'[reqs[t].order] = orders[reqs[t].order]
            BY <1>0, <2>1, <2>3 DEF Write, TypeOK
        <3> QED  BY <3>1, <3>2, <1>2
    <2> QED  BY <2>2, <2>3
<1>9. ASSUME NEW o \in OrderIds, NEW p \in Purchases, CreateOrder(o, p)
      PROVE  \A t \in Slots : FreshInv(t)'
    <2> TAKE t \in Slots
    <2>1. UNCHANGED <<reqs, stale>>
        BY <1>9 DEF CreateOrder
    <2>2. CASE reqs[t].pc = "idle"
        BY <2>1, <2>2 DEF FreshInv
    <2>3. CASE reqs[t].pc # "idle"
        <3>1. reqs[t].order # o
            BY <1>9, <2>3 DEF IInv, RequestInv, Placed, CreateOrder
        <3>2. orders'[reqs[t].order] = orders[reqs[t].order]
            BY <1>0, <1>9, <3>1 DEF CreateOrder, TypeOK
        <3> QED  BY <1>2, <2>1, <3>2
    <2> QED  BY <2>2, <2>3
<1>10. ASSUME UNCHANGED <<orders, reqs, stale>>
      PROVE  \A t \in Slots : FreshInv(t)'
    BY <1>0, <1>10 DEF FreshInv
<1>11. ASSUME NEW x \in SessionIds, Stripe(x)
      PROVE  UNCHANGED <<orders, reqs, stale>>
    BY <1>11 DEF Stripe, Complete, Settle, Expire
<1> QED
    BY <1>4, <1>5, <1>6, <1>7, <1>8, <1>9, <1>10, <1>11, StepShape DEF vars

\* Only checkout opens a session.
LEMMA SessionOpener ==
    ASSUME TypeOK, [Next]_vars, NEW x \in SessionIds, ~Opened(x), Opened(x)'
    PROVE  \E s \in Slots : CheckoutSession(s, x)
<1> USE DEF Opened
<1>1. ASSUME UNCHANGED sessions
      PROVE  FALSE
    BY <1>1
<1>2. ASSUME NEW s \in Slots, NEW y \in SessionIds, CheckoutSession(s, y)
      PROVE  y = x
    BY <1>2 DEF CheckoutSession, TypeOK
<1>3. ASSUME NEW y \in SessionIds, Stripe(y)
      PROVE  FALSE
    <2>1. sessions[y].state # "none"
        BY <1>3 DEF Stripe, Complete, Settle, Expire
    <2>2. sessions'[x] = sessions[x]
        BY <1>3, <2>1 DEF Stripe, Complete, Settle, Expire, TypeOK
    <2> QED  BY <2>2
<1>4. ASSUME NEW s \in Slots,
             HandlerRead(s) \/ CheckoutPrice(s) \/ TransferUpload(s) \/ Fail(s) \/ HandlerWrite(s)
      PROVE  UNCHANGED sessions
    BY <1>4 DEF HandlerRead, CheckoutRead, CancelRead, TransferRead, UpdateRead,
        WebhookVerify, CheckoutPrice, TransferUpload, Fail, HandlerWrite
<1>5. ASSUME NEW o \in OrderIds, NEW p \in Purchases, CreateOrder(o, p)
      PROVE  UNCHANGED sessions
    BY <1>5 DEF CreateOrder
<1> QED  BY <1>1, <1>2, <1>3, <1>4, <1>5, StepShape DEF vars

LEMMA SessionStep ==
    ASSUME IInv, [Next]_vars
    PROVE  \A x \in SessionIds : SessionInv(x)'
<1> USE DEF Opened
<1>0. TypeOK /\ Steady
    BY SteadyStep DEF IInv
<1>1. ASSUME NEW x \in SessionIds, Opened(x)
      PROVE  SessionInv(x)'
    <2>1. sessions[x].order \in OrderIds /\ Placed(sessions[x].order)
        BY <1>0, <1>1 DEF TypeOK, Session, NoSession, IInv, SessionInv
    <2> QED  BY <1>0, <1>1, <2>1 DEF Steady, SessionInv, Placed
<1>3. ASSUME NEW x \in SessionIds, ~Opened(x), Opened(x)'
      PROVE  SessionInv(x)'
    <2>1. PICK s \in Slots : CheckoutSession(s, x)
        BY <1>0, <1>3, SessionOpener
    <2>2. reqs[s].order \in OrderIds /\ Placed(reqs[s].order)
        BY <1>0, <2>1, BusyOrder DEF CheckoutSession, IInv, RequestInv
    <2> QED  BY <1>0, <2>1, <2>2 DEF CheckoutSession, SessionInv, TypeOK, Placed
<1> QED  BY <1>1, <1>3 DEF SessionInv

\* The amount of a line checkout may send is the total of the order.
LEMMA CheckoutLineCharge ==
    ASSUME NEW o \in OrderIds, orders[o] \in OrderDoc, Placed(o), OrderInv(o),
           NEW line \in CheckoutLine(orders[o]), Chargeable(line)
    PROVE  Charge(line) >= 0 /\ WithinHalfCent(Charge(line), orders[o].total)
<1> DEFINE doc == orders[o]
           listed == IF doc.original > 0 THEN doc.original ELSE doc.total
<1>1. /\ doc.original \in Nat /\ doc.discount \in Nat /\ doc.total \in Nat
      /\ doc.coupon \in BOOLEAN
    BY DEF OrderDoc
<1>2. IF doc.coupon THEN doc.discount <= doc.original /\ doc.total = doc.original - doc.discount
                    ELSE doc.original = 0 /\ doc.discount = 0
    BY DEF OrderInv
<1>3. CASE doc.coupon /\ doc.discount > 0
    <2>1. listed = doc.original /\ doc.discount \in 0 .. doc.original
        BY <1>1, <1>2, <1>3
    <2>2. line = DiscountedLine(doc.original, doc.discount) \/ line = PlainLine(doc.total)
        BY <1>3, <2>1 DEF CheckoutLine
    <2>3. CASE line = DiscountedLine(doc.original, doc.discount)
        <3>1. /\ Charge(line) \in Nat
              /\ WithinHalfCent(Charge(line), doc.original - doc.discount)
            BY <1>1, <2>1, <2>3, DiscountedChargeRounded
        <3> QED  BY <1>2, <1>3, <3>1
    <2>4. CASE line = PlainLine(doc.total)
        BY <1>1, <2>4, PlainChargeNear
    <2> QED  BY <2>2, <2>3, <2>4
<1>4. CASE ~(doc.coupon /\ doc.discount > 0)
    <2>1. listed = doc.total
        BY <1>1, <1>2, <1>4
    <2>2. line = PlainLine(doc.total)
        BY <1>4, <2>1 DEF CheckoutLine
    <2> QED  BY <1>1, <2>2, PlainChargeNear
<1> QED  BY <1>3, <1>4

LEMMA AckStep ==
    ASSUME IInv, [Next]_vars
    PROVE  \A x \in SessionIds : AckInv(x)'
<1>0. TypeOK /\ Steady
    BY SteadyStep DEF IInv
<1>1. ASSUME NEW x \in SessionIds, x \in acked
      PROVE  AckInv(x)'
    <2>1. sessions[x].state = "succeeded" /\ orders[sessions[x].order].paidAt
        BY <1>1 DEF IInv, AckInv
    <2>2. sessions[x].order \in OrderIds /\ Placed(sessions[x].order)
        BY <1>0, <2>1 DEF TypeOK, Session, NoSession, IInv, SessionInv, Opened
    <2> QED  BY <1>0, <2>1, <2>2 DEF Steady, AckInv, Opened
<1>2. ASSUME NEW s \in Slots, HandlerWrite(s), reqs[s].pc = "webhook",
             NEW x \in SessionIds, x = reqs[s].session
      PROVE  AckInv(x)'
    <2>1. /\ sessions[reqs[s].session].state = "succeeded"
          /\ sessions[reqs[s].session].order = reqs[s].order
        BY <1>2 DEF IInv, RequestInv
    <2>2. orders' = [orders EXCEPT ![reqs[s].order] =
                        [orders[reqs[s].order] EXCEPT !.status = "paid", !.paidAt = TRUE]]
        BY <1>2 DEF HandlerWrite, Write, Written
    <2>3. reqs[s].order \in OrderIds /\ orders[reqs[s].order] \in OrderDoc
        BY <1>0, <1>2, BusyOrder
    <2>4. orders'[reqs[s].order].paidAt
        BY <1>0, <2>2, <2>3 DEF TypeOK, OrderDoc
    <2>5. sessions' = sessions
        BY <1>2 DEF HandlerWrite
    <2> QED  BY <1>2, <2>1, <2>4, <2>5 DEF AckInv
<1>3. ASSUME NEW s \in Slots, HandlerWrite(s)
      PROVE  \/ acked' = acked
             \/ reqs[s].pc = "webhook" /\ acked' = acked \cup {reqs[s].session}
    BY <1>3 DEF HandlerWrite
<1>4. CASE UNCHANGED acked
    BY <1>1, <1>4 DEF AckInv
<1>5. ASSUME NEW s \in Slots, NEW x \in SessionIds, CheckoutSession(s, x)
      PROVE  UNCHANGED acked
    BY <1>5 DEF CheckoutSession
<1>6. ASSUME NEW s \in Slots, HandlerRead(s) \/ CheckoutPrice(s) \/ TransferUpload(s) \/ Fail(s)
      PROVE  UNCHANGED acked
    BY <1>6 DEF HandlerRead, CheckoutRead, CancelRead, TransferRead, UpdateRead,
        WebhookVerify, CheckoutPrice, TransferUpload, Fail
<1>7. ASSUME NEW x \in SessionIds, Stripe(x)
      PROVE  UNCHANGED acked
    BY <1>7 DEF Stripe, Complete, Settle, Expire
<1>8. ASSUME NEW o \in OrderIds, NEW p \in Purchases, CreateOrder(o, p)
      PROVE  UNCHANGED acked
    BY <1>8 DEF CreateOrder
<1>9. ASSUME NEW s \in Slots, HandlerWrite(s)
      PROVE  \A x \in SessionIds : AckInv(x)'
    <2> TAKE x \in SessionIds
    <2>1. CASE x \in acked
        BY <1>1, <2>1
    <2>2. CASE x \notin acked /\ x \in acked'
        BY <1>2, <1>3, <1>9, <2>2
    <2>3. CASE x \notin acked'
        BY <2>3 DEF AckInv
    <2> QED  BY <2>1, <2>2, <2>3
<1> QED  BY <1>4, <1>5, <1>6, <1>7, <1>8, <1>9, StepShape DEF vars

-----------------------------------------------------------------------------
(* Each safety property is preserved                                       *)

LEMMA ConfirmedStep ==
    ASSUME IInv, [Next]_vars
    PROVE  ConfirmedOnlyIfCaptured'
<1>0. TypeOK /\ Steady
    BY SteadyStep DEF IInv
<1>1. ASSUME NEW o \in OrderIds, CapturedFor(o)
      PROVE  CapturedFor(o)'
    BY <1>0, <1>1 DEF Steady, CapturedFor, Opened
<1>2. ASSUME NEW o \in OrderIds, orders'[o].paidAt => orders[o].paidAt
      PROVE  orders'[o].paidAt => CapturedFor(o)'
    BY <1>1, <1>2 DEF IInv, ConfirmedOnlyIfCaptured
<1>3. ASSUME NEW q \in OrderIds, NEW p \in Purchases, CreateOrder(q, p)
      PROVE  \A o \in OrderIds : orders'[o].paidAt => orders[o].paidAt
    BY <1>0, <1>3, NewOrderAmounts DEF CreateOrder, TypeOK
<1>4. ASSUME NEW s \in Slots, HandlerWrite(s), NEW o \in OrderIds,
             orders'[o].paidAt
      PROVE  orders[o].paidAt \/ CapturedFor(o)
    <2> DEFINE old == orders[reqs[s].order]
    <2>1. reqs[s].order \in OrderIds /\ old \in OrderDoc
        BY <1>0, <1>4, BusyOrder DEF HandlerWrite, Writers
    <2>2. orders' = [orders EXCEPT ![reqs[s].order] = Written(reqs[s], old)]
        BY <1>4 DEF HandlerWrite, Write
    <2>3. CASE o # reqs[s].order
        BY <1>0, <1>4, <2>2, <2>3 DEF TypeOK
    <2>4. CASE o = reqs[s].order /\ reqs[s].pc = "webhook"
        <3>1. reqs[s].session \in SessionIds
            BY <1>0, <2>4 DEF TypeOK, Request, OrderRequest, UpdateRequest, WebhookRequest,
                Idle, Steps
        <3> QED  BY <2>4, <3>1 DEF IInv, RequestInv, CapturedFor
    <2>5. CASE o = reqs[s].order /\ reqs[s].pc # "webhook"
        <3>1. Written(reqs[s], old).paidAt = old.paidAt
            BY <1>4, <2>1, <2>5 DEF HandlerWrite, Writers, Written, Rejected, OrderDoc
        <3> QED  BY <1>0, <1>4, <2>1, <2>2, <2>5, <3>1 DEF TypeOK
    <2> QED  BY <2>3, <2>4, <2>5
<1>5. ASSUME NEW o \in OrderIds
      PROVE  orders'[o].paidAt => CapturedFor(o)'
    BY <1>1, <1>2, <1>3, <1>4, StoreShape
<1> QED  BY <1>5 DEF ConfirmedOnlyIfCaptured

LEMMA ChargeStep ==
    ASSUME IInv, [Next]_vars
    PROVE  ChargeMatchesTotal'
<1>0. TypeOK /\ Steady
    BY SteadyStep DEF IInv
<1> DEFINE Matches(x) == sessions[x].state # "none" =>
               /\ sessions[x].amount >= 0
               /\ WithinHalfCent(sessions[x].amount, orders[sessions[x].order].total)
<1>1. ASSUME NEW x \in SessionIds, Opened(x)
      PROVE  Matches(x)'
    <2>1. sessions[x].order \in OrderIds /\ Placed(sessions[x].order)
        BY <1>0, <1>1 DEF TypeOK, Session, NoSession, IInv, SessionInv, Opened
    <2>2. orders'[sessions[x].order].total = orders[sessions[x].order].total
        BY <1>0, <2>1 DEF Steady
    <2>3. sessions'[x].order = sessions[x].order /\ sessions'[x].amount = sessions[x].amount
        BY <1>0, <1>1 DEF Steady
    <2> QED  BY <1>1, <2>2, <2>3 DEF IInv, ChargeMatchesTotal, Opened
<1>2. ASSUME NEW x \in SessionIds, ~Opened(x), Opened(x)'
      PROVE  Matches(x)'
    <2>1. PICK s \in Slots : CheckoutSession(s, x)
        BY <1>0, <1>2, SessionOpener
    <2> DEFINE o == reqs[s].order
               line == reqs[s].line
    <2>2. o \in OrderIds /\ Placed(o) /\ OrderInv(o) /\ orders[o] \in OrderDoc
        BY <1>0, <2>1, BusyOrder DEF CheckoutSession, IInv, RequestInv
    <2>3. line \in CheckoutLine(orders[o]) /\ Chargeable(line)
        BY <2>1 DEF CheckoutSession, IInv, RequestInv
    <2>4. Charge(line) >= 0 /\ WithinHalfCent(Charge(line), orders[o].total)
        BY <2>2, <2>3, CheckoutLineCharge
    <2>5. sessions'[x].amount = Charge(line) /\ sessions'[x].order = o /\ orders' = orders
        BY <1>0, <2>1 DEF CheckoutSession, TypeOK
    <2> HIDE DEF o, line
    <2> QED  BY <2>4, <2>5
<1>3. \A x \in SessionIds : Matches(x)'
    BY <1>1, <1>2 DEF Opened
<1> QED  BY <1>3 DEF ChargeMatchesTotal

LEMMA RefundStep ==
    ASSUME IInv, [Next]_vars
    PROVE  RefundOnlyAfterPaid'
<1>0. TypeOK /\ Steady
    BY SteadyStep DEF IInv
<1> DEFINE Sound(o) == orders[o].refunded =>
               orders[o].method = CardMethod /\ {"paid", "rejected"} \subseteq seen[o]
<1>1. ASSUME NEW o \in OrderIds, NEW p \in Purchases, CreateOrder(o, p)
      PROVE  \A q \in OrderIds : Sound(q)'
    BY <1>0, <1>1, NewOrderAmounts DEF CreateOrder, IInv, RefundOnlyAfterPaid, TypeOK
<1>2. ASSUME NEW s \in Slots, HandlerWrite(s)
      PROVE  \A q \in OrderIds : Sound(q)'
    <2> DEFINE o == reqs[s].order
               old == orders[o]
               doc == Written(reqs[s], old)
    <2>1. o \in OrderIds /\ old \in OrderDoc
        BY <1>0, <1>2, BusyOrder DEF HandlerWrite, Writers
    <2>2. doc.method = old.method
        BY <1>0, <1>2, WrittenRewrites DEF HandlerWrite, Rewrites
    <2>3. Write(s, o, doc)
        BY <1>2 DEF HandlerWrite
    <2>4. doc.refunded => \/ old.refunded
                          \/ /\ old.method = CardMethod
                             /\ reqs[s].read = "paid" /\ reqs[s].pc # "webhook"
                             /\ doc.status = "rejected"
        BY <1>2, <2>1 DEF HandlerWrite, Writers, Written, Rejected, OrderDoc
    <2>5. reqs[s].pc # "webhook" => reqs[s].read \in seen[o]
        BY <1>2 DEF IInv, RequestInv, HandlerWrite, Writers
    <2>6. old.refunded => old.method = CardMethod /\ {"paid", "rejected"} \subseteq seen[o]
        BY <2>1 DEF IInv, RefundOnlyAfterPaid
    <2> HIDE DEF o, doc
    <2>7. ASSUME NEW q \in OrderIds, q = o
          PROVE  Sound(q)'
        <3>1. orders'[q] = doc /\ seen'[q] = seen[o] \cup {doc.status}
            BY <1>0, <2>1, <2>3, <2>7 DEF Write, TypeOK
        <3>2. Sound(q)' <=> (doc.refunded => /\ doc.method = CardMethod
                                             /\ {"paid", "rejected"} \subseteq seen'[q])
            BY <3>1
        <3> QED  BY <2>2, <2>4, <2>5, <2>6, <3>1, <3>2
    <2>8. ASSUME NEW q \in OrderIds, q # o
          PROVE  Sound(q)'
        BY <1>0, <2>1, <2>3, <2>8 DEF Write, TypeOK, IInv, RefundOnlyAfterPaid
    <2> QED  BY <2>7, <2>8
<1>3. CASE UNCHANGED <<orders, seen>>
    BY <1>3 DEF IInv, RefundOnlyAfterPaid
<1>4. \A q \in OrderIds : Sound(q)'
    BY <1>1, <1>2, <1>3, StoreShape DEF IInv, RefundOnlyAfterPaid
<1> QED  BY <1>4 DEF RefundOnlyAfterPaid

LEMMA EvidenceStep ==
    ASSUME IInv, [Next]_vars
    PROVE  EvidenceIsComplete'
<1>0. TypeOK /\ Steady
    BY SteadyStep DEF IInv
<1> DEFINE Sound(o) == orders[o].evidence \/ orders[o].instaName =>
               /\ orders[o].evidence
               /\ orders[o].method \in WalletMethods
               /\ o \in images
               /\ orders[o].instaName <=> orders[o].method = "insta-transfer"
               /\ "processing" \in seen[o]
<1>1. ASSUME NEW o \in OrderIds, orders'[o] = orders[o], seen[o] \subseteq seen'[o]
      PROVE  Sound(o)'
    BY <1>0, <1>1 DEF IInv, EvidenceIsComplete, Steady
<1>2. ASSUME NEW o \in OrderIds, NEW p \in Purchases, CreateOrder(o, p)
      PROVE  \A q \in OrderIds : Sound(q)'
    <2> TAKE q \in OrderIds
    <2>1. CASE q = o
        BY <1>0, <1>2, <2>1, NewOrderAmounts DEF CreateOrder, TypeOK
    <2>2. CASE q # o
        BY <1>0, <1>1, <1>2, <2>2 DEF CreateOrder, TypeOK
    <2> QED  BY <2>1, <2>2
<1>3. ASSUME NEW s \in Slots, HandlerWrite(s)
      PROVE  \A q \in OrderIds : Sound(q)'
    <2> DEFINE o == reqs[s].order
               old == orders[o]
               doc == Written(reqs[s], old)
    <2>1. o \in OrderIds /\ old \in OrderDoc
        BY <1>0, <1>3, BusyOrder DEF HandlerWrite, Writers
    <2>2. doc.method = old.method
        BY <1>0, <1>3, WrittenRewrites DEF HandlerWrite, Rewrites
    <2>3. Write(s, o, doc)
        BY <1>3 DEF HandlerWrite
    <2>4. CASE reqs[s].pc = "submit"
        <3>1. /\ doc.evidence /\ doc.status = "processing"
              /\ doc.instaName <=> (old.instaName \/ old.method = "insta-transfer")
            BY <2>1, <2>4 DEF Written, OrderDoc
        <3>2. old.method \in WalletMethods /\ o \in images
            BY <2>4 DEF IInv, RequestInv
        <3>3. old.instaName => old.method = "insta-transfer"
            BY <2>1 DEF IInv, EvidenceIsComplete
        <3> HIDE DEF o, doc
        <3>4. ASSUME NEW q \in OrderIds, q = o
              PROVE  Sound(q)'
            <4>1. orders'[q] = doc /\ "processing" \in seen'[q] /\ q \in images'
                BY <1>0, <2>1, <2>3, <3>1, <3>2, <3>4 DEF Write, TypeOK, Steady
            <4> QED  BY <2>2, <3>1, <3>2, <3>3, <4>1
        <3>5. ASSUME NEW q \in OrderIds, q # o
              PROVE  Sound(q)'
            BY <1>0, <1>1, <2>1, <2>3, <3>5 DEF Write, TypeOK
        <3> QED  BY <3>4, <3>5
    <2>5. CASE reqs[s].pc # "submit"
        <3>1. doc.evidence = old.evidence /\ doc.instaName = old.instaName
            BY <1>3, <2>1, <2>5 DEF HandlerWrite, Writers, Written, Rejected, OrderDoc
        <3>2. /\ old.evidence \/ old.instaName =>
                    /\ old.evidence
                    /\ old.method \in WalletMethods
                    /\ o \in images
                    /\ old.instaName <=> old.method = "insta-transfer"
                    /\ "processing" \in seen[o]
            BY <2>1 DEF IInv, EvidenceIsComplete
        <3> HIDE DEF o, doc
        <3>3. ASSUME NEW q \in OrderIds, q = o
              PROVE  Sound(q)'
            <4>1. orders'[q] = doc /\ seen[o] \subseteq seen'[q] /\ images \subseteq images'
                BY <1>0, <2>1, <2>3, <3>3 DEF Write, TypeOK, Steady
            <4> QED  BY <2>2, <3>1, <3>2, <3>3, <4>1
        <3>4. ASSUME NEW q \in OrderIds, q # o
              PROVE  Sound(q)'
            BY <1>0, <1>1, <2>1, <2>3, <3>4 DEF Write, TypeOK
        <3> QED  BY <3>3, <3>4
    <2> QED  BY <2>4, <2>5
<1>4. ASSUME UNCHANGED <<orders, seen>>
      PROVE  \A q \in OrderIds : Sound(q)'
    BY <1>1, <1>4
<1>5. \A q \in OrderIds : Sound(q)'
    BY <1>2, <1>3, <1>4, StoreShape
<1> QED  BY <1>5 DEF EvidenceIsComplete

\* The invariant holds initially and every step of a handler, of a failing
\* request and of Stripe preserves it.
THEOREM Inductive == Spec => []IInv
<1>1. Init => IInv
    <2>1. Init => TypeOK
        BY IdleType, NoDocType DEF Init, TypeOK, NoSession, Session
    <2>2. Init => \A s \in Slots : RequestInv(s) /\ FreshInv(s)
        BY DEF Init, Idle, RequestInv, FreshInv
    <2>3. Init => \A o \in OrderIds : OrderInv(o)
        BY DEF Init, NoDoc, OrderInv, Placed
    <2>4. Init => \A x \in SessionIds : SessionInv(x) /\ AckInv(x)
        BY DEF Init, NoSession, SessionInv, AckInv, Opened
    <2>5. Init => ConfirmedOnlyIfCaptured /\ RefundOnlyAfterPaid /\ EvidenceIsComplete
        BY DEF Init, NoDoc, ConfirmedOnlyIfCaptured, RefundOnlyAfterPaid, EvidenceIsComplete
    <2>6. Init => ChargeMatchesTotal
        BY DEF Init, NoSession, ChargeMatchesTotal
    <2> QED  BY <2>1, <2>2, <2>3, <2>4, <2>5, <2>6 DEF IInv
<1>2. ASSUME IInv, [Next]_vars
      PROVE  IInv'
    <2>1. TypeOK'
        BY <1>2, TypeStep DEF IInv
    <2> QED
        BY <1>2, <2>1, RequestStep, FreshStep, OrderStep, SessionStep, AckStep,
           ConfirmedStep, ChargeStep, RefundStep, EvidenceStep DEF IInv
<1> QED  BY <1>1, <1>2, PTL DEF Spec

-----------------------------------------------------------------------------
(* The safety theorems                                                     *)

\* A payment date on an order means a card payment was captured for it.
THEOREM ConfirmedTheorem == Spec => []ConfirmedOnlyIfCaptured
<1>1. IInv => ConfirmedOnlyIfCaptured
    BY DEF IInv
<1> QED  BY <1>1, Inductive, PTL

\* Stripe is told "done" only of payments that are on their order.
THEOREM AcknowledgedTheorem == Spec => []AcknowledgedIsRecorded
<1>1. IInv => AcknowledgedIsRecorded
    BY DEF IInv, TypeOK, AckInv, AcknowledgedIsRecorded
<1> QED  BY <1>1, Inductive, PTL

\* For every price, coupon and grain, a session asks for the stored total.
THEOREM ChargeTheorem == Spec => []ChargeMatchesTotal
<1>1. IInv => ChargeMatchesTotal
    BY DEF IInv
<1> QED  BY <1>1, Inductive, PTL

\* What Stripe captures, or tries to, was owed.
CapturesOwed ==
    \A x \in SessionIds :
        sessions[x].state \in {"processing", "succeeded", "failed"} => sessions[x].amount # 0

LEMMA OwedStep ==
    ASSUME TypeOK, CapturesOwed, [Next]_vars
    PROVE  CapturesOwed'
<1>1. ASSUME UNCHANGED sessions
      PROVE  CapturesOwed'
    BY <1>1 DEF CapturesOwed
<1>2. ASSUME NEW s \in Slots, NEW x \in SessionIds, CheckoutSession(s, x)
      PROVE  CapturesOwed'
    BY <1>2 DEF CheckoutSession, CapturesOwed, TypeOK
<1>3. ASSUME NEW x \in SessionIds, Stripe(x)
      PROVE  CapturesOwed'
    <2>1. \E state : /\ \A y \in SessionIds : y # x => sessions'[y] = sessions[y]
                     /\ sessions'[x] = [sessions[x] EXCEPT !.state = state]
                     /\ sessions[x] \in Session \ {NoSession}
                     /\ sessions[x].amount = 0 => state \in {"free", "expired"}
        <3>1. sessions[x].state # "none" /\ sessions[x] # NoSession
            BY <1>3 DEF Stripe, Complete, Settle, Expire, NoSession
        <3>2. sessions[x].state = "processing" => sessions[x].amount # 0
            BY DEF CapturesOwed
        <3> QED
            BY <1>3, <3>1, <3>2 DEF Stripe, Complete, Settle, Expire, TypeOK
    <2>2. PICK state : /\ \A y \in SessionIds : y # x => sessions'[y] = sessions[y]
                       /\ sessions'[x] = [sessions[x] EXCEPT !.state = state]
                       /\ sessions[x] \in Session \ {NoSession}
                       /\ sessions[x].amount = 0 => state \in {"free", "expired"}
        BY <2>1
    <2>3. sessions'[x].state = state /\ sessions'[x].amount = sessions[x].amount
        BY <2>2 DEF Session
    <2> QED  BY <2>2, <2>3 DEF CapturesOwed
<1>4. ASSUME NEW s \in Slots,
             HandlerRead(s) \/ CheckoutPrice(s) \/ TransferUpload(s) \/ Fail(s) \/ HandlerWrite(s)
      PROVE  UNCHANGED sessions
    BY <1>4 DEF HandlerRead, CheckoutRead, CancelRead, TransferRead, UpdateRead,
        WebhookVerify, CheckoutPrice, TransferUpload, Fail, HandlerWrite
<1>5. ASSUME NEW o \in OrderIds, NEW p \in Purchases, CreateOrder(o, p)
      PROVE  UNCHANGED sessions
    BY <1>5 DEF CreateOrder
<1> QED  BY <1>1, <1>2, <1>3, <1>4, <1>5, StepShape DEF vars

\* A payment date means the whole total was captured, and that there was one: an
\* order a coupon made free is never confirmed.
THEOREM PaidTheorem == Spec => []PaidInFull
<1>1. Init => CapturesOwed
    BY DEF Init, NoSession, CapturesOwed
<1>2. IInv => TypeOK
    BY DEF IInv
<1>3. IInv /\ CapturesOwed => PaidInFull
    <2> SUFFICES ASSUME IInv, CapturesOwed, NEW o \in OrderIds, orders[o].paidAt
                 PROVE  \E x \in SessionIds :
                           /\ sessions[x].state = "succeeded" /\ sessions[x].order = o
                           /\ sessions[x].amount > 0
                           /\ WithinHalfCent(sessions[x].amount, orders[o].total)
        BY DEF PaidInFull
    <2>1. PICK x \in SessionIds : sessions[x].state = "succeeded" /\ sessions[x].order = o
        BY DEF IInv, ConfirmedOnlyIfCaptured, CapturedFor
    <2>2. /\ sessions[x].amount >= 0
          /\ WithinHalfCent(sessions[x].amount, orders[o].total)
        BY <2>1 DEF IInv, ChargeMatchesTotal
    <2>3. sessions[x].amount \in Int /\ sessions[x].amount # 0
        BY <2>1 DEF IInv, TypeOK, Session, NoSession, CapturesOwed
    <2> QED  BY <2>1, <2>2, <2>3
<1> QED  BY <1>1, <1>2, <1>3, Inductive, OwedStep, PTL DEF Spec

\* A noted refund belongs to a card order that was paid and then rejected.
THEOREM RefundTheorem == Spec => []RefundOnlyAfterPaid
<1>1. IInv => RefundOnlyAfterPaid
    BY DEF IInv
<1> QED  BY <1>1, Inductive, PTL

\* Transfer evidence is whole, uploaded and on a transfer order.
THEOREM EvidenceTheorem == Spec => []EvidenceIsComplete
<1>1. IInv => EvidenceIsComplete
    BY DEF IInv
<1> QED  BY <1>1, Inductive, PTL

\* An administrator's or a customer's decision is overtaken by another write
\* before it can take an order out of a terminal status; every slot, order and
\* interleaving included.
THEOREM TerminalTheorem == Spec => TerminalLeftOnlyByOldCopy
<1> DEFINE Left == \A o \in OrderIds :
              orders[o].status \in Terminal /\ orders'[o].status # orders[o].status =>
                  \E s \in Slots : WrittenBy(o, s) /\ (reqs[s].pc = "webhook" \/ s \in stale)
<1>1. ASSUME IInv, [Next]_vars
      PROVE  Left
    <2>0. TypeOK
        BY <1>1 DEF IInv
    <2>1. ASSUME NEW q \in OrderIds, NEW p \in Purchases, CreateOrder(q, p)
          PROVE  Left
        BY <2>0, <2>1 DEF CreateOrder, Terminal, TypeOK
    <2>2. ASSUME NEW s \in Slots, HandlerWrite(s)
          PROVE  Left
        <3> DEFINE old == orders[reqs[s].order]
                   doc == Written(reqs[s], old)
        <3>1. reqs[s].order \in OrderIds /\ old \in OrderDoc /\ reqs[s].pc \in Writers
            BY <2>0, <2>2, BusyOrder DEF HandlerWrite, Writers
        <3> SUFFICES ASSUME NEW o \in OrderIds, orders[o].status \in Terminal,
                            orders'[o].status # orders[o].status,
                            reqs[s].pc # "webhook", s \notin stale
                     PROVE  FALSE
            <4>1. ASSUME NEW o \in OrderIds, orders'[o].status # orders[o].status
                  PROVE  o = reqs[s].order /\ WrittenBy(o, s)
                BY <2>0, <2>2, <3>1, <4>1
                DEF HandlerWrite, Writers, Write, WrittenBy, TypeOK, Idle
            <4> QED  BY <4>1
        <3>2. o = reqs[s].order /\ doc.status # old.status
            BY <2>0, <2>2, <3>1 DEF HandlerWrite, Write, TypeOK
        <3>3. reqs[s].read = old.status /\ old.status \in Terminal
            BY <3>1, <3>2, <1>1 DEF IInv, FreshInv, Writers
        <3>4. CASE reqs[s].pc \in {"cancel", "submit"}
            BY <1>1, <3>3, <3>4 DEF IInv, RequestInv, Terminal
        <3>5. CASE reqs[s].pc = "update"
            <4>1. old.status = "delivered" /\ reqs[s].target = "delivered"
                BY <1>1, <3>3, <3>5 DEF IInv, RequestInv, MayUpdate, Terminal
            <4>2. doc = [old EXCEPT !.status = "delivered"]
                BY <3>5, <4>1 DEF Written
            <4> QED  BY <3>1, <3>2, <4>1, <4>2 DEF OrderDoc
        <3> QED  BY <3>1, <3>4, <3>5 DEF Writers
    <2>3. CASE UNCHANGED <<orders, seen>>
        BY <2>3
    <2> QED  BY <1>1, <2>1, <2>2, <2>3, StoreShape
<1>2. IInv /\ [Next]_vars => [Left]_vars
    BY <1>1
<1> QED  BY <1>2, Inductive, PTL DEF Spec, TerminalLeftOnlyByOldCopy

\* No session is opened for an order that checkout itself could see is not
\* pending.
THEOREM SessionTheorem == Spec => SessionOnlyForPending
<1> DEFINE Open == \A x \in SessionIds :
              sessions[x].state = "none" /\ sessions'[x].state # "none" =>
                  LET o == sessions'[x].order
                  IN  \/ orders[o].status = "pending"
                      \/ \E s \in stale : WrittenBy(o, s)
<1>1. ASSUME IInv, [Next]_vars
      PROVE  Open
    <2> SUFFICES ASSUME NEW x \in SessionIds, ~Opened(x), Opened(x)'
                 PROVE  LET o == sessions'[x].order
                        IN  \/ orders[o].status = "pending"
                            \/ \E s \in stale : WrittenBy(o, s)
        BY DEF Opened
    <2>0. TypeOK
        BY <1>1 DEF IInv
    <2>1. PICK s \in Slots : CheckoutSession(s, x)
        BY <1>1, <2>0, SessionOpener
    <2>2. sessions'[x].order = reqs[s].order /\ reqs[s].pc = "session" /\ reqs'[s].pc = "idle"
        BY <2>0, <2>1 DEF CheckoutSession, TypeOK, Idle
    <2>3. CASE s \in stale
        BY <2>2, <2>3 DEF WrittenBy
    <2>4. CASE s \notin stale
        BY <1>1, <2>2, <2>4 DEF IInv, FreshInv, RequestInv
    <2> QED  BY <2>3, <2>4
<1>2. IInv /\ [Next]_vars => [Open]_vars
    BY <1>1
<1> QED  BY <1>2, Inductive, PTL DEF Spec, SessionOnlyForPending

-----------------------------------------------------------------------------
(* Orders implements OrderContract: every step of the handlers and of      *)
(* Stripe is a step of the contract or changes nothing the contract sees.  *)

AStatus == [o \in OrderIds |-> orders[o].status]
ADecided == [s \in Slots |-> Decision(reqs[s])]
AConfirmed == {o \in OrderIds : orders[o].paidAt}

AVars == <<AStatus, ADecided, Captured, AConfirmed>>

LEMMA SameOrders ==
    ASSUME UNCHANGED orders
    PROVE  UNCHANGED <<AStatus, AConfirmed>>
BY DEF AStatus, AConfirmed

LEMMA SameSessions ==
    ASSUME UNCHANGED sessions
    PROVE  UNCHANGED Captured
BY DEF Captured, CapturedFor

LEMMA SameRequests ==
    ASSUME UNCHANGED reqs
    PROVE  UNCHANGED ADecided
BY DEF ADecided

\* A handler that moves changes what it alone has decided.
LEMMA OneDecision ==
    ASSUME TypeOK, NEW s \in Slots, NEW req, reqs' = [reqs EXCEPT ![s] = req]
    PROVE  ADecided' = [ADecided EXCEPT ![s] = Decision(req)]
BY DEF TypeOK, ADecided

LEMMA NoDecision ==
    ASSUME NEW req, req.pc \in {"idle", "checkout", "session", "webhook"}
    PROVE  Decision(req) = Contract!Undecided
BY DEF Decision, Contract!Undecided

LEMMA IdleDecision == Decision(Idle) = Contract!Undecided
BY DEF Idle, Decision, Contract!Undecided

LEMMA CustomerDecision ==
    ASSUME NEW req
    PROVE  /\ req.pc = "cancel" => Decision(req) =
                  [order |-> req.order, to |-> "rejected", by |-> "customer"]
           /\ req.pc \in {"upload", "submit"} => Decision(req) =
                  [order |-> req.order, to |-> "processing", by |-> "customer"]
BY DEF Decision

LEMMA AdminDecision ==
    ASSUME NEW req, req.pc = "update"
    PROVE  Decision(req) = [order |-> req.order, to |-> req.target, by |-> "admin"]
BY DEF Decision

\* createOrder places an order.
LEMMA CreatePlaces ==
    ASSUME IInv, NEW o \in OrderIds, NEW p \in Purchases, CreateOrder(o, p)
    PROVE  Contract!Place(o)
<1>0. TypeOK
    BY DEF IInv
<1>1. AStatus[o] = "absent" /\ AStatus' = [AStatus EXCEPT ![o] = "pending"]
    BY <1>0, NewOrderAmounts DEF CreateOrder, TypeOK, AStatus
<1>2. AConfirmed' = AConfirmed
    <2>1. ~orders'[o].paidAt /\ \A q \in OrderIds \ {o} : orders'[q] = orders[q]
        BY <1>0, NewOrderAmounts DEF CreateOrder, TypeOK
    <2>2. ~orders[o].paidAt
        <3> SUFFICES ASSUME CapturedFor(o) PROVE FALSE
            BY DEF IInv, ConfirmedOnlyIfCaptured
        <3> QED  BY DEF CapturedFor, CreateOrder, IInv, SessionInv, Opened, Placed
    <2> QED  BY <2>1, <2>2 DEF AConfirmed
<1>3. UNCHANGED <<ADecided, Captured>>
    BY SameRequests, SameSessions DEF CreateOrder
<1> QED  BY <1>1, <1>2, <1>3 DEF Contract!Place, AStatus, ADecided, AConfirmed

\* The reads of cancelOrder, updateOrderStatus and submitWalletTransfer decide
\* by the contract's rules; those of checkout and of the webhook decide nothing.
LEMMA ReadDecides ==
    ASSUME IInv, NEW s \in Slots, HandlerRead(s)
    PROVE  [Contract!Next]_(Contract!vars)
<1>0. TypeOK
    BY DEF IInv
<1>1. UNCHANGED <<AStatus, AConfirmed, Captured>>
    BY SameOrders, SameSessions DEF HandlerRead, CheckoutRead, CancelRead, TransferRead,
       UpdateRead, WebhookVerify, Start
<1>2. reqs[s].pc = "idle" /\ ADecided[s] = Contract!Undecided
    <2>1. reqs[s].pc = "idle"
        BY DEF HandlerRead, CheckoutRead, CancelRead, TransferRead, UpdateRead,
           WebhookVerify, Start
    <2>2. Decision(reqs[s]) = Contract!Undecided
        BY <2>1, NoDecision
    <2> QED  BY <2>1, <2>2 DEF ADecided
<1>3. ASSUME NEW req, reqs' = [reqs EXCEPT ![s] = req], Decision(req) = Contract!Undecided
      PROVE  UNCHANGED Contract!vars
    <2>1. ADecided' = ADecided
        BY <1>0, <1>2, <1>3, OneDecision DEF ADecided
    <2> QED  BY <1>1, <2>1 DEF Contract!vars, AStatus, ADecided, AConfirmed
<1>4. ASSUME NEW req, reqs' = [reqs EXCEPT ![s] = req],
             NEW o \in OrderIds, NEW new \in Contract!Status, NEW by \in {"customer", "admin"},
             Decision(req) = [order |-> o, to |-> new, by |-> by],
             by = "customer" => Contract!CustomerMay(AStatus[o], new),
             by = "admin" => Contract!AdminMay(AStatus[o], new)
      PROVE  Contract!Next
    <2>1. ADecided' = [ADecided EXCEPT ![s] = [order |-> o, to |-> new, by |-> by]]
        BY <1>0, <1>4, OneDecision
    <2>2. Contract!Decide(s, o, new, by)
        BY <1>1, <1>2, <1>4, <2>1 DEF Contract!Decide, AStatus, ADecided, AConfirmed
    <2> QED  BY <2>2 DEF Contract!Next
<1>5. ASSUME NEW o \in OrderIds, CheckoutRead(s, o)
      PROVE  UNCHANGED Contract!vars
    <2> DEFINE req == [Idle EXCEPT !.pc = "checkout", !.order = o, !.read = "pending"]
    <2>1. req.pc = "checkout"
        BY DEF Idle
    <2>2. reqs' = [reqs EXCEPT ![s] = req]
        BY <1>5 DEF CheckoutRead, Start
    <2> HIDE DEF req
    <2>3. Decision(req) = Contract!Undecided
        BY <2>1, NoDecision
    <2> QED  BY <1>3, <2>2, <2>3
<1>6. ASSUME NEW x \in SessionIds, WebhookVerify(s, x)
      PROVE  UNCHANGED Contract!vars
    <2> DEFINE req == [Idle EXCEPT !.pc = "webhook", !.session = x,
                                   !.order = sessions[x].order]
    <2>1. req.pc = "webhook"
        BY DEF Idle
    <2>2. reqs' = [reqs EXCEPT ![s] = req]
        BY <1>6 DEF WebhookVerify, Start
    <2> HIDE DEF req
    <2>3. Decision(req) = Contract!Undecided
        BY <2>1, NoDecision
    <2> QED  BY <1>3, <2>2, <2>3
<1>7. ASSUME NEW o \in OrderIds, CancelRead(s, o)
      PROVE  Contract!Next
    <2> DEFINE req == [Idle EXCEPT !.pc = "cancel", !.order = o, !.read = orders[o].status]
    <2>1. req.pc = "cancel" /\ req.order = o
        BY DEF Idle
    <2>2. reqs' = [reqs EXCEPT ![s] = req]
        BY <1>7 DEF CancelRead, Start
    <2>3. Contract!CustomerMay(AStatus[o], "rejected")
        BY <1>7 DEF CancelRead, AStatus, Contract!CustomerMay
    <2> HIDE DEF req
    <2>4. Decision(req) = [order |-> o, to |-> "rejected", by |-> "customer"]
        BY <2>1, CustomerDecision
    <2> QED  BY <1>4, <2>2, <2>3, <2>4 DEF Contract!Status
<1>8. ASSUME NEW o \in OrderIds, TransferRead(s, o)
      PROVE  Contract!Next
    <2> DEFINE req == [Idle EXCEPT !.pc = "upload", !.order = o, !.read = "pending"]
    <2>1. req.pc = "upload" /\ req.order = o
        BY DEF Idle
    <2>2. reqs' = [reqs EXCEPT ![s] = req]
        BY <1>8 DEF TransferRead, Start
    <2>3. Contract!CustomerMay(AStatus[o], "processing")
        BY <1>8 DEF TransferRead, AStatus, Contract!CustomerMay
    <2> HIDE DEF req
    <2>4. Decision(req) = [order |-> o, to |-> "processing", by |-> "customer"]
        BY <2>1, CustomerDecision
    <2> QED  BY <1>4, <2>2, <2>3, <2>4 DEF Contract!Status
<1>9. ASSUME NEW o \in OrderIds, NEW t \in OrderStatus, UpdateRead(s, o, t)
      PROVE  Contract!Next
    <2> DEFINE req == [Idle EXCEPT !.pc = "update", !.order = o,
                                   !.read = orders[o].status, !.target = t]
    <2>1. req.pc = "update" /\ req.order = o /\ req.target = t
        BY DEF Idle
    <2>2. reqs' = [reqs EXCEPT ![s] = req]
        BY <1>9 DEF UpdateRead, Start
    <2>3. Contract!AdminMay(AStatus[o], t) /\ t \in Contract!Status
        BY <1>9 DEF UpdateRead, MayUpdate, AStatus, Contract!AdminMay, OrderStatus, Contract!Status
    <2> HIDE DEF req
    <2>4. Decision(req) = [order |-> o, to |-> t, by |-> "admin"]
        BY <2>1, AdminDecision
    <2> QED  BY <1>4, <2>2, <2>3, <2>4
<1> QED  BY <1>5, <1>6, <1>7, <1>8, <1>9 DEF HandlerRead

\* The webhook's write confirms an order; any other write makes a decision
\* take effect.
LEMMA WriteTakesEffect ==
    ASSUME IInv, NEW s \in Slots, HandlerWrite(s)
    PROVE  Contract!Next
<1> DEFINE o == reqs[s].order
           old == orders[o]
           doc == Written(reqs[s], old)
<1>0. TypeOK
    BY DEF IInv
<1>1. o \in OrderIds /\ old \in OrderDoc /\ reqs[s].pc \in Writers
    BY <1>0, BusyOrder DEF HandlerWrite, Writers
<1>2. orders' = [orders EXCEPT ![o] = doc] /\ reqs' = [reqs EXCEPT ![s] = Idle]
    BY DEF HandlerWrite, Write
<1>3. UNCHANGED Captured
    BY SameSessions DEF HandlerWrite
<1>4. AStatus' = [AStatus EXCEPT ![o] = doc.status]
    <2> HIDE DEF o, doc
    <2> QED  BY <1>0, <1>1, <1>2 DEF TypeOK, AStatus
<1>5. ADecided' = [ADecided EXCEPT ![s] = Contract!Undecided]
    BY <1>0, <1>2, OneDecision, IdleDecision
<1>6. CASE reqs[s].pc = "webhook"
    <2>1. doc.status = "paid" /\ doc.paidAt
        BY <1>1, <1>6 DEF Written, OrderDoc
    <2>2. o \in Captured
        <3>1. reqs[s].session \in SessionIds
            BY <1>0, <1>6 DEF TypeOK, Request, OrderRequest, UpdateRequest, WebhookRequest,
                Idle, Steps
        <3> QED  BY <1>1, <1>6, <3>1 DEF IInv, RequestInv, Captured, CapturedFor
    <2>3. AConfirmed' = AConfirmed \cup {o}
        <3> HIDE DEF o, doc
        <3> QED  BY <1>0, <1>1, <1>2, <2>1 DEF TypeOK, AConfirmed
    <2>4. ADecided' = ADecided
        <3>1. ADecided[s] = Contract!Undecided
            BY <1>6, NoDecision DEF ADecided
        <3> QED  BY <1>5, <3>1 DEF ADecided
    <2> PICK q \in OrderIds : q = o
        BY <1>1
    <2>5. Contract!Confirm(q)
        BY <1>3, <1>4, <2>1, <2>2, <2>3, <2>4
        DEF Contract!Confirm, AStatus, ADecided, AConfirmed
    <2> QED  BY <2>5 DEF Contract!Next
<1>7. CASE reqs[s].pc # "webhook"
    <2>1. doc.paidAt = old.paidAt
        BY <1>1, <1>7 DEF Writers, Written, Rejected, OrderDoc
    <2>2. AConfirmed' = AConfirmed
        <3> HIDE DEF doc
        <3> QED  BY <1>0, <1>1, <1>2, <2>1 DEF TypeOK, AConfirmed
    <2>3. /\ ADecided[s].order = o
          /\ ADecided[s].to = doc.status
          /\ ADecided[s].by # "nobody"
        <3>1. CASE reqs[s].pc = "cancel"
            <4>1. ADecided[s] = [order |-> o, to |-> "rejected", by |-> "customer"]
                BY <3>1, CustomerDecision DEF ADecided
            <4>2. doc.status = "rejected"
                BY <1>1, <3>1 DEF Written, Rejected, OrderDoc
            <4> QED  BY <4>1, <4>2
        <3>2. CASE reqs[s].pc = "submit"
            <4>1. ADecided[s] = [order |-> o, to |-> "processing", by |-> "customer"]
                BY <3>2, CustomerDecision DEF ADecided
            <4>2. doc.status = "processing"
                BY <1>1, <3>2 DEF Written, OrderDoc
            <4> QED  BY <4>1, <4>2
        <3>3. CASE reqs[s].pc = "update"
            <4>1. ADecided[s] = [order |-> o, to |-> reqs[s].target, by |-> "admin"]
                BY <3>3, AdminDecision DEF ADecided
            <4>2. doc.status = reqs[s].target
                BY <1>1, <3>3 DEF Written, Rejected, OrderDoc
            <4> QED  BY <4>1, <4>2
        <3> QED  BY <1>1, <1>7, <3>1, <3>2, <3>3 DEF Writers
    <2>4. ADecided[s] # Contract!Undecided
        BY <2>3 DEF Contract!Undecided
    <2>5. AStatus' = [AStatus EXCEPT ![ADecided[s].order] = ADecided[s].to]
        BY <1>4, <2>3
    <2>6. Contract!TakeEffect(s)
        BY <1>3, <1>5, <2>2, <2>4, <2>5
        DEF Contract!TakeEffect, AStatus, ADecided, AConfirmed
    <2> QED  BY <2>6 DEF Contract!Next
<1> QED  BY <1>6, <1>7

\* Stripe's steps capture a payment for an order or nothing.
LEMMA StripeCaptures ==
    ASSUME IInv, NEW x \in SessionIds, Stripe(x)
    PROVE  [Contract!Next]_(Contract!vars)
<1> DEFINE o == sessions[x].order
<1>0. TypeOK
    BY DEF IInv
<1>1. UNCHANGED <<AStatus, AConfirmed, ADecided>>
    BY SameOrders, SameRequests DEF Stripe, Complete, Settle, Expire
<1>2. PICK state \in Completed \cup {"expired"} :
            /\ sessions[x].state \in {"open", "processing"}
            /\ sessions' = [sessions EXCEPT ![x] = [sessions[x] EXCEPT !.state = state]]
    BY DEF Stripe, Complete, Settle, Expire, Completed
<1>3. sessions[x] \in [state : {"open", "expired"} \cup Completed,
                       order : OrderIds, amount : Int]
    BY <1>0, <1>2 DEF TypeOK, Session, NoSession
<1>4. sessions'[x].state = state /\ sessions'[x].order = o
    BY <1>0, <1>2, <1>3 DEF TypeOK
<1>5. \A y \in SessionIds \ {x} : sessions'[y] = sessions[y]
    BY <1>0, <1>2 DEF TypeOK
<1>6. CASE state = "succeeded"
    <2>1. Captured' = Captured \cup {o}
        BY <1>2, <1>3, <1>4, <1>5, <1>6 DEF Captured, CapturedFor
    <2>2. AStatus[o] # "absent" /\ o \in OrderIds
        BY <1>2, <1>3 DEF IInv, SessionInv, Opened, Placed, AStatus
    <2>3. Contract!Capture(o)
        BY <1>1, <2>1, <2>2 DEF Contract!Capture, AStatus, ADecided, AConfirmed
    <2> QED  BY <2>2, <2>3 DEF Contract!Next
<1>7. CASE state # "succeeded"
    <2>1. Captured' = Captured
        BY <1>2, <1>4, <1>5, <1>7 DEF Captured, CapturedFor
    <2> QED  BY <1>1, <2>1 DEF Contract!vars, AStatus, ADecided, AConfirmed
<1> QED  BY <1>6, <1>7

\* What goes on inside a handler, and the session checkout opens, are not seen;
\* a failure abandons a decision.
LEMMA InnerSteps ==
    ASSUME IInv, NEW s \in Slots,
           \/ CheckoutPrice(s) \/ TransferUpload(s) \/ Fail(s)
           \/ \E x \in SessionIds : CheckoutSession(s, x)
    PROVE  [Contract!Next]_(Contract!vars)
<1>0. TypeOK
    BY DEF IInv
<1>1. UNCHANGED <<AStatus, AConfirmed>>
    BY SameOrders DEF CheckoutPrice, TransferUpload, Fail, CheckoutSession
<1>2. UNCHANGED Captured
    <2>1. CASE UNCHANGED sessions
        BY <2>1, SameSessions
    <2>2. ASSUME NEW x \in SessionIds, CheckoutSession(s, x)
          PROVE  UNCHANGED Captured
        <3>1. sessions[x].state = "none" /\ sessions'[x].state = "open"
            BY <1>0, <2>2 DEF CheckoutSession, TypeOK
        <3>2. \A y \in SessionIds \ {x} : sessions'[y] = sessions[y]
            BY <1>0, <2>2 DEF CheckoutSession, TypeOK
        <3> QED  BY <3>1, <3>2 DEF Captured, CapturedFor
    <2> QED  BY <2>1, <2>2 DEF CheckoutPrice, TransferUpload, Fail
<1>3. ASSUME NEW req, reqs' = [reqs EXCEPT ![s] = req], Decision(req) = Decision(reqs[s])
      PROVE  UNCHANGED Contract!vars
    <2>1. ADecided' = ADecided
        BY <1>0, <1>3, OneDecision DEF ADecided
    <2> QED  BY <1>1, <1>2, <2>1 DEF Contract!vars, AStatus, ADecided, AConfirmed
<1>4. CASE CheckoutPrice(s)
    <2>1. PICK line \in CheckoutLine(orders[reqs[s].order]) :
                reqs' = [reqs EXCEPT ![s] =
                            [reqs[s] EXCEPT !.pc = "session", !.line = line]]
        BY <1>4 DEF CheckoutPrice
    <2> DEFINE req == [reqs[s] EXCEPT !.pc = "session", !.line = line]
    <2>2. reqs[s] \in OrderRequest /\ reqs[s].pc = "checkout"
        <3>1. reqs[s] \in Request /\ reqs[s].pc = "checkout"
            BY <1>0, <1>4 DEF CheckoutPrice, TypeOK
        <3> QED  BY <3>1 DEF Request, UpdateRequest, WebhookRequest, Idle
    <2>3. req.pc = "session"
        BY <2>2 DEF OrderRequest
    <2>4. reqs' = [reqs EXCEPT ![s] = req]
        BY <2>1
    <2> HIDE DEF req
    <2>5. Decision(req) = Contract!Undecided /\ Decision(reqs[s]) = Contract!Undecided
        BY <2>2, <2>3, NoDecision
    <2> QED  BY <1>3, <2>4, <2>5
<1>5. CASE TransferUpload(s)
    <2> DEFINE req == [reqs[s] EXCEPT !.pc = "submit"]
    <2>1. reqs[s] \in OrderRequest /\ reqs[s].pc = "upload"
        BY <1>0, <1>5 DEF TransferUpload, TypeOK, Request, UpdateRequest, WebhookRequest, Idle
    <2>2. req.pc = "submit" /\ req.order = reqs[s].order
        BY <2>1 DEF OrderRequest
    <2>3. reqs' = [reqs EXCEPT ![s] = req]
        BY <1>5 DEF TransferUpload
    <2> HIDE DEF req
    <2>4. Decision(req) = Decision(reqs[s])
        BY <2>1, <2>2, CustomerDecision
    <2> QED  BY <1>3, <2>3, <2>4
<1>6. CASE Fail(s)
    <2>1. ADecided' = [ADecided EXCEPT ![s] = Contract!Undecided]
        BY <1>0, <1>6, OneDecision, IdleDecision DEF Fail
    <2>2. Contract!Abandon(s)
        BY <1>1, <1>2, <2>1 DEF Contract!Abandon, AStatus, ADecided, AConfirmed
    <2> QED  BY <2>2 DEF Contract!Next
<1>7. ASSUME NEW x \in SessionIds, CheckoutSession(s, x)
      PROVE  UNCHANGED Contract!vars
    <2>1. reqs' = [reqs EXCEPT ![s] = Idle] /\ reqs[s].pc = "session"
        BY <1>7 DEF CheckoutSession
    <2>2. Decision(reqs[s]) = Decision(Idle)
        BY <2>1, NoDecision, IdleDecision
    <2> QED  BY <1>3, <2>1, <2>2
<1> QED  BY <1>4, <1>5, <1>6, <1>7

\* The order subsystem keeps the contract for every set of orders, requests and
\* sessions: no interleaving stores a status that nobody was allowed to decide,
\* and nothing is confirmed that was not captured.
THEOREM Implementation == Spec => ImplementsContract
<1>1. Init => Contract!Init
    BY IdleDecision DEF Init, Contract!Init, NoDoc, NoSession, Captured, CapturedFor
<1>2. ASSUME IInv, [Next]_vars
      PROVE  [Contract!Next]_(Contract!vars)
    <2>1. ASSUME NEW o \in OrderIds, NEW p \in Purchases, CreateOrder(o, p)
          PROVE  Contract!Next
        BY <1>2, <2>1, CreatePlaces DEF Contract!Next
    <2>2. CASE UNCHANGED vars
        BY <2>2, SameOrders, SameRequests, SameSessions
        DEF vars, Contract!vars, AStatus, ADecided, AConfirmed
    <2> QED
        BY <1>2, <2>1, <2>2, StepShape, ReadDecides, WriteTakesEffect, StripeCaptures,
           InnerSteps
<1>3. IInv /\ [Next]_vars => [Contract!Next]_(Contract!vars)
    BY <1>2
<1> QED  BY <1>1, <1>3, Inductive, PTL DEF Spec, ImplementsContract, Contract!SafetySpec
=============================================================================
