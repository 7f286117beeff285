----------------------------- MODULE SalesProofs -----------------------------
(***************************************************************************)
(* Theorems about Sales: what CouponsProofs shows of Coupons holds of it,  *)
(* and what coupons take off.                                              *)
(***************************************************************************)
EXTENDS Sales, CouponsProofs

-----------------------------------------------------------------------------
(* Sales is Coupons with more to say                                       *)

\* Each step of Sales is one of Coupons.
LEMMA StepIsNext == Step => Next
BY DEF Step, Next, CreateTerms, StoreTerms, ChangeTerms, WriteTerms, Promise, Spend, Sell, Abandon

LEMMA SalesImplementsCoupons == SalesSpec => Spec
<1>1. SalesInit => Init
    BY DEF SalesInit
<1>2. [SalesNext]_allVars => [Next]_vars
    BY StepIsNext DEF SalesNext, allVars
<1> QED  BY <1>1, <1>2, PTL DEF SalesSpec, Spec

LEMMA SalesKeepIInv == SalesSpec => []IInv
BY SalesImplementsCoupons, Inductive, PTL

-----------------------------------------------------------------------------
(* The inductive invariant                                                 *)

\* Terms under which coupon c could be used give this discount on this price.
Offers(c, deal) ==
    \E t \in offered[c] : Accepts(t, deal.price) /\ deal.off = Discount(t, deal.price)

SlotInv(s) ==
    /\ reqs[s].pc = "create" => forms[s] \in Coupon
    /\ reqs[s].pc = "update" => forms[s] \in TermChange
    /\ reqs[s].pc \in {"validated", "counted"} => Offers(reqs[s].coupon, deals[s])

\* A document has terms, and those it has while it can be used are remembered.
TermsInv(c) ==
    /\ coupons[c].life # "none" => terms[c] \in Coupon
    /\ Usable(c) => terms[c] \in offered[c]

BillsInv(c) == \A bill \in bills[c] : Offers(c, bill)

Caps(c) == {0} \cup {t.maxDiscount : t \in offered[c]}

\* The discounts so far are those of the orders so far.
CostInv(c) == \E most \in Caps(c) : cost[c] <= placed[c] * most

\* The orders placed, and those on their way, keep the bound that the counter of a
\* stored coupon keeps, and keep it when the coupon is deleted.
SpendInv(c) ==
    coupons[c].life # "none" /\ Unlimited \notin limits[c] =>
        \E l \in limits[c] :
            placed[c] + Cardinality(At("counted", c)) + Cardinality(At("validated", c))
                < l + Cardinality(Slots)

SalesInv ==
    /\ SalesTypeOK
    /\ \A s \in Slots : SlotInv(s)
    /\ \A c \in Ids : TermsInv(c) /\ BillsInv(c) /\ CostInv(c) /\ SpendInv(c)

-----------------------------------------------------------------------------
(* Discounts                                                               *)

\* Whatever its terms, a coupon takes off no more than its maximum.
LEMMA DiscountType ==
    ASSUME NEW t \in Coupon, NEW a \in Nat
    PROVE  Discount(t, a) \in Nat /\ t.maxDiscount \in Nat /\ Discount(t, a) <= t.maxDiscount
<1>1. t.value \in Nat /\ t.maxDiscount \in Nat
    BY DEF Coupon
<1>2. a * t.value \in Nat
    BY <1>1
<1>3. FaceDiscount(t, a) \in Nat
    <2> DEFINE n == a * t.value
    <2>1. n \in Nat
        BY <1>2
    <2> HIDE DEF n
    <2>2. n \div 100 \in Nat
        BY <2>1
    <2> QED  BY <1>1, <2>2 DEF FaceDiscount, n
<1> QED  BY <1>1, <1>3 DEF Discount, AtMost

LEMMA DealType ==
    ASSUME SalesTypeOK, NEW c \in Ids, NEW t \in offered[c], NEW price \in Nat
    PROVE  /\ t.maxDiscount \in Caps(c) /\ Caps(c) \subseteq Nat
           /\ Discount(t, price) \in Nat /\ Discount(t, price) <= t.maxDiscount
<1>1. \A u \in offered[c] : u \in Coupon
    BY DEF SalesTypeOK
<1>2. \A u \in offered[c] : u.maxDiscount \in Nat
    BY <1>1 DEF Coupon
<1> QED  BY <1>1, <1>2, DiscountType DEF Caps

\* One order more, whose discount is at most the cap.
LEMMA OneMore ==
    ASSUME NEW n \in Nat, NEW sum \in Nat, NEW off \in Nat, NEW m \in Nat, NEW most \in Nat,
           sum <= n * m, m <= most, off <= most
    PROVE  sum + off <= (n + 1) * most
<1>1. n * m <= n * most
    OBVIOUS
<1> QED  BY <1>1

LEMMA NoMore ==
    ASSUME NEW n \in Nat, NEW k \in Nat, n <= k, NEW most \in Nat
    PROVE  n * most <= k * most
OBVIOUS

-----------------------------------------------------------------------------
(* Terms                                                                   *)

\* The terms an update leaves are terms.
LEMMA GivenType ==
    ASSUME NEW form \in Coupon \cup TermChange, NEW old \in Coupon
    PROVE  Given(form, old) \in Coupon
<1>1. /\ Or(form.type, old.type) \in CouponTypes
      /\ Or(form.value, old.value) \in Nat \ {0}
      /\ Or(form.minOrderAmount, old.minOrderAmount) \in Nat \ {0}
      /\ Or(form.maxDiscount, old.maxDiscount) \in Nat \ {0}
    BY DEF Or, Coupon, TermChange
<1> QED  BY <1>1 DEF Given, Coupon

LEMMA FormTypes ==
    /\ NoTerms \in TermChange
    /\ \A form \in Terms : form \in Coupon
    /\ \A form \in TermChanges : form \in TermChange
BY SalesAssumption DEF NoTerms, TermChange

\* No update, use or deletion brings a document into being.
LEMMA LifeKept ==
    ASSUME TypeOK, NEW c \in Ids, coupons'[c].life # "none",
           \/ \E s \in Slots : UpdateWrite(s) \/ Apply(s)
           \/ \E d \in Ids : Delete(d)
    PROVE  coupons[c].life # "none"
<1>1. ASSUME NEW s \in Slots, NEW d \in Ids, Updates(s, d)
      PROVE  coupons[c].life # "none"
    BY <1>1, UpdatedDoc DEF Updates, Stored
<1>2. ASSUME NEW s \in Slots, NEW d \in Ids, Uses(s, d)
      PROVE  coupons[c].life # "none"
    <2>1. CASE c = d
        BY <1>2, <2>1 DEF Uses, Stored
    <2>2. CASE c # d
        BY <1>2, <2>2 DEF Uses, Apply, TypeOK
    <2> QED  BY <2>1, <2>2
<1>3. ASSUME NEW d \in Ids, Delete(d)
      PROVE  coupons[c].life # "none"
    BY <1>3, DeletedDoc DEF Delete, Stored
<1>4. ASSUME NEW s \in Slots, UpdateWrite(s), \A d \in Ids : ~Updates(s, d)
      PROVE  coupons[c].life # "none"
    BY <1>4, RequestKinds DEF UpdateWrite, Updates
<1>5. ASSUME NEW s \in Slots, Apply(s), \A d \in Ids : ~Uses(s, d)
      PROVE  coupons[c].life # "none"
    BY <1>5, RequestKinds DEF Apply, Uses
<1> QED  BY <1>1, <1>2, <1>3, <1>4, <1>5

TermsTyped ==
    /\ terms' \in [Ids -> Coupon \cup {NoTerms}]
    /\ forms' \in [Slots -> Coupon \cup TermChange]
    /\ \A c \in Ids : coupons'[c].life # "none" => terms'[c] \in Coupon

LEMMA TermsStep ==
    ASSUME SalesInv, Step
    PROVE  TermsTyped
<1>0. SalesTypeOK /\ TypeOK
    BY DEF SalesInv, SalesTypeOK
<1>1. \A c \in Ids : coupons[c].life # "none" => terms[c] \in Coupon
    BY DEF SalesInv, TermsInv
<1>2. ASSUME UNCHANGED terms,
             \/ UNCHANGED forms
             \/ \E s \in Slots, form \in Coupon \cup TermChange : forms' = [forms EXCEPT ![s] = form],
             \A c \in Ids : coupons'[c].life # "none" => coupons[c].life # "none"
      PROVE  TermsTyped
    BY <1>0, <1>1, <1>2 DEF SalesTypeOK, TermsTyped
<1>3. ASSUME NEW s \in Slots, NEW draft \in Drafts, NEW form \in Terms, CreateTerms(s, draft, form)
      PROVE  TermsTyped
    <2>1. UNCHANGED <<terms, coupons>> /\ forms' = [forms EXCEPT ![s] = form]
        BY <1>3 DEF CreateTerms, CreateRead
    <2> QED  BY <1>2, <2>1, FormTypes
<1>4. ASSUME NEW s \in Slots, NEW c \in Ids, NEW change \in Changes, NEW form \in TermChanges,
             ChangeTerms(s, c, change, form)
      PROVE  TermsTyped
    <2>1. UNCHANGED <<terms, coupons>> /\ forms' = [forms EXCEPT ![s] = form]
        BY <1>4 DEF ChangeTerms, UpdateRead
    <2> QED  BY <1>2, <2>1, FormTypes
<1>5. ASSUME NEW s \in Slots, NEW c \in Ids, StoreTerms(s, c)
      PROVE  TermsTyped
    <2>1. /\ CreateWrite(s, c) /\ reqs[s].pc = "create"
          /\ terms' = [terms EXCEPT ![c] = forms[s]] /\ forms' = [forms EXCEPT ![s] = NoTerms]
        BY <1>5 DEF StoreTerms, CreateWrite
    <2>2. forms[s] \in Coupon
        BY <2>1 DEF SalesInv, SlotInv
    <2>3. \A d \in Ids \ {c} : coupons'[d] = coupons[d]
        BY <1>0, <2>1, CreatedDoc
    <2> QED  BY <1>0, <1>1, <2>1, <2>2, <2>3, FormTypes DEF SalesTypeOK, TermsTyped
<1>6. ASSUME NEW s \in Slots, WriteTerms(s)
      PROVE  TermsTyped
    <2> DEFINE c == reqs[s].coupon
               new == Given(forms[s], terms[c])
    <2>1. /\ UpdateWrite(s) /\ reqs[s].pc = "update" /\ c \in Ids
          /\ terms' = IF Stored(c) THEN [terms EXCEPT ![c] = new] ELSE terms
          /\ forms' = [forms EXCEPT ![s] = NoTerms]
        BY <1>0, <1>6, RequestKinds DEF WriteTerms, UpdateWrite
    <2>2. \A d \in Ids : coupons'[d].life # "none" => coupons[d].life # "none"
        BY <1>0, <2>1, LifeKept
    <2>3. Stored(c) => new \in Coupon
        <3>1. forms[s] \in TermChange
            BY <2>1 DEF SalesInv, SlotInv
        <3>2. Stored(c) => terms[c] \in Coupon
            BY <1>1, <2>1 DEF Stored
        <3> QED  BY <3>1, <3>2, GivenType
    <2> HIDE DEF new, c
    <2> QED  BY <1>0, <1>1, <2>1, <2>2, <2>3, FormTypes DEF SalesTypeOK, TermsTyped
<1>7. ASSUME NEW s \in Slots, NEW code \in Codes, NEW price \in Prices, Promise(s, code, price)
      PROVE  TermsTyped
    BY <1>2, <1>7 DEF Promise, Validate
<1>8. ASSUME NEW s \in Slots, Spend(s)
      PROVE  TermsTyped
    BY <1>0, <1>2, <1>8, LifeKept DEF Spend
<1>9. ASSUME NEW s \in Slots, Sell(s)
      PROVE  TermsTyped
    BY <1>2, <1>9 DEF Sell, Insert
<1>10. ASSUME NEW s \in Slots, Abandon(s)
       PROVE  TermsTyped
    BY <1>2, <1>10, FormTypes DEF Abandon, Fail
<1>11. ASSUME NEW c \in Ids, Delete(c), UNCHANGED <<terms, forms>>
       PROVE  TermsTyped
    BY <1>0, <1>2, <1>11, LifeKept
<1>12. ASSUME Tick \/ \E s \in Slots : CodeRead(s), UNCHANGED <<terms, forms>>
       PROVE  TermsTyped
    BY <1>2, <1>12 DEF Tick, CodeRead
<1> QED
    BY <1>3, <1>4, <1>5, <1>6, <1>7, <1>8, <1>9, <1>10, <1>11, <1>12 DEF Step

\* The history of terms only grows, and knows those of today.
LEMMA OfferedStep ==
    ASSUME SalesInv, Step, Remember
    PROVE  /\ offered' \in [Ids -> SUBSET Coupon]
           /\ \A c \in Ids : offered[c] \subseteq offered'[c]
           /\ \A c \in Ids : Usable(c)' => terms'[c] \in offered'[c]
<1>1. offered \in [Ids -> SUBSET Coupon]
    BY DEF SalesInv, SalesTypeOK
<1>2. ASSUME NEW c \in Ids
      PROVE  Usable(c)' => terms'[c] \in Coupon
    BY TermsStep DEF TermsTyped, Usable, Stored
<1>3. offered' = [c \in Ids |-> offered[c] \cup IF Usable(c)' THEN {terms'[c]} ELSE {}]
    BY DEF Remember
<1> QED  BY <1>1, <1>2, <1>3

-----------------------------------------------------------------------------
(* Requests                                                                *)

SlotsTyped ==
    /\ deals' \in [Slots -> Deal]
    /\ \A s \in Slots : SlotInv(s)'

\* One request moves.
LEMMA OneSlot ==
    ASSUME SalesInv, Remember, Step, NEW s \in Slots, NEW req, NEW deal \in Deal,
           reqs' = [reqs EXCEPT ![s] = req],
           deals' = [deals EXCEPT ![s] = deal],
           \A q \in Slots \ {s} : forms'[q] = forms[q],
           SlotInv(s)'
    PROVE  SlotsTyped
<1>0. SalesTypeOK /\ TypeOK
    BY DEF SalesInv, SalesTypeOK
<1>1. deals' \in [Slots -> Deal]
    BY <1>0 DEF SalesTypeOK
<1>2. ASSUME NEW q \in Slots, q # s
      PROVE  SlotInv(q)'
    <2>1. reqs'[q] = reqs[q] /\ deals'[q] = deals[q] /\ forms'[q] = forms[q]
        BY <1>0, <1>2 DEF TypeOK, SalesTypeOK
    <2>2. SlotInv(q)
        BY DEF SalesInv
    <2>3. reqs[q].pc \in {"validated", "counted"} => Offers(reqs[q].coupon, deals[q])'
        <3>1. ASSUME reqs[q].pc \in {"validated", "counted"}
              PROVE  Offers(reqs[q].coupon, deals[q])'
            <4>1. reqs[q].coupon \in Ids
                BY <1>0, <3>1, RequestKinds
            <4>2. Offers(reqs[q].coupon, deals[q])
                BY <2>2, <3>1 DEF SlotInv
            <4>3. offered[reqs[q].coupon] \subseteq offered'[reqs[q].coupon]
                BY <4>1, OfferedStep
            <4> QED  BY <2>1, <4>1, <4>2, <4>3 DEF Offers
        <3> QED  BY <3>1
    <2> QED  BY <2>1, <2>2, <2>3 DEF SlotInv
<1> QED  BY <1>1, <1>2 DEF SlotsTyped

\* No request moves.
LEMMA NoSlot ==
    ASSUME SalesInv, Remember, Step, UNCHANGED <<reqs, forms, deals>>
    PROVE  SlotsTyped
<1>0. SalesTypeOK /\ TypeOK
    BY DEF SalesInv, SalesTypeOK
<1>1. ASSUME NEW q \in Slots
      PROVE  SlotInv(q)'
    <2>1. SlotInv(q)
        BY DEF SalesInv
    <2>2. ASSUME reqs[q].pc \in {"validated", "counted"}
          PROVE  Offers(reqs[q].coupon, deals[q])'
        <3>1. reqs[q].coupon \in Ids
            BY <1>0, <2>2, RequestKinds
        <3>2. Offers(reqs[q].coupon, deals[q])
            BY <2>1, <2>2 DEF SlotInv
        <3>3. offered[reqs[q].coupon] \subseteq offered'[reqs[q].coupon]
            BY <3>1, OfferedStep
        <3> QED  BY <3>1, <3>2, <3>3 DEF Offers
    <2> QED  BY <2>1, <2>2 DEF SlotInv
<1> QED  BY <1>0, <1>1 DEF SlotsTyped, SalesTypeOK

LEMMA SlotsStep ==
    ASSUME SalesInv, Remember, Step
    PROVE  SlotsTyped
<1>0. SalesTypeOK /\ TypeOK
    BY DEF SalesInv, SalesTypeOK
<1>1. ASSUME NEW s \in Slots
      PROVE  /\ SlotInv(s) /\ deals[s] \in Deal
             /\ deals = [deals EXCEPT ![s] = deals[s]]
             /\ forms = [forms EXCEPT ![s] = forms[s]]
    BY <1>0 DEF SalesInv, SalesTypeOK
<1>2. NoDeal \in Deal
    BY DEF NoDeal, Deal
<1>3. ASSUME NEW s \in Slots, NEW draft \in Drafts, NEW form \in Terms, CreateTerms(s, draft, form)
      PROVE  SlotsTyped
    <2> DEFINE req == [Idle EXCEPT !.pc = "create", !.form = draft]
    <2>1. /\ reqs' = [reqs EXCEPT ![s] = req] /\ deals' = deals
          /\ forms' = [forms EXCEPT ![s] = form]
        BY <1>3 DEF CreateTerms, CreateRead, Start
    <2>2. req.pc = "create"
        BY DEF Idle
    <2> HIDE DEF req
    <2>3. reqs'[s] = req /\ forms'[s] = form
        BY <1>0, <2>1 DEF TypeOK, SalesTypeOK
    <2>4. SlotInv(s)'
        BY <2>2, <2>3, FormTypes DEF SlotInv
    <2>5. \A q \in Slots \ {s} : forms'[q] = forms[q]
        BY <1>0, <2>1 DEF SalesTypeOK
    <2> QED  BY <1>1, <2>1, <2>4, <2>5, OneSlot
<1>4. ASSUME NEW s \in Slots, NEW c \in Ids, NEW change \in Changes, NEW form \in TermChanges,
             ChangeTerms(s, c, change, form)
      PROVE  SlotsTyped
    <2> DEFINE req == [pc |-> "update", coupon |-> c, form |-> change]
    <2>1. /\ reqs' = [reqs EXCEPT ![s] = req] /\ deals' = deals
          /\ forms' = [forms EXCEPT ![s] = form]
        BY <1>4 DEF ChangeTerms, UpdateRead, Start
    <2>2. req.pc = "update"
        OBVIOUS
    <2> HIDE DEF req
    <2>3. reqs'[s] = req /\ forms'[s] = form
        BY <1>0, <2>1 DEF TypeOK, SalesTypeOK
    <2>4. SlotInv(s)'
        BY <2>2, <2>3, FormTypes DEF SlotInv
    <2>5. \A q \in Slots \ {s} : forms'[q] = forms[q]
        BY <1>0, <2>1 DEF SalesTypeOK
    <2> QED  BY <1>1, <2>1, <2>4, <2>5, OneSlot
<1>5. ASSUME NEW s \in Slots, reqs' = [reqs EXCEPT ![s] = Idle],
             \/ forms' = [forms EXCEPT ![s] = NoTerms]
             \/ UNCHANGED forms,
             \E deal \in Deal : deals' = [deals EXCEPT ![s] = deal]
      PROVE  SlotsTyped
    <2>1. reqs'[s].pc = "idle"
        BY <1>0, <1>5 DEF TypeOK, Idle
    <2>2. SlotInv(s)'
        BY <2>1 DEF SlotInv
    <2>3. \A q \in Slots \ {s} : forms'[q] = forms[q]
        BY <1>0, <1>5 DEF SalesTypeOK
    <2> QED  BY <1>5, <2>2, <2>3, OneSlot
<1>6. ASSUME NEW s \in Slots, NEW c \in Ids, StoreTerms(s, c)
      PROVE  SlotsTyped
    BY <1>1, <1>5, <1>6 DEF StoreTerms, CreateWrite, Finish
<1>7. ASSUME NEW s \in Slots, WriteTerms(s)
      PROVE  SlotsTyped
    BY <1>1, <1>5, <1>7 DEF WriteTerms, UpdateWrite
<1>8. ASSUME NEW s \in Slots, Sell(s) \/ Abandon(s)
      PROVE  SlotsTyped
    BY <1>2, <1>5, <1>8 DEF Sell, Abandon, Insert, Fail, Finish
<1>9. ASSUME NEW s \in Slots, NEW code \in Codes, NEW price \in Prices, Promise(s, code, price)
      PROVE  SlotsTyped
    <2>1. PICK c \in Ids :
              /\ Usable(c)
              /\ reqs' = [reqs EXCEPT ![s] = [Idle EXCEPT !.pc = "validated", !.coupon = c]]
        BY <1>9 DEF Promise, Validate, Start, Usable
    <2> DEFINE req == [Idle EXCEPT !.pc = "validated", !.coupon = c]
               t == terms[c]
               deal == [price |-> price, off |-> Discount(t, price)]
    <2>2. req.pc = "validated" /\ req.coupon = c
        BY DEF Idle
    <2>3. reqs'[s] = req
        BY <1>0, <2>1 DEF TypeOK
    <2>4. Accepts(t, price) /\ deals' = [deals EXCEPT ![s] = deal] /\ UNCHANGED forms
        BY <1>9, <2>2, <2>3 DEF Promise
    <2>5. t \in offered[c] /\ price \in Nat
        BY <2>1, SalesAssumption DEF SalesInv, TermsInv
    <2>6. deal \in Deal
        BY <1>0, <2>5, DealType DEF Deal
    <2>7. Offers(c, deal)
        BY <2>4, <2>5 DEF Offers
    <2>8. reqs' = [reqs EXCEPT ![s] = req]
        BY <2>1
    <2> HIDE DEF req, t, deal
    <2>9. deals'[s] = deal
        BY <1>0, <2>4 DEF SalesTypeOK
    <2>10. offered[c] \subseteq offered'[c]
        BY OfferedStep
    <2>11. SlotInv(s)'
        BY <2>2, <2>3, <2>7, <2>9, <2>10 DEF SlotInv, Offers
    <2> QED  BY <2>4, <2>6, <2>8, <2>11, OneSlot
<1>10. ASSUME NEW s \in Slots, Spend(s)
       PROVE  SlotsTyped
    <2> DEFINE req == [reqs[s] EXCEPT !.pc = "counted"]
               c == reqs[s].coupon
    <2>1. /\ reqs' = [reqs EXCEPT ![s] = req] /\ UNCHANGED <<forms, deals>>
          /\ reqs[s].pc = "validated" /\ c \in Ids
        BY <1>0, <1>10, RequestKinds DEF Spend, Apply
    <2>2. req.pc = "counted" /\ req.coupon = c
        BY <1>0, <2>1 DEF TypeOK, Request
    <2> HIDE DEF req
    <2>3. reqs'[s] = req
        BY <1>0, <2>1 DEF TypeOK
    <2>4. Offers(c, deals[s])
        BY <1>1, <2>1 DEF SlotInv
    <2>5. offered[c] \subseteq offered'[c]
        BY <2>1, OfferedStep
    <2> HIDE DEF c
    <2>6. SlotInv(s)'
        BY <2>1, <2>2, <2>3, <2>4, <2>5 DEF SlotInv, Offers
    <2> QED  BY <1>1, <2>1, <2>6, OneSlot
<1>11. ASSUME \/ Tick
              \/ \E c \in Ids : Delete(c)
              \/ \E s \in Slots : CodeRead(s),
              UNCHANGED <<forms, deals>>
       PROVE  SlotsTyped
    BY <1>11, NoSlot DEF Delete, Tick, CodeRead
<1> QED
    BY <1>3, <1>4, <1>6, <1>7, <1>8, <1>9, <1>10, <1>11 DEF Step

-----------------------------------------------------------------------------
(* Orders                                                                  *)

\* Only an insert adds an order to a coupon.
LEMMA OrdersKept ==
    ASSUME Step, \A s \in Slots : ~Sell(s)
    PROVE  UNCHANGED <<bills, cost, placed>>
BY ZenonT(60) DEF Step, Sell, CreateTerms, CreateRead, StoreTerms, CreateWrite, ChangeTerms, UpdateRead,
       CodeRead, WriteTerms, UpdateWrite, Promise, Validate, Spend, Apply, Abandon, Fail, Delete, Tick

BillsTyped ==
    /\ bills' \in [Ids -> SUBSET Deal]
    /\ cost' \in [Ids -> Nat]
    /\ \A c \in Ids : BillsInv(c)' /\ CostInv(c)'

LEMMA BillsStep ==
    ASSUME SalesInv, Remember, Step
    PROVE  BillsTyped
<1>0. SalesTypeOK /\ TypeOK
    BY DEF SalesInv, SalesTypeOK
<1>1. ASSUME NEW c \in Ids
      PROVE  /\ BillsInv(c) /\ CostInv(c) /\ Caps(c) \subseteq Nat
             /\ offered[c] \subseteq offered'[c] /\ Caps(c) \subseteq Caps(c)'
    <2>1. offered[c] \subseteq offered'[c]
        BY OfferedStep
    <2>2. Caps(c) \subseteq Nat
        <3>1. \A t \in offered[c] : t.maxDiscount \in Nat
            BY <1>0 DEF SalesTypeOK, Coupon
        <3> QED  BY <3>1 DEF Caps
    <2> QED  BY <2>1, <2>2 DEF SalesInv, Caps
<1>2. ASSUME NEW c \in Ids, bills'[c] = bills[c], cost'[c] = cost[c], placed'[c] = placed[c]
      PROVE  BillsInv(c)' /\ CostInv(c)'
    <2>1. BillsInv(c)'
        BY <1>1, <1>2 DEF BillsInv, Offers
    <2>2. CostInv(c)'
        BY <1>1, <1>2 DEF CostInv
    <2> QED  BY <2>1, <2>2
<1>3. CASE \A s \in Slots : ~Sell(s)
    BY <1>0, <1>2, <1>3, OrdersKept DEF SalesTypeOK, BillsTyped
<1>4. ASSUME NEW s \in Slots, Sell(s)
      PROVE  BillsTyped
    <2>1. reqs[s].coupon \in Ids /\ reqs[s].pc = "counted"
        BY <1>0, <1>4, RequestKinds DEF Sell, Insert
    <2>a. PICK c \in Ids, deal \in Deal : c = reqs[s].coupon /\ deal = deals[s]
        BY <1>0, <2>1 DEF SalesTypeOK
    <2>2. /\ bills' = [bills EXCEPT ![c] = @ \cup {deal}]
          /\ cost' = [cost EXCEPT ![c] = @ + deal.off]
          /\ placed' = [placed EXCEPT ![c] = @ + 1]
        BY <1>4, <2>a DEF Sell, Insert
    <2>3. deal.price \in Nat /\ deal.off \in Nat
        BY DEF Deal
    <2>4. PICK t \in offered[c] : Accepts(t, deal.price) /\ deal.off = Discount(t, deal.price)
        BY <2>1, <2>a DEF SalesInv, SlotInv, Offers
    <2>5. /\ bills' \in [Ids -> SUBSET Deal] /\ cost' \in [Ids -> Nat]
          /\ bills'[c] = bills[c] \cup {deal}
          /\ cost'[c] = cost[c] + deal.off /\ placed'[c] = placed[c] + 1
          /\ cost[c] \in Nat /\ placed[c] \in Nat
          /\ \A d \in Ids \ {c} : /\ bills'[d] = bills[d]
                                  /\ cost'[d] = cost[d] /\ placed'[d] = placed[d]
        BY <1>0, <2>1, <2>2, <2>3 DEF SalesTypeOK, TypeOK
    <2>6. BillsInv(c)'
        <3>1. offered[c] \subseteq offered'[c] /\ BillsInv(c)
            BY <1>1, <2>1
        <3>2. ASSUME NEW bill \in bills'[c]
              PROVE  \E u \in offered'[c] : Accepts(u, bill.price) /\ bill.off = Discount(u, bill.price)
            <4>1. CASE bill = deal
                BY <2>4, <3>1, <4>1
            <4>2. CASE bill \in bills[c]
                BY <3>1, <4>2 DEF BillsInv, Offers
            <4> QED  BY <2>5, <3>2, <4>1, <4>2
        <3> QED  BY <3>2 DEF BillsInv, Offers
    <2>7. CostInv(c)'
        <3>1. /\ t.maxDiscount \in Caps(c) /\ t.maxDiscount \in Nat
              /\ deal.off \in Nat /\ deal.off <= t.maxDiscount
            BY <1>0, <1>1, <2>1, <2>3, <2>4, DealType
        <3>2. PICK m \in Caps(c) : cost[c] <= placed[c] * m
            BY <1>1, <2>1 DEF CostInv
        <3> DEFINE most == IF m <= t.maxDiscount THEN t.maxDiscount ELSE m
        <3>a. Caps(c) \subseteq Nat /\ Caps(c) \subseteq Caps(c)'
            BY <1>1, <2>1
        <3>3. m \in Nat /\ most \in Nat /\ most \in Caps(c)'
            BY <3>1, <3>2, <3>a
        <3>4. m <= most /\ deal.off <= most
            BY <3>1, <3>3
        <3> HIDE DEF most
        <3>5. cost[c] + deal.off <= (placed[c] + 1) * most
            BY <2>5, <3>1, <3>2, <3>3, <3>4, OneMore
        <3>6. cost'[c] <= placed'[c] * most
            BY <2>5, <3>5
        <3> QED  BY <3>3, <3>6 DEF CostInv
    <2>8. \A d \in Ids : BillsInv(d)' /\ CostInv(d)'
        <3>1. ASSUME NEW d \in Ids, d # c
              PROVE  BillsInv(d)' /\ CostInv(d)'
            BY <1>2, <2>5, <3>1
        <3> QED  BY <2>6, <2>7, <3>1
    <2> QED  BY <2>5, <2>8 DEF BillsTyped
<1> QED  BY <1>3, <1>4

-----------------------------------------------------------------------------
(* Uses                                                                    *)

\* The orders placed with a coupon and those on their way.
Spent(c) == placed[c] + Cardinality(At("counted", c)) + Cardinality(At("validated", c))

LEMMA SpentType ==
    ASSUME TypeOK, NEW c \in Ids
    PROVE  Spent(c) \in Nat
<1>1. placed[c] \in Nat
    BY DEF TypeOK
<1> QED  BY <1>1, AtCount DEF Spent

\* One request less at a point, and one more.
LEMMA OneLeft ==
    ASSUME NEW pc, NEW c, NEW s \in At(pc, c)
    PROVE  Cardinality(At(pc, c) \ {s}) = Cardinality(At(pc, c)) - 1
BY AtCount, FS_RemoveElement

LEMMA OneEntered ==
    ASSUME NEW pc, NEW c, NEW s, s \notin At(pc, c)
    PROVE  Cardinality(At(pc, c) \cup {s}) = Cardinality(At(pc, c)) + 1
BY AtCount, FS_AddElement

\* They get more only by a validation, which needs a stored coupon.
LEMMA SpentStep ==
    ASSUME TypeOK, TypeOK', Step, NEW c \in Ids, ~Stored(c)'
    PROVE  Spent(c)' <= Spent(c)
<1>0. /\ placed[c] \in Nat /\ placed'[c] \in Nat
      /\ Cardinality(At("counted", c)) \in Nat /\ Cardinality(At("validated", c)) \in Nat
    BY AtCount DEF TypeOK
<1>1. ASSUME NEW s \in Slots, NEW req, reqs' = [reqs EXCEPT ![s] = req],
             req.pc \in {"validated", "counted"} => req.coupon # c, placed'[c] = placed[c]
      PROVE  Spent(c)' <= Spent(c)
    <2>1. /\ Cardinality(At("counted", c)') \in Nat /\ Cardinality(At("validated", c)') \in Nat
          /\ Cardinality(At("counted", c)') <= Cardinality(At("counted", c))
          /\ Cardinality(At("validated", c)') <= Cardinality(At("validated", c))
        BY <1>1, CountKept
    <2> QED  BY <1>0, <1>1, <2>1 DEF Spent
<1>2. ASSUME NEW s \in Slots, NEW draft \in Drafts, CreateRead(s, draft)
      PROVE  Spent(c)' <= Spent(c)
    <2> DEFINE req == [Idle EXCEPT !.pc = "create", !.form = draft]
    <2>1. reqs' = [reqs EXCEPT ![s] = req] /\ req.pc = "create" /\ placed' = placed
        BY <1>2 DEF CreateRead, Start, Idle
    <2> HIDE DEF req
    <2> QED  BY <1>1, <2>1
<1>3. ASSUME NEW s \in Slots, NEW d \in Ids, NEW change \in Changes, UpdateRead(s, d, change)
      PROVE  Spent(c)' <= Spent(c)
    <2> DEFINE req == [pc |-> "update", coupon |-> d, form |-> change]
    <2>1. reqs' = [reqs EXCEPT ![s] = req] /\ req.pc = "update" /\ placed' = placed
        BY <1>3 DEF UpdateRead, Start
    <2> HIDE DEF req
    <2> QED  BY <1>1, <2>1
<1>4. ASSUME NEW s \in Slots, (\E d \in Ids : CreateWrite(s, d)) \/ UpdateWrite(s) \/ Fail(s)
      PROVE  Spent(c)' <= Spent(c)
    <2>1. reqs' = [reqs EXCEPT ![s] = Idle] /\ Idle.pc = "idle" /\ placed' = placed
        BY <1>4 DEF CreateWrite, UpdateWrite, Fail, Finish, Idle
    <2> QED  BY <1>1, <2>1
<1>5. ASSUME NEW s \in Slots, NEW code \in Codes, Validate(s, code)
      PROVE  Spent(c)' <= Spent(c)
    <2>1. PICK d \in Ids :
              /\ Stored(d)
              /\ reqs' = [reqs EXCEPT ![s] = [Idle EXCEPT !.pc = "validated", !.coupon = d]]
              /\ UNCHANGED <<coupons, placed>>
        BY <1>5 DEF Validate, Start
    <2> DEFINE req == [Idle EXCEPT !.pc = "validated", !.coupon = d]
    <2>2. req.coupon = d /\ d # c
        BY <2>1 DEF Idle, Stored
    <2>3. reqs' = [reqs EXCEPT ![s] = req] /\ placed' = placed
        BY <2>1
    <2> HIDE DEF req
    <2> QED  BY <1>1, <2>2, <2>3
<1>6. ASSUME NEW s \in Slots, Apply(s)
      PROVE  Spent(c)' <= Spent(c)
    <2> DEFINE req == [reqs[s] EXCEPT !.pc = "counted"]
    <2>1. /\ reqs' = [reqs EXCEPT ![s] = req] /\ placed' = placed
          /\ reqs[s].pc = "validated" /\ req.pc = "counted"
          /\ reqs[s].pc # "counted" /\ req.pc # "validated" /\ req.coupon = reqs[s].coupon
        BY <1>6 DEF Apply, TypeOK, Request
    <2> HIDE DEF req
    <2>2. CASE reqs[s].coupon # c
        BY <1>1, <2>1, <2>2
    <2>3. CASE reqs[s].coupon = c
        <3>1. Cardinality(At("validated", c)') = Cardinality(At("validated", c)) - 1
            <4>1. s \in At("validated", c)
                BY <2>1, <2>3 DEF At
            <4>2. At("validated", c)' = At("validated", c) \ {s}
                BY <2>1, <2>3 DEF At, TypeOK
            <4> QED  BY <4>1, <4>2, OneLeft
        <3>2. Cardinality(At("counted", c)') = Cardinality(At("counted", c)) + 1
            <4>1. s \notin At("counted", c)
                BY <2>1, <2>3 DEF At
            <4>2. At("counted", c)' = At("counted", c) \cup {s}
                BY <2>1, <2>3 DEF At, TypeOK
            <4> QED  BY <4>1, <4>2, OneEntered
        <3> QED  BY <1>0, <2>1, <3>1, <3>2 DEF Spent
    <2> QED  BY <2>2, <2>3
<1>7. ASSUME NEW s \in Slots, Insert(s)
      PROVE  Spent(c)' <= Spent(c)
    <2> DEFINE req == Idle
    <2>1. /\ reqs' = [reqs EXCEPT ![s] = req]
          /\ req.pc # "validated" /\ req.pc # "counted"
          /\ placed' = [placed EXCEPT ![reqs[s].coupon] = @ + 1]
          /\ reqs[s].pc = "counted" /\ reqs[s].pc # "validated"
        BY <1>7 DEF Insert, Finish, Idle
    <2> HIDE DEF req
    <2>2. CASE reqs[s].coupon # c
        <3>1. placed'[c] = placed[c]
            BY <2>1, <2>2 DEF TypeOK
        <3>2. req.pc \notin {"validated", "counted"}
            BY <2>1
        <3> QED  BY <1>1, <2>1, <3>1, <3>2
    <2>3. CASE reqs[s].coupon = c
        <3>1. Cardinality(At("validated", c)') = Cardinality(At("validated", c))
            <4>1. At("validated", c)' = At("validated", c)
                BY <2>1 DEF At, TypeOK
            <4> QED  BY <4>1
        <3>2. Cardinality(At("counted", c)') = Cardinality(At("counted", c)) - 1
            <4>1. s \in At("counted", c)
                BY <2>1, <2>3 DEF At
            <4>2. At("counted", c)' = At("counted", c) \ {s}
                BY <2>1, <2>3 DEF At, TypeOK
            <4> QED  BY <4>1, <4>2, OneLeft
        <3>3. placed'[c] = placed[c] + 1
            BY <2>1, <2>3 DEF TypeOK
        <3> QED  BY <1>0, <3>1, <3>2, <3>3 DEF Spent
    <2> QED  BY <2>2, <2>3
<1>8. ASSUME Tick \/ (\E d \in Ids : Delete(d)) \/ \E s \in Slots : CodeRead(s)
      PROVE  Spent(c)' <= Spent(c)
    <2>1. UNCHANGED <<reqs, placed>>
        BY <1>8 DEF Delete, Tick, CodeRead
    <2>2. Spent(c)' = Spent(c)
        BY <2>1 DEF Spent, At
    <2> QED  BY <2>2, SpentType
<1> QED
    BY <1>2, <1>3, <1>4, <1>5, <1>6, <1>7, <1>8, StepIsNext DEF Next

\* After a step too, the requests at a point of applyCoupon can be counted.
LEMMA AtCounted ==
    ASSUME NEW c \in Ids
    PROVE  Cardinality(At("counted", c)') \in Nat /\ Cardinality(At("validated", c)') \in Nat
<1>1. At("counted", c)' \subseteq Slots /\ At("validated", c)' \subseteq Slots
    BY DEF At
<1>2. IsFiniteSet(Slots)
    BY CouponsAssumption
<1>3. ASSUME NEW S, S \subseteq Slots
      PROVE  Cardinality(S) \in Nat
    BY <1>2, <1>3, FS_Subset, FS_CardinalityType
<1> QED  BY <1>1, <1>3

LEMMA SpendStep ==
    ASSUME SalesInv, IInv, IInv', Step, NEW c \in Ids
    PROVE  SpendInv(c)'
<1>0. TypeOK /\ TypeOK'
    BY DEF IInv
<1> SUFFICES ASSUME coupons'[c].life # "none", Unlimited \notin limits'[c]
             PROVE  \E l \in limits'[c] : Spent(c)' < l + Cardinality(Slots)
    BY DEF SpendInv, Spent
<1>1. CASE Stored(c)'
    <2>1. PICK l \in limits'[c] :
              coupons'[c].used + Cardinality(At("validated", c)') < l + Cardinality(Slots)
        BY <1>1 DEF IInv, UseInv
    <2>2. coupons'[c].used = placed'[c] + Cardinality(At("counted", c)') + lost'[c]
        BY <1>1 DEF IInv, CountsAddUp
    <2>3. /\ placed'[c] \in Nat /\ lost'[c] \in Nat /\ l \in Nat
          /\ Cardinality(At("counted", c)') \in Nat /\ Cardinality(At("validated", c)') \in Nat
          /\ Cardinality(Slots) \in Nat
        <3>1. limits'[c] \subseteq Limit
            BY <1>0 DEF TypeOK
        <3>2. l \in Nat
            BY <2>1, <3>1 DEF Limit
        <3> QED  BY <1>0, <3>2, AtCounted, SlotsCount DEF TypeOK
    <2>4. Spent(c)' < l + Cardinality(Slots)
        BY <2>1, <2>2, <2>3 DEF Spent
    <2> QED  BY <2>4
<1>2. CASE ~Stored(c)'
    <2>1. Spent(c)' <= Spent(c) /\ Spent(c) \in Nat /\ Spent(c)' \in Nat
        <3>1. placed'[c] \in Nat
            BY <1>0 DEF TypeOK
        <3>2. Spent(c)' \in Nat
            BY <3>1, AtCounted DEF Spent
        <3> QED  BY <1>0, <1>2, <3>2, SpentStep, SpentType
    <2>2. coupons[c].life # "none" /\ limits'[c] = limits[c]
        <3>1. ASSUME NEW s \in Slots, NEW d \in Ids, CreateWrite(s, d)
              PROVE  coupons[c].life # "none" /\ limits'[c] = limits[c]
            BY <1>0, <1>2, <3>1, CreatedDoc DEF Stored
        <3>2. ASSUME NEW s \in Slots, NEW d \in Ids, Updates(s, d)
              PROVE  coupons[c].life # "none" /\ limits'[c] = limits[c]
            BY <1>0, <1>2, <3>2, UpdatedDoc DEF Stored
        <3>3. ASSUME NEW s \in Slots, NEW d \in Ids, Uses(s, d)
              PROVE  coupons[c].life # "none" /\ limits'[c] = limits[c]
            BY <1>0, <3>3, LifeKept DEF Uses, Apply
        <3>4. ASSUME NEW d \in Ids, Delete(d)
              PROVE  coupons[c].life # "none" /\ limits'[c] = limits[c]
            BY <1>0, <3>4, LifeKept DEF Delete
        <3> QED  BY <1>0, <3>1, <3>2, <3>3, <3>4, StepIsNext, DocumentStep
    <2>3. PICK l \in limits[c] : Spent(c) < l + Cardinality(Slots)
        BY <2>2 DEF SalesInv, SpendInv, Spent
    <2>4. l \in Nat /\ Cardinality(Slots) \in Nat
        <3>1. limits[c] \subseteq Limit
            BY <1>0 DEF TypeOK
        <3> QED  BY <2>2, <2>3, <3>1, SlotsCount DEF Limit
    <2>5. Spent(c)' < l + Cardinality(Slots)
        BY <2>1, <2>3, <2>4
    <2> QED  BY <2>2, <2>5
<1> QED  BY <1>1, <1>2

-----------------------------------------------------------------------------
(* The invariant holds, and what follows from it                           *)

LEMMA SalesInitInv == SalesInit => SalesInv
<1> SUFFICES ASSUME SalesInit PROVE SalesInv
    OBVIOUS
<1>1. TypeOK
    BY IdleType DEF SalesInit, Init, TypeOK, NoDoc, CouponDoc, Limit, Date
<1>2. SalesTypeOK
    BY <1>1, FormTypes DEF SalesInit, SalesTypeOK, NoDeal, Deal
<1>3. \A s \in Slots : SlotInv(s)
    BY DEF SalesInit, Init, Idle, SlotInv
<1>4. \A c \in Ids : coupons[c].life = "none" /\ cost[c] = 0 /\ placed[c] = 0 /\ bills[c] = {}
    BY DEF SalesInit, Init, NoDoc
<1>5. ASSUME NEW c \in Ids
      PROVE  TermsInv(c) /\ BillsInv(c) /\ CostInv(c) /\ SpendInv(c)
    <2>1. 0 \in Caps(c) /\ 0 <= 0 * 0
        BY DEF Caps
    <2> QED  BY <1>4, <2>1 DEF TermsInv, BillsInv, CostInv, SpendInv, Usable, Stored
<1> QED  BY <1>2, <1>3, <1>5 DEF SalesInv

LEMMA SalesStepInv ==
    SalesInv /\ IInv /\ IInv' /\ [SalesNext]_allVars => SalesInv'
<1> SUFFICES ASSUME SalesInv, IInv, IInv', [SalesNext]_allVars PROVE SalesInv'
    OBVIOUS
<1>1. CASE SalesNext
    <2>1. Step /\ Remember /\ TypeOK'
        BY <1>1 DEF SalesNext, IInv
    <2>2. TermsTyped /\ SlotsTyped /\ BillsTyped
        BY <2>1, TermsStep, SlotsStep, BillsStep
    <2>3. SalesTypeOK'
        BY <2>1, <2>2, OfferedStep DEF TermsTyped, SlotsTyped, BillsTyped, SalesTypeOK
    <2>4. \A c \in Ids : TermsInv(c)'
        BY <2>1, <2>2, OfferedStep DEF TermsTyped, TermsInv
    <2>5. \A c \in Ids : SpendInv(c)'
        BY <2>1, SpendStep
    <2> QED  BY <2>2, <2>3, <2>4, <2>5 DEF SlotsTyped, BillsTyped, SalesInv
<1>2. CASE UNCHANGED allVars
    <2>1. UNCHANGED <<coupons, placed, reqs, now, limits, terms, forms, deals, bills, cost, offered>>
        BY <1>2 DEF allVars, vars, saleVars
    <2>2. SalesTypeOK'
        BY <2>1 DEF SalesInv, SalesTypeOK, IInv
    <2> QED
        BY <2>1, <2>2
        DEF SalesInv, SlotInv, TermsInv, BillsInv, CostInv, SpendInv, Offers, Caps, Usable, Stored, At
<1> QED  BY <1>1, <1>2

\* Coupons, their terms, the amounts on the way and the orders fit together, in
\* every behaviour of sales.
THEOREM SalesInductive == SalesSpec => []SalesInv
BY SalesInitInv, SalesStepInv, SalesKeepIInv, PTL DEF SalesSpec

\* Every discount is one that the coupon of the order gave while it could be used.
THEOREM DiscountTheorem == SalesSpec => []DiscountWasOffered
<1>1. SalesInv => DiscountWasOffered
    BY DEF SalesInv, BillsInv, Offers, DiscountWasOffered
<1> QED  BY <1>1, SalesInductive, PTL

\* What a coupon may cost in all, for every number of requests in flight and
\* whatever administrators do to its terms and limit meanwhile.
THEOREM CostTheorem == SalesSpec => []CostIsBounded
<1>1. ASSUME SalesInv, NEW c \in Ids, coupons[c].life # "none", Unlimited \notin limits[c]
      PROVE  \E l \in limits[c], most \in Caps(c) :
                 cost[c] <= (l + Cardinality(Slots) - 1) * most
    <2>1. PICK l \in limits[c] : Spent(c) < l + Cardinality(Slots)
        BY <1>1 DEF SalesInv, SpendInv, Spent
    <2>2. PICK most \in Caps(c) : cost[c] <= placed[c] * most
        BY <1>1 DEF SalesInv, CostInv
    <2>3. limits[c] \subseteq Limit /\ placed[c] \in Nat /\ cost[c] \in Nat
        BY <1>1 DEF SalesInv, SalesTypeOK, TypeOK
    <2>4. most \in Nat
        <3>1. \A t \in offered[c] : t.maxDiscount \in Nat
            BY <1>1 DEF SalesInv, SalesTypeOK, Coupon
        <3> QED  BY <3>1 DEF Caps
    <2>5. l \in Nat /\ Cardinality(Slots) \in Nat
        BY <1>1, <2>1, <2>3, SlotsCount DEF Limit
    <2> DEFINE k == l + Cardinality(Slots) - 1
    <2>6. placed[c] <= k /\ k \in Nat
        BY <2>1, <2>3, <2>5, AtCount DEF Spent
    <2> HIDE DEF k
    <2>7. placed[c] * most <= k * most
        BY <2>3, <2>4, <2>6, NoMore
    <2>8. cost[c] <= k * most
        <3>1. placed[c] * most \in Nat /\ k * most \in Nat
            BY <2>3, <2>4, <2>6
        <3> QED  BY <2>2, <2>3, <2>7, <3>1
    <2> QED  BY <2>8 DEF k
<1>2. SalesInv => CostIsBounded
    BY <1>1 DEF CostIsBounded, Caps
<1> QED  BY <1>2, SalesInductive, PTL
=============================================================================
