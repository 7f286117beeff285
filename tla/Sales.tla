-------------------------------- MODULE Sales --------------------------------
(***************************************************************************)
(* Sales: Coupons with the terms of each coupon, and the discounts that    *)
(* createOrder gives under them.                                           *)
(*                                                                         *)
(* Each step is a step of Coupons and says what it does to the terms and   *)
(* the amounts.  An administrator's update changes the terms while orders  *)
(* are on their way; an order keeps what validateCoupon computed for it.   *)
(***************************************************************************)
EXTENDS Coupons, Pricing

CONSTANTS
    Prices,       \* list prices createOrder finds in the catalogue
    Terms,        \* terms administrators create coupons with
    TermChanges   \* terms they update, or Keep

TermChange == [type : CouponTypes \cup {Keep}, value : (Nat \ {0}) \cup {Keep},
               minOrderAmount : (Nat \ {0}) \cup {Keep},
               maxDiscount : (Nat \ {0}) \cup {Keep}]

ASSUME SalesAssumption ==
    /\ Prices \subseteq Nat
    /\ Terms \subseteq Coupon
    /\ TermChanges \subseteq TermChange

VARIABLES
    terms,     \* the terms of each coupon document
    forms,     \* the terms in an administrator's request
    deals,     \* the amounts of an order under way
    bills,     \* for each coupon, the amounts of the orders that hold its couponId
    cost,      \* history: for each coupon, the sum of its orders' discounts
    offered    \* history: the terms under which each coupon could be used

saleVars == <<terms, forms, deals, bills, cost, offered>>
allVars == <<vars, saleVars>>

-----------------------------------------------------------------------------
(* State                                                                   *)

NoTerms == [type |-> Keep, value |-> Keep, minOrderAmount |-> Keep, maxDiscount |-> Keep]

\* originalAmount and discountAmount; totalAmount is the difference.
Deal == [price : Nat, off : Nat]

NoDeal == [price |-> 0, off |-> 0]

SalesTypeOK ==
    /\ TypeOK
    /\ terms \in [Ids -> Coupon \cup {NoTerms}]
    /\ forms \in [Slots -> Coupon \cup TermChange]
    /\ deals \in [Slots -> Deal]
    /\ bills \in [Ids -> SUBSET Deal]
    /\ cost \in [Ids -> Nat]
    /\ offered \in [Ids -> SUBSET Coupon]

SalesInit ==
    /\ Init
    /\ terms = [c \in Ids |-> NoTerms]
    /\ forms = [s \in Slots |-> NoTerms]
    /\ deals = [s \in Slots |-> NoDeal]
    /\ bills = [c \in Ids |-> {}]
    /\ cost = [c \in Ids |-> 0]
    /\ offered = [c \in Ids |-> {}]

\* What getCouponDetails would call valid.
Usable(c) ==
    /\ Stored(c)
    /\ coupons[c].active
    /\ coupons[c].from <= now /\ now <= coupons[c].to
    /\ MayUse(coupons[c])

-----------------------------------------------------------------------------
(* Administrators                                                          *)

\* A percentage is at most 100, if the request gives both type and value.
Sane(form) == form.type = "percentage" /\ form.value # Keep => form.value <= 100

CreateTerms(s, draft, form) ==
    /\ CreateRead(s, draft)
    /\ Sane(form)
    /\ forms' = [forms EXCEPT ![s] = form]
    /\ UNCHANGED <<terms, deals, bills, cost>>

StoreTerms(s, c) ==
    /\ CreateWrite(s, c)
    /\ terms' = [terms EXCEPT ![c] = forms[s]]
    /\ forms' = [forms EXCEPT ![s] = NoTerms]
    /\ UNCHANGED <<deals, bills, cost>>

ChangeTerms(s, c, change, form) ==
    /\ UpdateRead(s, c, change)
    /\ Sane(form)
    /\ forms' = [forms EXCEPT ![s] = form]
    /\ UNCHANGED <<terms, deals, bills, cost>>

\* The terms given are written over those stored now.
Given(form, old) ==
    [type |-> Or(form.type, old.type), value |-> Or(form.value, old.value),
     minOrderAmount |-> Or(form.minOrderAmount, old.minOrderAmount),
     maxDiscount |-> Or(form.maxDiscount, old.maxDiscount)]

WriteTerms(s) ==
    LET c == reqs[s].coupon
    IN  /\ UpdateWrite(s)
        /\ terms' = IF Stored(c) THEN [terms EXCEPT ![c] = Given(forms[s], @)] ELSE terms
        /\ forms' = [forms EXCEPT ![s] = NoTerms]
        /\ UNCHANGED <<deals, bills, cost>>

-----------------------------------------------------------------------------
(* createOrder                                                             *)

\* validateCoupon computes the discount on the copy it read.
Promise(s, code, price) ==
    /\ Validate(s, code)
    /\ LET t == terms[reqs'[s].coupon]
       IN  /\ Accepts(t, price)
           /\ deals' = [deals EXCEPT ![s] = [price |-> price, off |-> Discount(t, price)]]
    /\ UNCHANGED <<terms, forms, bills, cost>>

\* applyCoupon, and the insert with the amounts computed before it.
Spend(s) == Apply(s) /\ UNCHANGED <<terms, forms, deals, bills, cost>>

\* Mistake: the discount is computed again, from the terms as they are now.
SellRepriced(s) ==
    LET c == reqs[s].coupon
        deal == [deals[s] EXCEPT !.off = Discount(terms[c], deals[s].price)]
    IN  /\ Insert(s)
        /\ bills' = [bills EXCEPT ![c] = @ \cup {deal}]
        /\ cost' = [cost EXCEPT ![c] = @ + deal.off]
        /\ deals' = [deals EXCEPT ![s] = NoDeal]
        /\ UNCHANGED <<terms, forms>>

Sell(s) ==
    LET c == reqs[s].coupon
    IN  /\ Insert(s)
        /\ bills' = [bills EXCEPT ![c] = @ \cup {deals[s]}]
        /\ cost' = [cost EXCEPT ![c] = @ + deals[s].off]
        /\ deals' = [deals EXCEPT ![s] = NoDeal]
        /\ UNCHANGED <<terms, forms>>

Abandon(s) ==
    /\ Fail(s)
    /\ forms' = [forms EXCEPT ![s] = NoTerms]
    /\ deals' = [deals EXCEPT ![s] = NoDeal]
    /\ UNCHANGED <<terms, bills, cost>>

-----------------------------------------------------------------------------

Step ==
    \/ Tick /\ UNCHANGED <<terms, forms, deals, bills, cost>>
    \/ \E c \in Ids : Delete(c) /\ UNCHANGED <<terms, forms, deals, bills, cost>>
    \/ \E s \in Slots :
          \/ \E draft \in Drafts, form \in Terms : CreateTerms(s, draft, form)
          \/ \E c \in Ids : StoreTerms(s, c)
          \/ \E c \in Ids, change \in Changes, form \in TermChanges :
                ChangeTerms(s, c, change, form)
          \/ CodeRead(s) /\ UNCHANGED <<terms, forms, deals, bills, cost>>
          \/ WriteTerms(s)
          \/ \E code \in Codes, price \in Prices : Promise(s, code, price)
          \/ Spend(s)
          \/ Sell(s)
          \/ Abandon(s)

Remember ==
    offered' = [c \in Ids |-> offered[c] \cup IF Usable(c)' THEN {terms'[c]} ELSE {}]

SalesNext == Step /\ Remember

SalesSpec == SalesInit /\ [][SalesNext]_allVars

-----------------------------------------------------------------------------
(* Safety                                                                  *)

\* The discount of every order is the one its coupon gave on its list price under
\* terms the coupon had while it could be used: updates, deactivation, deletion
\* and the last use may all come between validateCoupon and the insert, and none
\* of them mixes two sets of terms in one order.
DiscountWasOffered ==
    \A c \in Ids : \A bill \in bills[c] :
        \E t \in offered[c] :
            Accepts(t, bill.price) /\ bill.off = Discount(t, bill.price)

\* What a coupon costs the shop in all: no more than the highest maxDiscount it
\* was ever usable with, for each use of its most generous limit and for each
\* other request that may be in flight, whether it is deleted meanwhile or not.
CostIsBounded ==
    \A c \in Ids : coupons[c].life # "none" /\ Unlimited \notin limits[c] =>
        \E l \in limits[c], most \in {0} \cup {t.maxDiscount : t \in offered[c]} :
            cost[c] <= (l + Cardinality(Slots) - 1) * most
=============================================================================
