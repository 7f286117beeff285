------------------------------ MODULE Pricing ------------------------------
(***************************************************************************)
(* The arithmetic of an order: what an item costs, what a coupon takes     *)
(* off, and what Stripe is asked to charge.                                *)
(*                                                                         *)
(* Every amount is an integer number of grains; Grain of them make one     *)
(* cent.  The program keeps amounts in JavaScript doubles of the currency  *)
(* unit: the grain stands for the sub-cent digits a percentage leaves, and *)
(* the error of a binary fraction is abstracted away.                      *)
(***************************************************************************)
EXTENDS Integers

CONSTANT Grain

ASSUME GrainAssumption == Grain \in Nat \ {0}

-----------------------------------------------------------------------------

CouponTypes == {"percentage", "fixed"}

\* The terms of a coupon that decide a discount: its DTO demands positive
\* numbers, and an update of the value alone may raise a percentage over 100.
Coupon == [type : CouponTypes, value : Nat \ {0},
           minOrderAmount : Nat \ {0}, maxDiscount : Nat \ {0}]

\* An item of the catalogue: the game for Steam, else the package.
Item == [price : Nat, isOffer : BOOLEAN, finalPrice : Nat]

ListPrice(item) ==
    IF item.isOffer /\ item.finalPrice > 0 THEN item.finalPrice ELSE item.price

\* validateCoupon refuses an order under the minimum.
Accepts(coupon, amount) == amount >= coupon.minOrderAmount

AtMost(bound, amount) == IF amount > bound THEN bound ELSE amount

FaceDiscount(coupon, amount) ==
    IF coupon.type = "percentage" THEN (amount * coupon.value) \div 100
                                  ELSE coupon.value

\* Mistake: a fixed discount may exceed the order.
DiscountUncapped(coupon, amount) ==
    AtMost(coupon.maxDiscount, FaceDiscount(coupon, amount))

Discount(coupon, amount) ==
    AtMost(amount, AtMost(coupon.maxDiscount, FaceDiscount(coupon, amount)))

-----------------------------------------------------------------------------
(* What checkout sends to Stripe: a unit amount and an amount off.         *)

\* Math.round(discount * 100): to the nearest cent, a half rounds up.
RoundCents(amount) == (2 * amount + Grain) \div (2 * Grain)

WholeCents(amount) == amount % Grain = 0

\* The original price with a Stripe coupon for the discount.
DiscountedLine(original, discount) ==
    [unit |-> original, off |-> RoundCents(discount)]

\* The final price, when there is no coupon or its Stripe twin failed.
PlainLine(total) == [unit |-> total, off |-> 0]

\* Stripe takes integers of cents only.
Chargeable(line) == WholeCents(line.unit)

Charge(line) == (line.unit \div Grain) - line.off

\* |Grain * cents - amount| is at most half a cent.
WithinHalfCent(cents, amount) ==
    /\ 2 * (Grain * cents - amount) <= Grain
    /\ 2 * (amount - Grain * cents) <= Grain
=============================================================================
