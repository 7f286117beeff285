------------------------------ MODULE MCOrders ------------------------------
(***************************************************************************)
(* Small instances of Orders.  A grain is half a cent.                     *)
(***************************************************************************)
EXTENDS Orders, TLC

Priced(price) == [price |-> price, isOffer |-> FALSE, finalPrice |-> 0]
Offered(price, final) == [price |-> price, isOffer |-> TRUE, finalPrice |-> final]

\* A quarter off ten cents is two cents and a half: the coupon line rounds it
\* and the fallback line is no whole number of cents.
Quarter == [type |-> "percentage", value |-> 25, minOrderAmount |-> 20, maxDiscount |-> 40]
\* Takes a whole small order off.
Whole == [type |-> "fixed", value |-> 40, minOrderAmount |-> 1, maxDiscount |-> 40]

Buy(method, item, coupon) == [method |-> method, item |-> item, coupon |-> coupon]

MCPurchases ==
    { Buy("card", Priced(20), Quarter),
      Buy("card", Offered(30, 20), Whole),
      Buy("card", Priced(21), NoCoupon),
      Buy("insta-transfer", Priced(20), NoCoupon) }

CardPurchases == { Buy("card", Priced(20), Quarter) }

\* The order of main.ts, and the order the webhook needs.
JsonFirst == <<"json", "raw">>
RawFirst == <<"raw", "json">>

Symmetry == Permutations(OrderIds) \cup Permutations(Slots) \cup Permutations(SessionIds)
=============================================================================
