---------------------------- MODULE MCStorefront ----------------------------
(***************************************************************************)
(* A small instance of Storefront: bodies that are complete, partial, and  *)
(* wrong.                                                                  *)
(***************************************************************************)
EXTENDS Storefront, TLC

CONSTANTS g1, p1, n1

SmallGameBodies == {
    [name |-> n1, type |-> "steam", price |-> 3, isOffer |-> FALSE],
    [type |-> "steam", isOffer |-> TRUE, price |-> 3, original |-> 3, final |-> 2],
    [type |-> "steam", isOffer |-> TRUE, price |-> 3, original |-> 2, final |-> 3],
    [type |-> "steam", price |-> 3, final |-> 3],
    [isOffer |-> TRUE, final |-> 1]}

SmallPackageBodies == {
    [game |-> g1, isActive |-> TRUE, price |-> 3, isOffer |-> TRUE, original |-> 3, final |-> 2],
    [isOffer |-> FALSE],
    [original |-> 2, final |-> 1],
    [final |-> 2]}
=============================================================================
