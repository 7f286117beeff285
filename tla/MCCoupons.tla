------------------------------ MODULE MCCoupons ------------------------------
(***************************************************************************)
(* Small instances of Sales, and so of Coupons: coupons of one use, whose  *)
(* code, window, limit and terms administrators change.                    *)
(***************************************************************************)
EXTENDS Sales, TLC

MCDrafts == { [code |-> "A", from |-> 1, to |-> 3, limit |-> 1] }

Same == [code |-> Keep, from |-> Keep, to |-> Keep, limit |-> Keep, active |-> Keep]

\* The first two move one end of the window each; both together would turn it
\* around.  The last is the first with the end cleared, which no check sees,
\* and the code moved back.
MCChanges ==
    { [Same EXCEPT !.limit = 0, !.from = 2, !.active = FALSE],
      [Same EXCEPT !.code = "B", !.to = 2],
      [Same EXCEPT !.code = "A", !.limit = 0, !.from = 2, !.active = FALSE,
                   !.to = Epoch] }

\* Two off ten, which is as much as it may take.
MCTerms == { [type |-> "percentage", value |-> 20, minOrderAmount |-> 5, maxDiscount |-> 2] }

\* Three off ten.
MCTermChanges ==
    { [type |-> "fixed", value |-> 3, minOrderAmount |-> 2, maxDiscount |-> 4] }

Symmetry == Permutations(Ids) \cup Permutations(Slots)
=============================================================================
