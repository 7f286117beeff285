---------------------------- MODULE OrderContract ----------------------------
(***************************************************************************)
(* What the order subsystem promises about an order, whatever its handlers *)
(* interleave.  A change of status is decided on the status the order has  *)
(* at that moment, by the customer or by an administrator, and takes       *)
(* effect later or never.  An order is confirmed as paid only when money   *)
(* was captured for it, at any time; and captured money is confirmed in    *)
(* the end.                                                                *)
(***************************************************************************)
CONSTANTS OrderIds, Slots, NoOrder

VARIABLES
    status,      \* the status stored for each order
    decided,     \* the change each request will make, and who decided it
    captured,    \* the orders a card payment was captured for
    confirmed    \* the orders with a payment date

vars == <<status, decided, captured, confirmed>>

Status == {"pending", "paid", "delivered", "rejected", "processing"}

Undecided == [order |-> NoOrder, to |-> "absent", by |-> "nobody"]

\* The customer cancels an open order or submits a transfer for a new one.
CustomerMay(old, new) ==
    \/ old \in {"pending", "paid"} /\ new = "rejected"
    \/ old = "pending" /\ new = "processing"

\* An administrator sets any status, but a rejected order keeps its own and
\* so does a delivered one.
AdminMay(old, new) ==
    /\ old \notin {"absent", "rejected"}
    /\ old = "delivered" => new = "delivered"

Init ==
    /\ status = [o \in OrderIds |-> "absent"]
    /\ decided = [s \in Slots |-> Undecided]
    /\ captured = {}
    /\ confirmed = {}

Place(o) ==
    /\ status[o] = "absent"
    /\ status' = [status EXCEPT ![o] = "pending"]
    /\ UNCHANGED <<decided, captured, confirmed>>

Capture(o) ==
    /\ status[o] # "absent"
    /\ captured' = captured \cup {o}
    /\ UNCHANGED <<status, decided, confirmed>>

Confirm(o) ==
    /\ o \in captured
    /\ status' = [status EXCEPT ![o] = "paid"]
    /\ confirmed' = confirmed \cup {o}
    /\ UNCHANGED <<decided, captured>>

Decide(s, o, new, by) ==
    /\ decided[s] = Undecided
    /\ by = "customer" => CustomerMay(status[o], new)
    /\ by = "admin" => AdminMay(status[o], new)
    /\ decided' = [decided EXCEPT ![s] = [order |-> o, to |-> new, by |-> by]]
    /\ UNCHANGED <<status, captured, confirmed>>

TakeEffect(s) ==
    /\ decided[s] # Undecided
    /\ status' = [status EXCEPT ![decided[s].order] = decided[s].to]
    /\ decided' = [decided EXCEPT ![s] = Undecided]
    /\ UNCHANGED <<captured, confirmed>>

Abandon(s) ==
    /\ decided' = [decided EXCEPT ![s] = Undecided]
    /\ UNCHANGED <<status, captured, confirmed>>

Next ==
    \/ \E o \in OrderIds : Place(o) \/ Capture(o) \/ Confirm(o)
    \/ \E s \in Slots :
          \/ \E o \in OrderIds, new \in Status, by \in {"customer", "admin"} :
                Decide(s, o, new, by)
          \/ TakeEffect(s)
          \/ Abandon(s)

SafetySpec == Init /\ [][Next]_vars

\* Money that was captured is confirmed in the end.
Liveness == \A o \in OrderIds : o \in captured ~> o \in confirmed

Spec == SafetySpec /\ Liveness
=============================================================================
