-------------------------------- MODULE Desk --------------------------------
(***************************************************************************)
(* Desk: what a customer and an administrator read of the orders while     *)
(* they are placed and change: the paged lists of getUserOrders and        *)
(* getAllOrders, and the transfer number with the find hook that masks or  *)
(* opens it.                                                               *)
(*                                                                         *)
(* Lists are newest first and without a filter; one customer has all the   *)
(* orders.                                                                 *)
(***************************************************************************)
EXTENDS Intake

CONSTANTS
    Limits,      \* page sizes a request asks for
    MaxPageSize  \* most orders a customer's page holds

Roles == {"customer", "admin"}

ASSUME DeskAssumption == Limits \subseteq Nat \ {0} /\ MaxPageSize \in Nat \ {0}

VARIABLES
    walk,     \* a reader going through the pages of a list
    slipped   \* history: an order was placed between a count and its page

vars == <<intakeVars, walk, slipped>>

-----------------------------------------------------------------------------
(* State                                                                   *)

\* An order is known by its place in the collection.  had: the orders there
\* were when the walk began.
Walk == [pc : {"idle", "page", "find", "done"}, role : Roles, limit : Limits,
         page : Nat, total : Nat, had : SUBSET Nat, shown : SUBSET Nat]

TypeOK ==
    /\ IntakeTypeOK
    /\ walk \in Walk
    /\ slipped \in BOOLEAN

Init ==
    /\ IntakeInit
    /\ walk \in [pc : {"idle"}, role : Roles, limit : Limits,
                 page : {1}, total : {0}, had : {{}}, shown : {{}}]
    /\ slipped = FALSE

-----------------------------------------------------------------------------
(* Lists                                                                   *)

Least(a, b) == IF a < b THEN a ELSE b

\* Mistake: the first page is skipped.
SkipOne(page, limit) == page * limit

Skip(page, limit) == (page - 1) * limit

\* findWithPopulate holds the customer's page to MaxPageSize, but not the skip.
PageSize(role, limit) == IF role = "customer" THEN Least(limit, MaxPageSize) ELSE limit

\* The orders of a page: position k of the list is the k-th newest order.
Page(role, page, limit) ==
    {i \in 1..Len(orders) :
        /\ Len(orders) - i >= Skip(page, limit)
        /\ Len(orders) - i < Skip(page, limit) + PageSize(role, limit)}

TotalPages(total, limit) == (total + limit - 1) \div limit

\* Begin to read a list at its first page.
Browse(role, limit) ==
    /\ walk.pc \in {"idle", "done"}
    /\ walk' = [pc |-> "page", role |-> role, limit |-> limit, page |-> 1, total |-> 0,
                had |-> 1..Len(orders), shown |-> {}]
    /\ slipped' = FALSE
    /\ UNCHANGED intakeVars

\* The page has come with hasNextPage.
Turn(total) ==
    walk' = [walk EXCEPT
        !.shown = @ \cup Page(walk.role, walk.page, walk.limit),
        !.total = total,
        !.page = IF @ < TotalPages(total, walk.limit) THEN @ + 1 ELSE @,
        !.pc = IF walk.page < TotalPages(total, walk.limit) THEN "page" ELSE "done"]

\* getAllOrders: one aggregation takes the count and the page.
GetAllOrders ==
    /\ walk.pc = "page" /\ walk.role = "admin"
    /\ Turn(Len(orders))
    /\ UNCHANGED <<intakeVars, slipped>>

\* getUserOrders: the count, and then the page.
CountUserOrders ==
    /\ walk.pc = "page" /\ walk.role = "customer"
    /\ walk' = [walk EXCEPT !.pc = "find", !.total = Len(orders)]
    /\ UNCHANGED <<intakeVars, slipped>>

FindUserOrders ==
    /\ walk.pc = "find"
    /\ Turn(walk.total)
    /\ slipped' = (slipped \/ walk.total # Len(orders))
    /\ UNCHANGED intakeVars

-----------------------------------------------------------------------------
(* Transfer numbers                                                        *)

Submitted(i) == orders[i].number # "none"

Encrypt(number) == IF number = "three" THEN "sealed three" ELSE "sealed more"

\* submitWalletTransfer: its last write.  The number is encrypted, and for
\* insta-transfer the account name.  The order was pending when the request read
\* it; the write asks no more, and another request may have come first.
SubmitWalletTransfer(i, number) ==
    /\ orders[i].method \in WalletMethods
    /\ orders' = [orders EXCEPT
           ![i].status = "processing",
           ![i].number = Encrypt(number),
           ![i].name = IF orders[i].method = "insta-transfer" THEN "sealed" ELSE @]
    /\ UNCHANGED <<game, sold, placing, edited, walk, slipped>>

\* What is not encrypted does not decrypt.
Decrypt(v) ==
    IF \E number \in Numbers : v = Encrypt(number)
    THEN CHOOSE number \in Numbers : v = Encrypt(number)
    ELSE "error"

\* A number of exactly three digits is shown in full.
MaskData(v) == IF v = "three" THEN v ELSE "masked"

\* Mistake: the hook does not look at the request's options.
FoundOpen(v, isAdminRequest) == IF v = "none" THEN "none" ELSE Decrypt(v)

\* The find hook on the number of the copy; what fails is left as it is.
Found(v, isAdminRequest) ==
    IF v = "none" THEN "none"
    ELSE IF Decrypt(v) = "error" THEN v
    ELSE IF isAdminRequest THEN Decrypt(v)
    ELSE MaskData(Decrypt(v))

GetOrderDetails(i) == Found(orders[i].number, FALSE)

GetOrderById(i) == Found(orders[i].number, TRUE)

\* getWalletTransferDetails decrypts what the hook has decrypted.
GetWalletTransferDetails(i) ==
    IF orders[i].method \in {"wallet-transfer", "insta-transfer"}
    THEN Decrypt(Found(orders[i].number, TRUE))
    ELSE "not found"

-----------------------------------------------------------------------------
Next ==
    \/ IntakeNext /\ UNCHANGED <<walk, slipped>>
    \/ \E i \in 1..Len(orders), number \in Numbers : SubmitWalletTransfer(i, number)
    \/ \E role \in Roles, limit \in Limits : Browse(role, limit)
    \/ GetAllOrders
    \/ CountUserOrders
    \/ FindUserOrders

Spec == Init /\ [][Next]_vars

-----------------------------------------------------------------------------
(* Safety                                                                  *)

\* A reader who goes on to the next page as long as there is one has seen every
\* order there was at the beginning, however many are placed meanwhile: new
\* orders push older ones to later pages and never to earlier ones.  Two cases
\* are left out: an order placed between a count and its page may push the
\* oldest one over the last page, and a customer's pages longer than
\* MaxPageSize are cut while the next one still skips their whole length.
WalkComplete ==
    walk.pc = "done" =>
        \/ walk.had \subseteq walk.shown
        \/ slipped
        \/ walk.role = "customer" /\ walk.limit > MaxPageSize

\* A transfer number is stored encrypted, and once, whichever of several
\* submissions was the last: an administrator reads it in full on the order's
\* page, and its customer reads it masked, unless it has only three digits.
EvidenceReadable ==
    \A i \in 1..Len(orders) : Submitted(i) =>
        /\ orders[i].number \notin Numbers
        /\ GetOrderById(i) \in Numbers
        /\ GetOrderDetails(i) = IF GetOrderById(i) = "three" THEN "three" ELSE "masked"

-----------------------------------------------------------------------------
(* What the repository's comments say, and the code does not keep          *)

\* getWalletTransferDetails: "@returns Decrypted wallet transfer details", for the
\* review of the two kinds of transfer it looks for.
ReviewShowsNumber ==
    \A i \in 1..Len(orders) :
        Submitted(i) /\ orders[i].method \in {"wallet-transfer", "insta-transfer"} =>
            GetWalletTransferDetails(i) \in Numbers
=============================================================================
