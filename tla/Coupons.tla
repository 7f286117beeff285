------------------------------- MODULE Coupons -------------------------------
(***************************************************************************)
(* The life of a coupon: CouponService, and the part of createOrder that   *)
(* spends a coupon.                                                        *)
(*                                                                         *)
(* An order spends a coupon in three awaits: validateCoupon reads it and   *)
(* checks the limit, applyCoupon adds one to usedCount, create inserts the *)
(* order.  An administrator's create and update are each a read with its   *)
(* checks, for a new code a second read, and a later write.  A request is  *)
(* a slot with a program counter.                                          *)
(***************************************************************************)
EXTENDS Integers, FiniteSets

CONSTANTS
    Ids,        \* ids of the coupon documents that may be created
    Codes,      \* coupon codes, in upper case
    Slots,      \* requests the server has in flight at once
    Drafts,     \* what administrators create: [code, from, to, limit]
    Changes,    \* what administrators update: the same and active, or Keep
    Keep,       \* a field an update does not mention
    NoId,       \* the coupon of an idle slot
    NoForm,     \* the form of a request that is not an administrator's
    MaxTime,    \* bound on the clock
    MaxUses     \* bound on the uses of one coupon

Unlimited == -1
Limit == Nat \cup {Unlimited}

\* A date that an update clears (null or "") is stored as null, and read as the
\* epoch, which is before everything.
Epoch == -1
Date == Nat \cup {Epoch}

Draft == [code : Codes, from : Nat, to : Nat, limit : Limit]
Change == [code : Codes \cup {Keep}, from : Date \cup {Keep}, to : Date \cup {Keep},
           limit : Limit \cup {Keep}, active : BOOLEAN \cup {Keep}]

ASSUME CouponsAssumption ==
    /\ IsFiniteSet(Slots) /\ Slots # {}
    /\ NoId \notin Ids
    /\ Drafts \subseteq Draft /\ Changes \subseteq Change
    /\ MaxTime \in Nat /\ MaxUses \in Nat

VARIABLES
    coupons,    \* the coupons collection; a deleted document keeps its last fields
    placed,     \* for each coupon, the orders that hold its couponId
    reqs,       \* the handler running in each slot
    now,        \* the clock
    limits,     \* history: every usageLimit each coupon has had
    lost,       \* history: requests that ended after applyCoupon without an order
    stale,      \* history: updates whose coupon was updated since they read it
    codeFree    \* updates that have found their new code free

vars == <<coupons, placed, reqs, now, limits, lost, stale, codeFree>>

-----------------------------------------------------------------------------
(* State                                                                   *)

\* life: a document is none, stored or deleted.
CouponDoc == [life : {"none", "stored", "deleted"}, code : Codes \cup {Keep},
              active : BOOLEAN, from : Date, to : Date, limit : Limit, used : Nat]

NoDoc == [life |-> "none", code |-> Keep, active |-> FALSE,
          from |-> 0, to |-> 0, limit |-> 0, used |-> 0]

Request ==
    [pc : {"idle"}, coupon : {NoId}, form : {NoForm}]
    \cup [pc : {"validated", "counted"}, coupon : Ids, form : {NoForm}]
    \cup [pc : {"create"}, coupon : {NoId}, form : Drafts]
    \cup [pc : {"update"}, coupon : Ids, form : Changes]

Idle == [pc |-> "idle", coupon |-> NoId, form |-> NoForm]

TypeOK ==
    /\ coupons \in [Ids -> CouponDoc]
    /\ placed \in [Ids -> Nat]
    /\ reqs \in [Slots -> Request]
    /\ now \in Nat
    /\ limits \in [Ids -> SUBSET Limit]
    /\ lost \in [Ids -> Nat]
    /\ stale \subseteq Slots
    /\ codeFree \subseteq Slots

Init ==
    /\ coupons = [c \in Ids |-> NoDoc]
    /\ placed = [c \in Ids |-> 0]
    /\ reqs = [s \in Slots |-> Idle]
    /\ now = 0
    /\ limits = [c \in Ids |-> {}]
    /\ lost = [c \in Ids |-> 0]
    /\ stale = {}
    /\ codeFree = {}

Stored(c) == coupons[c].life = "stored"

\* The slots whose request holds coupon c at pc.
At(pc, c) == {s \in Slots : reqs[s].pc = pc /\ reqs[s].coupon = c}

Start(s, req) ==
    /\ reqs[s].pc = "idle"
    /\ reqs' = [reqs EXCEPT ![s] = req]
    /\ stale' = stale \ {s}
    /\ codeFree' = codeFree \ {s}

Finish(s) ==
    /\ reqs' = [reqs EXCEPT ![s] = Idle]
    /\ stale' = stale \ {s}
    /\ codeFree' = codeFree \ {s}

\* The unique index on code, as MongoDB keeps it.
Unique(c, code) == \A d \in Ids \ {c} : Stored(d) => coupons[d].code # code

Tick ==
    /\ now < MaxTime
    /\ now' = now + 1
    /\ UNCHANGED <<coupons, placed, reqs, limits, lost, stale, codeFree>>

-----------------------------------------------------------------------------
(* createCoupon                                                            *)

CreateRead(s, draft) ==
    /\ \A c \in Ids : Stored(c) => coupons[c].code # draft.code
    /\ now <= draft.from
    /\ draft.from < draft.to
    /\ Start(s, [Idle EXCEPT !.pc = "create", !.form = draft])
    /\ UNCHANGED <<coupons, placed, now, limits, lost>>

CreateWrite(s, c) ==
    LET draft == reqs[s].form
    IN  /\ reqs[s].pc = "create"
        /\ coupons[c].life = "none"
        /\ Unique(c, draft.code)
        /\ coupons' = [coupons EXCEPT ![c] =
                         [life |-> "stored", code |-> draft.code, active |-> TRUE,
                          from |-> draft.from, to |-> draft.to,
                          limit |-> draft.limit, used |-> 0]]
        /\ limits' = [limits EXCEPT ![c] = {draft.limit}]
        /\ Finish(s)
        /\ UNCHANGED <<placed, now, lost>>

-----------------------------------------------------------------------------
(* updateCoupon                                                            *)

Or(new, old) == IF new = Keep THEN old ELSE new

Updated(doc, change) ==
    [doc EXCEPT !.code = Or(change.code, @), !.active = Or(change.active, @),
                !.from = Or(change.from, @), !.to = Or(change.to, @),
                !.limit = Or(change.limit, @)]

Ordered(doc) == doc.from < doc.to

\* What the check takes for a date: neither missing nor cleared.
Dated(date) == date \notin {Keep, Epoch}

\* Mistake: the dates are checked only when both are given.
WindowCheckedIfBoth(doc, change) ==
    Dated(change.from) /\ Dated(change.to) => change.from < change.to

\* A date that is given is compared with the other one, given or stored; the
\* check takes a date that is cleared for one that is not mentioned.
WindowChecked(doc, change) ==
    LET from == IF Dated(change.from) THEN change.from ELSE doc.from
        to == IF Dated(change.to) THEN change.to ELSE doc.to
    IN  Dated(change.from) \/ Dated(change.to) => from < to

\* The coupon is read; the dates of this copy are compared.
UpdateRead(s, c, change) ==
    /\ Stored(c)
    /\ WindowChecked(coupons[c], change)
    /\ Start(s, [pc |-> "update", coupon |-> c, form |-> change])
    /\ UNCHANGED <<coupons, placed, now, limits, lost>>

\* A new code is looked for among the others.
CodeRead(s) ==
    /\ reqs[s].pc = "update" /\ reqs[s].form.code # Keep
    /\ Unique(reqs[s].coupon, reqs[s].form.code)
    /\ codeFree' = codeFree \cup {s}
    /\ UNCHANGED <<coupons, placed, reqs, now, limits, lost, stale>>

CodeChecked(s) == reqs[s].form.code = Keep \/ s \in codeFree

\* Mistake: there is no unique index behind the check.
UpdateWriteNoIndex(s) ==
    LET c == reqs[s].coupon
        new == Updated(coupons[c], reqs[s].form)
    IN  /\ reqs[s].pc = "update" /\ CodeChecked(s)
        /\ IF Stored(c)
           THEN /\ coupons' = [coupons EXCEPT ![c] = new]
                /\ limits' = [limits EXCEPT ![c] = @ \cup {new.limit}]
           ELSE UNCHANGED <<coupons, limits>>
        /\ reqs' = [reqs EXCEPT ![s] = Idle]
        /\ stale' = (stale \cup At("update", c)) \ {s}
        /\ codeFree' = codeFree \ {s}
        /\ UNCHANGED <<placed, now, lost>>

\* The fields given are written over what is stored now; a coupon deleted in
\* between is not written, and the administrator is not told.
UpdateWrite(s) ==
    LET c == reqs[s].coupon
        new == Updated(coupons[c], reqs[s].form)
    IN  /\ reqs[s].pc = "update" /\ CodeChecked(s)
        /\ IF Stored(c)
           THEN /\ Unique(c, new.code)
                /\ coupons' = [coupons EXCEPT ![c] = new]
                /\ limits' = [limits EXCEPT ![c] = @ \cup {new.limit}]
           ELSE UNCHANGED <<coupons, limits>>
        /\ reqs' = [reqs EXCEPT ![s] = Idle]
        /\ stale' = (stale \cup At("update", c)) \ {s}
        /\ codeFree' = codeFree \ {s}
        /\ UNCHANGED <<placed, now, lost>>

-----------------------------------------------------------------------------
(* deleteCoupon                                                            *)

\* Orders, and the requests under way, keep the couponId.
Delete(c) ==
    /\ Stored(c)
    /\ coupons' = [coupons EXCEPT ![c].life = "deleted"]
    /\ UNCHANGED <<placed, reqs, now, limits, lost, stale, codeFree>>

-----------------------------------------------------------------------------
(* createOrder with a coupon code                                          *)

\* Mistake: the limit may be reached and used once more.
MayUseOnce(doc) == doc.limit # Unlimited => doc.used <= doc.limit

MayUse(doc) == doc.limit # Unlimited => doc.used < doc.limit

\* validateCoupon, with an amount of at least minOrderAmount.
Validate(s, code) ==
    \E c \in Ids :
        /\ Stored(c)
        /\ coupons[c].code = code
        /\ coupons[c].active
        /\ coupons[c].from <= now /\ now <= coupons[c].to
        /\ MayUse(coupons[c])
        /\ coupons[c].used + Cardinality(At("validated", c)) < MaxUses
        /\ Start(s, [Idle EXCEPT !.pc = "validated", !.coupon = c])
        /\ UNCHANGED <<coupons, placed, now, limits, lost>>

\* Mistake: the use is not counted.
ApplyNothing(s) ==
    /\ reqs[s].pc = "validated"
    /\ reqs' = [reqs EXCEPT ![s] = [@ EXCEPT !.pc = "counted"]]
    /\ UNCHANGED <<coupons, placed, now, limits, lost, stale, codeFree>>

\* applyCoupon: $inc adds to what is stored now; of a coupon deleted in between
\* it matches nothing, and the order goes on with its discount.
Apply(s) ==
    LET c == reqs[s].coupon
    IN  /\ reqs[s].pc = "validated"
        /\ coupons' = IF Stored(c) THEN [coupons EXCEPT ![c].used = @ + 1] ELSE coupons
        /\ reqs' = [reqs EXCEPT ![s] = [@ EXCEPT !.pc = "counted"]]
        /\ UNCHANGED <<placed, now, limits, lost, stale, codeFree>>

Insert(s) ==
    LET c == reqs[s].coupon
    IN  /\ reqs[s].pc = "counted"
        /\ placed' = [placed EXCEPT ![c] = @ + 1]
        /\ Finish(s)
        /\ UNCHANGED <<coupons, now, limits, lost>>

-----------------------------------------------------------------------------

\* A check fails at the second read, the database throws, or the server stops:
\* the request is over, and a use it counted stays counted.
Fail(s) ==
    LET c == reqs[s].coupon
    IN  /\ reqs[s].pc # "idle"
        /\ lost' = IF reqs[s].pc = "counted" THEN [lost EXCEPT ![c] = @ + 1] ELSE lost
        /\ Finish(s)
        /\ UNCHANGED <<coupons, placed, now, limits>>

Next ==
    \/ Tick
    \/ \E c \in Ids : Delete(c)
    \/ \E s \in Slots :
          \/ \E draft \in Drafts : CreateRead(s, draft)
          \/ \E c \in Ids : CreateWrite(s, c)
          \/ \E c \in Ids, change \in Changes : UpdateRead(s, c, change)
          \/ CodeRead(s)
          \/ UpdateWrite(s)
          \/ \E code \in Codes : Validate(s, code)
          \/ Apply(s)
          \/ Insert(s)
          \/ Fail(s)

Spec == Init /\ [][Next]_vars

-----------------------------------------------------------------------------
(* Safety                                                                  *)

\* Two coupons never share a code, though two administrators may both have
\* found it free: an order is never given the discount of another coupon.
CodesUnique ==
    \A c, d \in Ids : Stored(c) /\ Stored(d) /\ c # d => coupons[c].code # coupons[d].code

\* A coupon is used at most as often as the most generous limit it ever had,
\* and once more for every other request that may be in flight at once.
OveruseIsBounded ==
    \A c \in Ids : Stored(c) /\ Unlimited \notin limits[c] =>
        \E l \in limits[c] : coupons[c].used < l + Cardinality(Slots)

\* A stored coupon's counter is the number of orders placed with it, the
\* requests between counting and inserting, and the failures there: no two
\* requests count as one, and no order is placed uncounted.
CountsAddUp ==
    \A c \in Ids : Stored(c) =>
        coupons[c].used = placed[c] + Cardinality(At("counted", c)) + lost[c]

-----------------------------------------------------------------------------
(* Action properties                                                       *)

\* A coupon's window is turned around, so that it is never valid again, only by
\* an update whose check did not see it: another update had overtaken its copy, or
\* it clears the end of the window.
InvertedOnlyUnseen ==
    [][\A c \in Ids :
          Stored(c) /\ Ordered(coupons[c]) /\ ~Ordered(coupons'[c]) =>
              \E s \in At("update", c) :
                  reqs'[s].pc = "idle" /\ (s \in stale \/ reqs[s].form.to = Epoch)]_vars
=============================================================================
