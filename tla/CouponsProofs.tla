---------------------------- MODULE CouponsProofs ----------------------------
(***************************************************************************)
(* Theorems about Coupons, for every set of coupons and codes, every       *)
(* finite number of requests and every limit.                              *)
(***************************************************************************)
EXTENDS Coupons, FiniteSetTheorems, TLAPS

USE CouponsAssumption

-----------------------------------------------------------------------------
(* The inductive invariant                                                 *)

\* A document that was never written is nobody's.
NewInv(c) ==
    coupons[c].life = "none" =>
        /\ placed[c] = 0 /\ lost[c] = 0
        /\ \A s \in Slots : reqs[s].coupon # c

LimitInv(c) == Stored(c) => coupons[c].limit \in limits[c]

\* Each validated request will use the coupon once more.
UseInv(c) ==
    Stored(c) /\ Unlimited \notin limits[c] =>
        \E l \in limits[c] :
            coupons[c].used + Cardinality(At("validated", c)) < l + Cardinality(Slots)

\* An update that no other has overtaken may still be written.
FreshInv(s) ==
    reqs[s].pc = "update" /\ s \notin stale /\ Stored(reqs[s].coupon) =>
        WindowChecked(coupons[reqs[s].coupon], reqs[s].form)

IInv ==
    /\ TypeOK
    /\ \A c \in Ids : NewInv(c) /\ LimitInv(c) /\ UseInv(c)
    /\ \A s \in Slots : FreshInv(s)
    /\ CodesUnique
    /\ CountsAddUp

-----------------------------------------------------------------------------
(* Counting requests                                                       *)

LEMMA AtCount ==
    ASSUME NEW pc, NEW c
    PROVE  /\ IsFiniteSet(At(pc, c))
           /\ Cardinality(At(pc, c)) \in Nat
           /\ Cardinality(At(pc, c)) <= Cardinality(Slots)
BY FS_Subset, FS_CardinalityType DEF At

\* Some request fits in.
LEMMA SlotsCount == Cardinality(Slots) \in Nat \ {0}
BY FS_CardinalityType, FS_EmptySet

\* A request that moves leaves one count and joins another.
LEMMA AtMove ==
    ASSUME TypeOK, NEW s \in Slots, NEW req, reqs' = [reqs EXCEPT ![s] = req],
           NEW pc, NEW c
    PROVE  Cardinality(At(pc, c)') =
               Cardinality(At(pc, c))
                   + (IF req.pc = pc /\ req.coupon = c THEN 1 ELSE 0)
                   - (IF reqs[s].pc = pc /\ reqs[s].coupon = c THEN 1 ELSE 0)
<1> DEFINE before == At(pc, c)
           after == At(pc, c)'
<1>1. IsFiniteSet(before) /\ Cardinality(before) \in Nat
    BY AtCount
<1>2. s \in before <=> reqs[s].pc = pc /\ reqs[s].coupon = c
    BY DEF At
<1>3. after = IF req.pc = pc /\ req.coupon = c THEN before \cup {s} ELSE before \ {s}
    BY DEF At, TypeOK
<1>4. /\ Cardinality(before \cup {s}) =
             IF s \in before THEN Cardinality(before) ELSE Cardinality(before) + 1
      /\ Cardinality(before \ {s}) =
             IF s \in before THEN Cardinality(before) - 1 ELSE Cardinality(before)
    BY <1>1, FS_AddElement, FS_RemoveElement
<1> HIDE DEF before, after
<1> QED  BY <1>1, <1>2, <1>3, <1>4 DEF before, after

LEMMA AtSame ==
    ASSUME UNCHANGED reqs, NEW pc, NEW c
    PROVE  At(pc, c)' = At(pc, c)
BY DEF At

-----------------------------------------------------------------------------
(* Types                                                                   *)

LEMMA IdleType == Idle \in Request
BY DEF Idle, Request

\* Requests that hold a coupon, an administrator's form, or neither.
LEMMA RequestKinds ==
    ASSUME TypeOK, NEW s \in Slots
    PROVE  /\ reqs[s].pc \in {"validated", "counted", "update"} => reqs[s].coupon \in Ids
           /\ reqs[s].pc \in {"idle", "create"} => reqs[s].coupon = NoId
           /\ reqs[s].pc = "create" => reqs[s].form \in Draft
           /\ reqs[s].pc = "update" => reqs[s].form \in Change
           /\ reqs[s].pc \in {"idle", "validated", "counted", "create", "update"}
<1>1. reqs[s] \in Request
    BY DEF TypeOK
<1> QED  BY <1>1 DEF Request

\* What an update stores has the types of what it replaces.
LEMMA UpdatedType ==
    ASSUME NEW doc \in CouponDoc, NEW change \in Change
    PROVE  /\ Updated(doc, change) \in CouponDoc
           /\ Updated(doc, change).life = doc.life
           /\ Updated(doc, change).used = doc.used
           /\ Updated(doc, change).limit \in Limit
<1>1. /\ Or(change.code, doc.code) \in Codes \cup {Keep}
      /\ Or(change.active, doc.active) \in BOOLEAN
      /\ Or(change.from, doc.from) \in Date
      /\ Or(change.to, doc.to) \in Date
      /\ Or(change.limit, doc.limit) \in Limit
    BY DEF Or, Change, CouponDoc
<1> QED  BY <1>1 DEF Updated, CouponDoc

LEMMA TypeStep ==
    ASSUME TypeOK, [Next]_vars
    PROVE  TypeOK'
<1> USE IdleType
<1>1. ASSUME NEW s \in Slots, NEW draft \in Drafts, CreateRead(s, draft)
      PROVE  TypeOK'
    <2>1. [Idle EXCEPT !.pc = "create", !.form = draft] \in Request
        BY DEF Idle, Request
    <2> QED  BY <1>1, <2>1 DEF CreateRead, Start, TypeOK
<1>2. ASSUME NEW s \in Slots, NEW c \in Ids, CreateWrite(s, c)
      PROVE  TypeOK'
    <2> DEFINE draft == reqs[s].form
               doc == [life |-> "stored", code |-> draft.code, active |-> TRUE,
                       from |-> draft.from, to |-> draft.to,
                       limit |-> draft.limit, used |-> 0]
    <2>1. draft \in Draft
        BY <1>2, RequestKinds DEF CreateWrite
    <2>2. doc \in CouponDoc /\ draft.limit \in Limit
        BY <2>1 DEF CouponDoc, Draft, Date
    <2>3. coupons' = [coupons EXCEPT ![c] = doc]
        BY <1>2 DEF CreateWrite
    <2> HIDE DEF doc
    <2> QED  BY <1>2, <2>2, <2>3 DEF CreateWrite, Finish, TypeOK
<1>3. ASSUME NEW s \in Slots, NEW c \in Ids, NEW change \in Changes, UpdateRead(s, c, change)
      PROVE  TypeOK'
    <2>1. [pc |-> "update", coupon |-> c, form |-> change] \in Request
        BY DEF Request
    <2> QED  BY <1>3, <2>1 DEF UpdateRead, Start, TypeOK
<1>4. ASSUME NEW s \in Slots, UpdateWrite(s)
      PROVE  TypeOK'
    <2> DEFINE c == reqs[s].coupon
               new == Updated(coupons[c], reqs[s].form)
    <2>1. c \in Ids /\ reqs[s].form \in Change /\ coupons[c] \in CouponDoc
        BY <1>4, RequestKinds DEF UpdateWrite, TypeOK
    <2>2. new \in CouponDoc /\ new.limit \in Limit
        BY <2>1, UpdatedType
    <2>3. \/ /\ coupons' = [coupons EXCEPT ![c] = new]
             /\ limits' = [limits EXCEPT ![c] = @ \cup {new.limit}]
          \/ UNCHANGED <<coupons, limits>>
        BY <1>4 DEF UpdateWrite
    <2>4. /\ reqs' = [reqs EXCEPT ![s] = Idle]
          /\ stale' = (stale \cup At("update", c)) \ {s}
          /\ codeFree' = codeFree \ {s}
          /\ UNCHANGED <<placed, now, lost>>
        BY <1>4 DEF UpdateWrite
    <2> HIDE DEF c, new
    <2> QED  BY <2>1, <2>2, <2>3, <2>4 DEF TypeOK, At
<1>5. ASSUME NEW c \in Ids, Delete(c)
      PROVE  TypeOK'
    BY <1>5 DEF Delete, TypeOK, CouponDoc
<1>6. ASSUME NEW s \in Slots, NEW code \in Codes, Validate(s, code)
      PROVE  TypeOK'
    <2>1. PICK c \in Ids : /\ Start(s, [Idle EXCEPT !.pc = "validated", !.coupon = c])
                           /\ UNCHANGED <<coupons, placed, now, limits, lost>>
        BY <1>6 DEF Validate
    <2>2. [Idle EXCEPT !.pc = "validated", !.coupon = c] \in Request
        BY DEF Idle, Request
    <2> QED  BY <2>1, <2>2 DEF Start, TypeOK
<1>7. ASSUME NEW s \in Slots, Apply(s)
      PROVE  TypeOK'
    <2> DEFINE c == reqs[s].coupon
               req == [reqs[s] EXCEPT !.pc = "counted"]
    <2>1. c \in Ids /\ coupons[c] \in CouponDoc
        BY <1>7, RequestKinds DEF Apply, TypeOK
    <2>2. req \in Request
        <3>1. reqs[s] \in Request /\ reqs[s].pc = "validated"
            BY <1>7 DEF Apply, TypeOK
        <3>2. reqs[s] \in [pc : {"validated", "counted"}, coupon : Ids, form : {NoForm}]
            BY <3>1 DEF Request
        <3> QED  BY <3>2 DEF Request
    <2>3. [coupons[c] EXCEPT !.used = @ + 1] \in CouponDoc
        BY <2>1 DEF CouponDoc
    <2>4. coupons' \in [Ids -> CouponDoc]
        BY <1>7, <2>1, <2>3 DEF Apply, TypeOK
    <2>5. reqs' = [reqs EXCEPT ![s] = req] /\ UNCHANGED <<placed, now, limits, lost, stale, codeFree>>
        BY <1>7 DEF Apply
    <2> HIDE DEF req
    <2> QED  BY <2>2, <2>4, <2>5 DEF TypeOK
<1>8. ASSUME NEW s \in Slots, Insert(s)
      PROVE  TypeOK'
    BY <1>8, RequestKinds DEF Insert, Finish, TypeOK
<1>9. ASSUME NEW s \in Slots, Fail(s)
      PROVE  TypeOK'
    BY <1>9, RequestKinds DEF Fail, Finish, TypeOK
<1>10. CASE Tick
    BY <1>10 DEF Tick, TypeOK
<1>11. CASE UNCHANGED vars
    BY <1>11 DEF vars, TypeOK
<1>12. ASSUME NEW s \in Slots, CodeRead(s)
       PROVE  TypeOK'
    BY <1>12 DEF CodeRead, TypeOK
<1> QED
    BY <1>1, <1>2, <1>3, <1>4, <1>5, <1>6, <1>7, <1>8, <1>9, <1>10, <1>11, <1>12 DEF Next

\* Counters never go below zero and every stored coupon has all its fields.
THEOREM TypeInvariant == Spec => []TypeOK
<1>1. Init => TypeOK
    BY IdleType DEF Init, TypeOK, NoDoc, CouponDoc, Limit, Date
<1>2. TypeOK /\ [Next]_vars => TypeOK'
    BY TypeStep
<1> QED  BY <1>1, <1>2, PTL DEF Spec

-----------------------------------------------------------------------------
(* What each step does to the collection                                   *)

\* An update that finds its coupon, and one more use of a stored coupon.
Updates(s, c) == UpdateWrite(s) /\ c = reqs[s].coupon /\ Stored(c)
Uses(s, c) == Apply(s) /\ c = reqs[s].coupon /\ Stored(c)

LEMMA DocumentStep ==
    ASSUME TypeOK, [Next]_vars
    PROVE  \/ UNCHANGED <<coupons, limits>>
           \/ \E s \in Slots, c \in Ids : CreateWrite(s, c)
           \/ \E s \in Slots, c \in Ids : Updates(s, c)
           \/ \E s \in Slots, c \in Ids : Uses(s, c)
           \/ \E c \in Ids : Delete(c)
<1>1. ASSUME NEW s \in Slots,
             \/ \E draft \in Drafts : CreateRead(s, draft)
             \/ \E c \in Ids, change \in Changes : UpdateRead(s, c, change)
             \/ \E code \in Codes : Validate(s, code)
             \/ CodeRead(s)
             \/ Insert(s)
             \/ Fail(s)
      PROVE  UNCHANGED <<coupons, limits>>
    BY <1>1 DEF CreateRead, UpdateRead, CodeRead, Validate, Insert, Fail
<1>2. ASSUME NEW s \in Slots, UpdateWrite(s)
      PROVE  UNCHANGED <<coupons, limits>> \/ \E c \in Ids : Updates(s, c)
    BY <1>2, RequestKinds DEF UpdateWrite, Updates
<1>3. ASSUME NEW s \in Slots, Apply(s)
      PROVE  UNCHANGED <<coupons, limits>> \/ \E c \in Ids : Uses(s, c)
    BY <1>3, RequestKinds DEF Apply, Uses
<1>4. ASSUME Tick \/ UNCHANGED vars
      PROVE  UNCHANGED <<coupons, limits>>
    BY <1>4 DEF Tick, vars
<1> QED  BY <1>1, <1>2, <1>3, <1>4 DEF Next

LEMMA CreatedDoc ==
    ASSUME TypeOK, NEW s \in Slots, NEW c \in Ids, CreateWrite(s, c)
    PROVE  /\ coupons[c].life = "none" /\ Unique(c, coupons'[c].code)
           /\ coupons'[c].life = "stored" /\ coupons'[c].used = 0
           /\ limits'[c] = {coupons'[c].limit} /\ coupons'[c].limit \in Limit
           /\ \A d \in Ids \ {c} : coupons'[d] = coupons[d] /\ limits'[d] = limits[d]
<1>1. reqs[s].form \in Draft
    BY RequestKinds DEF CreateWrite
<1> QED  BY <1>1 DEF CreateWrite, TypeOK, Draft

LEMMA UpdatedDoc ==
    ASSUME TypeOK, NEW s \in Slots, NEW c \in Ids, Updates(s, c)
    PROVE  /\ reqs[s].form \in Change
           /\ coupons'[c] = Updated(coupons[c], reqs[s].form)
           /\ Unique(c, coupons'[c].code)
           /\ coupons'[c].life = "stored" /\ coupons'[c].used = coupons[c].used
           /\ limits'[c] = limits[c] \cup {coupons'[c].limit}
           /\ coupons'[c].limit \in Limit
           /\ \A d \in Ids \ {c} : coupons'[d] = coupons[d] /\ limits'[d] = limits[d]
<1> DEFINE new == Updated(coupons[c], reqs[s].form)
<1>1. reqs[s].form \in Change /\ coupons[c] \in CouponDoc
    BY RequestKinds DEF Updates, UpdateWrite, TypeOK
<1>2. new.life = "stored" /\ new.used = coupons[c].used /\ new.limit \in Limit
    BY <1>1, UpdatedType DEF Updates, Stored
<1>3. /\ coupons' = [coupons EXCEPT ![c] = new]
      /\ limits' = [limits EXCEPT ![c] = @ \cup {new.limit}]
      /\ Unique(c, new.code)
    BY DEF Updates, UpdateWrite
<1> HIDE DEF new
<1> QED  BY <1>1, <1>2, <1>3 DEF TypeOK, new

LEMMA UsedDoc ==
    ASSUME TypeOK, NEW s \in Slots, NEW c \in Ids, Uses(s, c)
    PROVE  /\ coupons'[c] = [coupons[c] EXCEPT !.used = @ + 1]
           /\ coupons'[c].life = "stored" /\ coupons'[c].used = coupons[c].used + 1
           /\ coupons'[c].code = coupons[c].code /\ coupons'[c].limit = coupons[c].limit
           /\ coupons'[c].from = coupons[c].from /\ coupons'[c].to = coupons[c].to
           /\ limits'[c] = limits[c]
           /\ \A d \in Ids \ {c} : coupons'[d] = coupons[d] /\ limits'[d] = limits[d]
<1>1. coupons[c] \in CouponDoc
    BY DEF TypeOK
<1>2. coupons' = [coupons EXCEPT ![c] = [coupons[c] EXCEPT !.used = @ + 1]] /\ limits' = limits
    BY DEF Uses, Apply
<1>3. coupons'[c] = [coupons[c] EXCEPT !.used = @ + 1]
    BY <1>2 DEF TypeOK
<1> QED  BY <1>1, <1>2, <1>3 DEF CouponDoc, Uses, Stored, TypeOK

LEMMA DeletedDoc ==
    ASSUME TypeOK, NEW c \in Ids, Delete(c)
    PROVE  /\ coupons'[c].life = "deleted"
           /\ limits' = limits
           /\ \A d \in Ids \ {c} : coupons'[d] = coupons[d]
<1>1. coupons[c] \in CouponDoc
    BY DEF TypeOK
<1> QED  BY <1>1 DEF Delete, TypeOK, CouponDoc

-----------------------------------------------------------------------------
(* Each part of the invariant is preserved                                 *)

LEMMA CodesStep ==
    ASSUME IInv, [Next]_vars
    PROVE  CodesUnique'
<1> USE DEF IInv, CodesUnique, Stored, Unique
<1>1. ASSUME NEW s \in Slots, NEW c \in Ids, CreateWrite(s, c)
      PROVE  CodesUnique'
    BY <1>1, CreatedDoc
<1>2. ASSUME NEW s \in Slots, NEW c \in Ids, Updates(s, c)
      PROVE  CodesUnique'
    BY <1>2, UpdatedDoc
<1>3. ASSUME NEW s \in Slots, NEW c \in Ids, Uses(s, c)
      PROVE  CodesUnique'
    <2>1. \A d \in Ids : Stored(d)' => Stored(d) /\ coupons'[d].code = coupons[d].code
        <3>1. coupons[c].life = "stored" /\ coupons'[c].code = coupons[c].code
            BY <1>3, UsedDoc DEF Uses
        <3>2. \A d \in Ids \ {c} : coupons'[d] = coupons[d]
            BY <1>3, UsedDoc
        <3> QED  BY <3>1, <3>2
    <2> QED  BY <2>1
<1>4. ASSUME NEW c \in Ids, Delete(c)
      PROVE  CodesUnique'
    BY <1>4, DeletedDoc
<1> QED  BY <1>1, <1>2, <1>3, <1>4, DocumentStep

LEMMA LimitStep ==
    ASSUME IInv, [Next]_vars
    PROVE  \A c \in Ids : LimitInv(c)'
<1> USE DEF IInv, LimitInv, Stored
<1>1. ASSUME NEW s \in Slots, NEW c \in Ids, CreateWrite(s, c)
      PROVE  \A d \in Ids : LimitInv(d)'
    BY <1>1, CreatedDoc
<1>2. ASSUME NEW s \in Slots, NEW c \in Ids, Updates(s, c)
      PROVE  \A d \in Ids : LimitInv(d)'
    BY <1>2, UpdatedDoc
<1>3. ASSUME NEW s \in Slots, NEW c \in Ids, Uses(s, c)
      PROVE  \A d \in Ids : LimitInv(d)'
    <2>1. /\ coupons[c].life = "stored" /\ coupons'[c].limit = coupons[c].limit
          /\ limits'[c] = limits[c]
        BY <1>3, UsedDoc DEF Uses
    <2>2. \A d \in Ids \ {c} : coupons'[d] = coupons[d] /\ limits'[d] = limits[d]
        BY <1>3, UsedDoc
    <2> QED  BY <2>1, <2>2
<1>4. ASSUME NEW c \in Ids, Delete(c)
      PROVE  \A d \in Ids : LimitInv(d)'
    BY <1>4, DeletedDoc
<1> QED  BY <1>1, <1>2, <1>3, <1>4, DocumentStep

LEMMA NewStep ==
    ASSUME IInv, [Next]_vars
    PROVE  \A c \in Ids : NewInv(c)'
<1>0. TypeOK
    BY DEF IInv
<1> SUFFICES ASSUME NEW c \in Ids, coupons'[c].life = "none"
             PROVE  /\ placed'[c] = 0 /\ lost'[c] = 0
                    /\ \A s \in Slots : reqs'[s].coupon # c
    BY DEF NewInv
<1>1. coupons[c].life = "none"
    <2>1. ASSUME NEW s \in Slots, NEW d \in Ids, CreateWrite(s, d)
          PROVE  coupons[c].life = "none"
        BY <1>0, <2>1, CreatedDoc
    <2>2. ASSUME NEW s \in Slots, NEW d \in Ids, Updates(s, d)
          PROVE  coupons[c].life = "none"
        BY <1>0, <2>2, UpdatedDoc
    <2>3. ASSUME NEW s \in Slots, NEW d \in Ids, Uses(s, d)
          PROVE  coupons[c].life = "none"
        BY <1>0, <2>3, UsedDoc
    <2>4. ASSUME NEW d \in Ids, Delete(d)
          PROVE  coupons[c].life = "none"
        BY <1>0, <2>4, DeletedDoc
    <2> QED  BY <1>0, <2>1, <2>2, <2>3, <2>4, DocumentStep
<1>2. placed[c] = 0 /\ lost[c] = 0 /\ \A s \in Slots : reqs[s].coupon # c
    BY <1>1 DEF IInv, NewInv
<1>3. ASSUME NEW s \in Slots, NEW req, req.coupon # c, reqs' = [reqs EXCEPT ![s] = req],
             placed'[c] = placed[c], lost'[c] = lost[c]
      PROVE  placed'[c] = 0 /\ lost'[c] = 0 /\ \A t \in Slots : reqs'[t].coupon # c
    BY <1>0, <1>2, <1>3 DEF TypeOK
<1>4. Idle.coupon # c
    BY DEF Idle
<1>5. ASSUME NEW s \in Slots, NEW draft \in Drafts, CreateRead(s, draft)
      PROVE  placed'[c] = 0 /\ lost'[c] = 0 /\ \A t \in Slots : reqs'[t].coupon # c
    <2> DEFINE req == [Idle EXCEPT !.pc = "create", !.form = draft]
    <2>1. req.coupon # c
        BY DEF Idle
    <2>2. reqs' = [reqs EXCEPT ![s] = req] /\ UNCHANGED <<placed, lost>>
        BY <1>5 DEF CreateRead, Start
    <2> HIDE DEF req
    <2> QED  BY <1>3, <2>1, <2>2
<1>6. ASSUME NEW s \in Slots, NEW d \in Ids, NEW change \in Changes, UpdateRead(s, d, change)
      PROVE  placed'[c] = 0 /\ lost'[c] = 0 /\ \A t \in Slots : reqs'[t].coupon # c
    <2> DEFINE req == [pc |-> "update", coupon |-> d, form |-> change]
    <2>1. Stored(d) /\ reqs' = [reqs EXCEPT ![s] = req] /\ UNCHANGED <<placed, lost>>
        BY <1>6 DEF UpdateRead, Start
    <2>2. req.coupon # c
        BY <1>1, <2>1 DEF Stored
    <2> HIDE DEF req
    <2> QED  BY <1>3, <2>1, <2>2
<1>7. ASSUME NEW s \in Slots, NEW code \in Codes, Validate(s, code)
      PROVE  placed'[c] = 0 /\ lost'[c] = 0 /\ \A t \in Slots : reqs'[t].coupon # c
    <2>1. PICK d \in Ids : /\ Stored(d)
                           /\ Start(s, [Idle EXCEPT !.pc = "validated", !.coupon = d])
                           /\ UNCHANGED <<placed, lost>>
        BY <1>7 DEF Validate
    <2> DEFINE req == [Idle EXCEPT !.pc = "validated", !.coupon = d]
    <2>2. req.coupon # c
        BY <1>1, <2>1 DEF Idle, Stored
    <2>3. reqs' = [reqs EXCEPT ![s] = req]
        BY <2>1 DEF Start
    <2> HIDE DEF req
    <2> QED  BY <1>3, <2>1, <2>2, <2>3
<1>8. ASSUME NEW s \in Slots, Apply(s)
      PROVE  placed'[c] = 0 /\ lost'[c] = 0 /\ \A t \in Slots : reqs'[t].coupon # c
    <2> DEFINE req == [reqs[s] EXCEPT !.pc = "counted"]
    <2>1. reqs[s] \in [pc : {"validated", "counted"}, coupon : Ids, form : {NoForm}]
        BY <1>0, <1>8 DEF Apply, TypeOK, Request
    <2>2. req.coupon # c
        BY <1>2, <2>1
    <2>3. reqs' = [reqs EXCEPT ![s] = req] /\ UNCHANGED <<placed, lost>>
        BY <1>8 DEF Apply
    <2> HIDE DEF req
    <2> QED  BY <1>3, <2>2, <2>3
<1>9. ASSUME NEW s \in Slots, Insert(s) \/ Fail(s) \/ UpdateWrite(s) \/ \E d \in Ids : CreateWrite(s, d)
      PROVE  placed'[c] = 0 /\ lost'[c] = 0 /\ \A t \in Slots : reqs'[t].coupon # c
    <2>1. reqs' = [reqs EXCEPT ![s] = Idle]
        BY <1>9 DEF Insert, Fail, UpdateWrite, CreateWrite, Finish
    <2>2. placed'[c] = placed[c] /\ lost'[c] = lost[c]
        BY <1>0, <1>2, <1>9 DEF Insert, Fail, UpdateWrite, CreateWrite, TypeOK
    <2> QED  BY <1>3, <1>4, <2>1, <2>2
<1>10. ASSUME UNCHANGED <<placed, reqs, lost>>
       PROVE  placed'[c] = 0 /\ lost'[c] = 0 /\ \A t \in Slots : reqs'[t].coupon # c
    BY <1>2, <1>10
<1>11. \/ Tick \/ UNCHANGED vars
       \/ \E d \in Ids : Delete(d)
       \/ \E s \in Slots : CodeRead(s)
       => UNCHANGED <<placed, reqs, lost>>
    BY DEF Tick, Delete, CodeRead, vars
<1> QED  BY <1>5, <1>6, <1>7, <1>8, <1>9, <1>10, <1>11 DEF Next

\* Only the dates of a document decide whether an update's dates are in order.
LEMMA WindowSame ==
    ASSUME NEW old, NEW doc, NEW change, doc.from = old.from, doc.to = old.to
    PROVE  WindowChecked(doc, change) = WindowChecked(old, change)
BY DEF WindowChecked

LEMMA FreshStep ==
    ASSUME IInv, [Next]_vars
    PROVE  \A s \in Slots : FreshInv(s)'
<1>0. TypeOK /\ TypeOK'
    BY TypeStep DEF IInv
<1>1. ASSUME NEW t \in Slots, reqs'[t].pc # "update"
      PROVE  FreshInv(t)'
    BY <1>1 DEF FreshInv
<1>2. ASSUME NEW t \in Slots, reqs'[t] = reqs[t], t \in stale => t \in stale',
             \/ t \in stale'
             \/ coupons'[reqs[t].coupon] = coupons[reqs[t].coupon]
             \/ coupons'[reqs[t].coupon].life # "stored"
      PROVE  FreshInv(t)'
    BY <1>2 DEF IInv, FreshInv, Stored
<1>3. ASSUME NEW s \in Slots, NEW req, req.pc # "update", reqs' = [reqs EXCEPT ![s] = req],
             stale' = stale \ {s}, UNCHANGED coupons
      PROVE  \A t \in Slots : FreshInv(t)'
    <2> TAKE t \in Slots
    <2>1. CASE t = s
        BY <1>0, <1>1, <1>3, <2>1 DEF TypeOK
    <2>2. CASE t # s
        BY <1>0, <1>2, <1>3, <2>2 DEF TypeOK
    <2> QED  BY <2>1, <2>2
<1>4. ASSUME NEW s \in Slots, NEW draft \in Drafts, CreateRead(s, draft)
      PROVE  \A t \in Slots : FreshInv(t)'
    <2> DEFINE req == [Idle EXCEPT !.pc = "create", !.form = draft]
    <2>1. req.pc # "update"
        BY DEF Idle
    <2>2. reqs' = [reqs EXCEPT ![s] = req] /\ stale' = stale \ {s} /\ UNCHANGED coupons
        BY <1>4 DEF CreateRead, Start
    <2> HIDE DEF req
    <2> QED  BY <1>3, <2>1, <2>2
<1>5. ASSUME NEW s \in Slots, NEW code \in Codes, Validate(s, code)
      PROVE  \A t \in Slots : FreshInv(t)'
    <2>1. PICK d \in Ids : /\ Start(s, [Idle EXCEPT !.pc = "validated", !.coupon = d])
                           /\ UNCHANGED coupons
        BY <1>5 DEF Validate
    <2> DEFINE req == [Idle EXCEPT !.pc = "validated", !.coupon = d]
    <2>2. req.pc # "update"
        BY DEF Idle
    <2>3. reqs' = [reqs EXCEPT ![s] = req] /\ stale' = stale \ {s}
        BY <2>1 DEF Start
    <2> HIDE DEF req
    <2> QED  BY <1>3, <2>1, <2>2, <2>3
<1>6. ASSUME NEW s \in Slots, Insert(s) \/ Fail(s)
      PROVE  \A t \in Slots : FreshInv(t)'
    BY <1>3, <1>6 DEF Insert, Fail, Finish, Idle
<1>7. ASSUME NEW s \in Slots, NEW c \in Ids, CreateWrite(s, c)
      PROVE  \A t \in Slots : FreshInv(t)'
    <2> TAKE t \in Slots
    <2>1. reqs' = [reqs EXCEPT ![s] = Idle] /\ stale' = stale \ {s}
        BY <1>7 DEF CreateWrite, Finish
    <2>2. CASE t = s
        BY <1>0, <1>1, <2>1, <2>2 DEF TypeOK, Idle
    <2>3. CASE t # s /\ reqs[t].pc = "update"
        <3>1. reqs[t].coupon \in Ids \ {c}
            BY <1>0, <1>7, <2>3, RequestKinds DEF CreateWrite, IInv, NewInv
        <3> QED  BY <1>0, <1>2, <1>7, <2>1, <2>3, <3>1, CreatedDoc DEF TypeOK
    <2>4. CASE t # s /\ reqs[t].pc # "update"
        BY <1>0, <1>1, <2>1, <2>4 DEF TypeOK
    <2> QED  BY <2>2, <2>3, <2>4
<1>8. ASSUME NEW s \in Slots, NEW c \in Ids, NEW change \in Changes, UpdateRead(s, c, change)
      PROVE  \A t \in Slots : FreshInv(t)'
    <2> TAKE t \in Slots
    <2> DEFINE req == [pc |-> "update", coupon |-> c, form |-> change]
    <2>1. reqs' = [reqs EXCEPT ![s] = req] /\ stale' = stale \ {s} /\ UNCHANGED coupons
        BY <1>8 DEF UpdateRead, Start
    <2>2. CASE t = s
        <3>1. reqs'[t].coupon = c /\ reqs'[t].form = change
            BY <1>0, <2>1, <2>2 DEF TypeOK
        <3>2. WindowChecked(coupons[c], change)
            BY <1>8 DEF UpdateRead
        <3> QED  BY <2>1, <3>1, <3>2 DEF FreshInv
    <2>3. CASE t # s
        BY <1>0, <1>2, <2>1, <2>3 DEF TypeOK
    <2> QED  BY <2>2, <2>3
<1>9. ASSUME NEW s \in Slots, UpdateWrite(s)
      PROVE  \A t \in Slots : FreshInv(t)'
    <2> TAKE t \in Slots
    <2>1. /\ reqs' = [reqs EXCEPT ![s] = Idle]
          /\ stale' = (stale \cup At("update", reqs[s].coupon)) \ {s}
        BY <1>9 DEF UpdateWrite
    <2>2. CASE t = s
        BY <1>0, <1>1, <2>1, <2>2 DEF TypeOK, Idle
    <2>3. CASE t # s /\ reqs[t].pc = "update"
        <3>1. CASE reqs[t].coupon = reqs[s].coupon
            BY <1>0, <1>2, <2>1, <2>3, <3>1 DEF TypeOK, At
        <3>2. CASE reqs[t].coupon # reqs[s].coupon
            <4>1. coupons'[reqs[t].coupon] = coupons[reqs[t].coupon]
                BY <1>0, <1>9, <2>3, <3>2, RequestKinds DEF UpdateWrite, TypeOK
            <4> QED  BY <1>0, <1>2, <2>1, <2>3, <4>1 DEF TypeOK
        <3> QED  BY <3>1, <3>2
    <2>4. CASE t # s /\ reqs[t].pc # "update"
        BY <1>0, <1>1, <2>1, <2>4 DEF TypeOK
    <2> QED  BY <2>2, <2>3, <2>4
<1>10. ASSUME NEW c \in Ids, Delete(c)
       PROVE  \A t \in Slots : FreshInv(t)'
    <2> TAKE t \in Slots
    <2>1. UNCHANGED <<reqs, stale>>
        BY <1>10 DEF Delete
    <2>2. CASE reqs[t].pc = "update"
        <3>1. reqs[t].coupon \in Ids
            BY <1>0, <2>2, RequestKinds
        <3> QED  BY <1>0, <1>2, <1>10, <2>1, <3>1, DeletedDoc
    <2>3. CASE reqs[t].pc # "update"
        BY <1>1, <2>1, <2>3
    <2> QED  BY <2>2, <2>3
<1>11. ASSUME NEW s \in Slots, NEW c \in Ids, Uses(s, c)
       PROVE  \A t \in Slots : FreshInv(t)'
    <2> TAKE t \in Slots
    <2> DEFINE req == [reqs[s] EXCEPT !.pc = "counted"]
    <2>0. reqs[s] \in [pc : {"validated", "counted"}, coupon : Ids, form : {NoForm}]
        BY <1>0, <1>11 DEF Uses, Apply, TypeOK, Request
    <2>1. reqs' = [reqs EXCEPT ![s] = req] /\ UNCHANGED stale /\ req.pc = "counted"
        BY <1>11, <2>0 DEF Uses, Apply
    <2> HIDE DEF req
    <2>2. CASE t = s
        BY <1>0, <1>1, <2>1, <2>2 DEF TypeOK
    <2>3. CASE t # s /\ reqs[t].pc = "update"
        <3>1. reqs[t].coupon \in Ids /\ reqs[t].form \in Change /\ reqs'[t] = reqs[t]
            BY <1>0, <2>1, <2>3, RequestKinds DEF TypeOK
        <3>2. CASE reqs[t].coupon # c
            <4>0. \A d \in Ids \ {c} : coupons'[d] = coupons[d]
                BY <1>0, <1>11, UsedDoc
            <4>1. coupons'[reqs[t].coupon] = coupons[reqs[t].coupon]
                BY <3>1, <3>2, <4>0
            <4>2. stale' = stale /\ reqs'[t] = reqs[t]
                BY <2>1, <3>1
            <4> QED  BY <1>2, <4>1, <4>2
        <3>3. CASE reqs[t].coupon = c
            <4>1. coupons'[c].from = coupons[c].from /\ coupons'[c].to = coupons[c].to
                BY <1>0, <1>11, UsedDoc
            <4>2. WindowChecked(coupons'[c], reqs[t].form) = WindowChecked(coupons[c], reqs[t].form)
                BY <4>1, WindowSame
            <4>3. Stored(c)
                BY <1>11 DEF Uses
            <4> QED  BY <2>1, <3>1, <3>3, <4>2, <4>3 DEF IInv, FreshInv
        <3> QED  BY <3>2, <3>3
    <2>4. CASE t # s /\ reqs[t].pc # "update"
        BY <1>0, <1>1, <2>1, <2>4 DEF TypeOK
    <2> QED  BY <2>2, <2>3, <2>4
<1>12. ASSUME NEW s \in Slots, Apply(s), UNCHANGED coupons
       PROVE  \A t \in Slots : FreshInv(t)'
    <2> TAKE t \in Slots
    <2> DEFINE req == [reqs[s] EXCEPT !.pc = "counted"]
    <2>0. reqs[s] \in [pc : {"validated", "counted"}, coupon : Ids, form : {NoForm}]
        BY <1>0, <1>12 DEF Apply, TypeOK, Request
    <2>1. reqs' = [reqs EXCEPT ![s] = req] /\ UNCHANGED stale /\ req.pc = "counted"
        BY <1>12, <2>0 DEF Apply
    <2> HIDE DEF req
    <2>2. CASE t = s
        BY <1>0, <1>1, <2>1, <2>2 DEF TypeOK
    <2>3. CASE t # s
        BY <1>0, <1>2, <1>12, <2>1, <2>3 DEF TypeOK
    <2> QED  BY <2>2, <2>3
<1>13. ASSUME NEW s \in Slots, Apply(s)
       PROVE  UNCHANGED coupons \/ \E c \in Ids : Uses(s, c)
    BY <1>0, <1>13, RequestKinds DEF Apply, Uses
<1>14. ASSUME UNCHANGED <<coupons, reqs, stale>>
       PROVE  \A t \in Slots : FreshInv(t)'
    BY <1>2, <1>14
<1>15. Tick \/ UNCHANGED vars \/ (\E s \in Slots : CodeRead(s)) =>
           UNCHANGED <<coupons, reqs, stale>>
    BY DEF Tick, CodeRead, vars
<1> QED
    BY <1>4, <1>5, <1>6, <1>7, <1>8, <1>9, <1>10, <1>11, <1>12, <1>13, <1>14, <1>15 DEF Next

-----------------------------------------------------------------------------
(* Uses                                                                    *)

\* A coupon whose document, limits and validated requests do not grow.
LEMMA UseKept ==
    ASSUME TypeOK, NEW c \in Ids, UseInv(c),
           Stored(c)' => Stored(c),
           coupons'[c].used = coupons[c].used,
           limits[c] \subseteq limits'[c],
           Cardinality(At("validated", c)') <= Cardinality(At("validated", c)),
           Cardinality(At("validated", c)') \in Nat
    PROVE  UseInv(c)'
<1>1. limits[c] \subseteq Limit /\ coupons[c].used \in Nat
    BY DEF TypeOK, CouponDoc
<1>2. Cardinality(At("validated", c)) \in Nat /\ Cardinality(Slots) \in Nat
    BY AtCount, SlotsCount
<1>3. ASSUME Stored(c)', Unlimited \notin limits'[c]
      PROVE  \E l \in limits'[c] :
                 coupons'[c].used + Cardinality(At("validated", c)') < l + Cardinality(Slots)
    <2>1. PICK l \in limits[c] :
              coupons[c].used + Cardinality(At("validated", c)) < l + Cardinality(Slots)
        BY <1>3 DEF UseInv
    <2>2. l \in Nat
        BY <1>1, <1>3, <2>1 DEF Limit, Unlimited
    <2> QED  BY <1>1, <1>2, <2>1, <2>2
<1> QED  BY <1>3 DEF UseInv

\* A request that moves elsewhere than to pc does not add to the count there.
LEMMA CountKept ==
    ASSUME TypeOK, NEW s \in Slots, NEW req, reqs' = [reqs EXCEPT ![s] = req],
           NEW pc, NEW c \in Ids,
           ~(req.pc = pc /\ req.coupon = c)
    PROVE  /\ Cardinality(At(pc, c)') \in Nat
           /\ Cardinality(At(pc, c)') <= Cardinality(At(pc, c))
<1> DEFINE before == At(pc, c)
           after == At(pc, c)'
<1>1. Cardinality(before) \in Nat /\ IsFiniteSet(before)
    BY AtCount
<1>2. after \subseteq before
    BY DEF At, TypeOK
<1> HIDE DEF before, after
<1>3. IsFiniteSet(after) /\ Cardinality(after) \in Nat /\ Cardinality(after) <= Cardinality(before)
    BY <1>1, <1>2, FS_Subset, FS_CardinalityType
<1> QED  BY <1>3 DEF before, after

LEMMA UseStep ==
    ASSUME IInv, [Next]_vars
    PROVE  \A c \in Ids : UseInv(c)'
<1>0. TypeOK /\ \A c \in Ids : NewInv(c) /\ LimitInv(c) /\ UseInv(c)
    BY DEF IInv
<1>1. ASSUME NEW s \in Slots, NEW req, reqs' = [reqs EXCEPT ![s] = req],
             NEW c \in Ids, req.pc = "validated" => req.coupon # c,
             coupons'[c].used = coupons[c].used,
             coupons'[c].life = "stored" => coupons[c].life = "stored",
             limits[c] \subseteq limits'[c]
      PROVE  UseInv(c)'
    <2>1. /\ Cardinality(At("validated", c)') \in Nat
          /\ Cardinality(At("validated", c)') <= Cardinality(At("validated", c))
        BY <1>0, <1>1, CountKept
    <2>2. Stored(c)' => Stored(c)
        BY <1>1 DEF Stored
    <2> QED  BY <1>0, <1>1, <2>1, <2>2, UseKept
<1>2. ASSUME NEW s \in Slots, NEW draft \in Drafts, CreateRead(s, draft), NEW c \in Ids
      PROVE  UseInv(c)'
    <2> DEFINE req == [Idle EXCEPT !.pc = "create", !.form = draft]
    <2>1. req.pc # "validated"
        BY DEF Idle
    <2>2. reqs' = [reqs EXCEPT ![s] = req] /\ UNCHANGED <<coupons, limits>>
        BY <1>2 DEF CreateRead, Start
    <2> HIDE DEF req
    <2> QED  BY <1>1, <2>1, <2>2
<1>3. ASSUME NEW s \in Slots, NEW d \in Ids, NEW change \in Changes, UpdateRead(s, d, change),
             NEW c \in Ids
      PROVE  UseInv(c)'
    <2> DEFINE req == [pc |-> "update", coupon |-> d, form |-> change]
    <2>1. req.pc # "validated"
        OBVIOUS
    <2>2. reqs' = [reqs EXCEPT ![s] = req] /\ UNCHANGED <<coupons, limits>>
        BY <1>3 DEF UpdateRead, Start
    <2> HIDE DEF req
    <2> QED  BY <1>1, <2>1, <2>2
<1>4. ASSUME NEW s \in Slots, Insert(s) \/ Fail(s), NEW c \in Ids
      PROVE  UseInv(c)'
    <2>1. reqs' = [reqs EXCEPT ![s] = Idle] /\ UNCHANGED <<coupons, limits>>
        BY <1>4 DEF Insert, Fail, Finish
    <2>2. Idle.pc # "validated"
        BY DEF Idle
    <2> QED  BY <1>1, <2>1, <2>2
<1>5. ASSUME NEW s \in Slots, NEW code \in Codes, Validate(s, code), NEW c \in Ids
      PROVE  UseInv(c)'
    <2>1. PICK d \in Ids : /\ Stored(d) /\ MayUse(coupons[d])
                           /\ Start(s, [Idle EXCEPT !.pc = "validated", !.coupon = d])
                           /\ UNCHANGED <<coupons, limits>>
        BY <1>5 DEF Validate
    <2> DEFINE req == [Idle EXCEPT !.pc = "validated", !.coupon = d]
    <2>2. req.coupon = d
        BY DEF Idle
    <2>3. reqs' = [reqs EXCEPT ![s] = req]
        BY <2>1 DEF Start
    <2> HIDE DEF req
    <2>4. CASE c # d
        BY <1>1, <2>1, <2>2, <2>3, <2>4
    <2>5. CASE c = d
        <3> SUFFICES ASSUME Unlimited \notin limits[c]
                     PROVE  \E l \in limits[c] :
                                coupons[c].used + Cardinality(At("validated", c)')
                                    < l + Cardinality(Slots)
            BY <2>1 DEF UseInv
        <3>1. coupons[c].limit \in limits[c] /\ limits[c] \subseteq Limit /\ coupons[c].used \in Nat
            BY <1>0, <2>1, <2>5 DEF LimitInv, TypeOK, CouponDoc
        <3>2. coupons[c].limit \in Nat /\ coupons[c].used < coupons[c].limit
            BY <2>1, <2>5, <3>1 DEF Limit, Unlimited, MayUse
        <3>3. /\ Cardinality(At("validated", c)') \in Nat
              /\ Cardinality(At("validated", c)') <= Cardinality(Slots)
            <4> DEFINE after == At("validated", c)'
            <4>1. after \subseteq Slots
                BY DEF At
            <4> HIDE DEF after
            <4>2. Cardinality(after) \in Nat /\ Cardinality(after) <= Cardinality(Slots)
                BY <4>1, FS_Subset, FS_CardinalityType
            <4> QED  BY <4>2 DEF after
        <3> QED  BY <3>1, <3>2, <3>3, SlotsCount
    <2> QED  BY <2>4, <2>5
<1>6. ASSUME NEW s \in Slots, NEW d \in Ids, CreateWrite(s, d), NEW c \in Ids
      PROVE  UseInv(c)'
    <2>1. reqs' = [reqs EXCEPT ![s] = Idle] /\ Idle.pc # "validated" /\ Idle.coupon # c
        BY <1>6 DEF CreateWrite, Finish, Idle
    <2>2. CASE c # d
        <3>1. coupons'[c] = coupons[c] /\ limits'[c] = limits[c]
            BY <1>0, <1>6, <2>2, CreatedDoc
        <3> QED  BY <1>1, <2>1, <3>1
    <2>3. CASE c = d
        <3>1. /\ coupons[c].life = "none"
              /\ coupons'[c].used = 0 /\ limits'[c] = {coupons'[c].limit}
              /\ coupons'[c].limit \in Limit
            BY <1>0, <1>6, <2>3, CreatedDoc
        <3>2. \A t \in Slots : reqs'[t].coupon # c
            BY <1>0, <2>1, <3>1 DEF NewInv, TypeOK
        <3>3. Cardinality(At("validated", c)') = 0
            <4> DEFINE after == At("validated", c)'
            <4>1. after = {}
                BY <3>2 DEF At
            <4> HIDE DEF after
            <4>2. Cardinality(after) = 0
                BY <4>1, FS_EmptySet
            <4> QED  BY <4>2 DEF after
        <3> QED  BY <3>1, <3>3, SlotsCount DEF UseInv, Limit, Unlimited
    <2> QED  BY <2>2, <2>3
<1>7. ASSUME NEW s \in Slots, UpdateWrite(s), NEW c \in Ids
      PROVE  UseInv(c)'
    <2>1. reqs' = [reqs EXCEPT ![s] = Idle] /\ Idle.pc # "validated"
        BY <1>7 DEF UpdateWrite, Idle
    <2>2. CASE ~Stored(reqs[s].coupon)
        <3>1. UNCHANGED <<coupons, limits>>
            BY <1>7, <2>2 DEF UpdateWrite
        <3> QED  BY <1>1, <2>1, <3>1
    <2>3. CASE Stored(reqs[s].coupon) /\ reqs[s].coupon = c
        <3>1. Updates(s, c)
            BY <1>7, <2>3 DEF Updates
        <3>2. coupons'[c].used = coupons[c].used /\ limits[c] \subseteq limits'[c]
            BY <1>0, <3>1, UpdatedDoc
        <3> QED  BY <1>1, <2>1, <2>3, <3>2 DEF Stored
    <2>4. CASE Stored(reqs[s].coupon) /\ reqs[s].coupon # c
        <3>1. coupons'[c] = coupons[c] /\ limits'[c] = limits[c]
            BY <1>0, <1>7, <2>4 DEF UpdateWrite, TypeOK
        <3> QED  BY <1>1, <2>1, <3>1
    <2> QED  BY <2>2, <2>3, <2>4
<1>8. ASSUME NEW s \in Slots, Apply(s), NEW c \in Ids
      PROVE  UseInv(c)'
    <2> DEFINE req == [reqs[s] EXCEPT !.pc = "counted"]
    <2>1. reqs[s] \in [pc : {"validated", "counted"}, coupon : Ids, form : {NoForm}]
        BY <1>0, <1>8 DEF Apply, TypeOK, Request
    <2>2. reqs' = [reqs EXCEPT ![s] = req] /\ req.pc # "validated" /\ limits' = limits
        BY <1>8, <2>1 DEF Apply
    <2>3. reqs[s].pc = "validated"
        BY <1>8 DEF Apply
    <2> HIDE DEF req
    <2>4. CASE ~(Stored(c) /\ reqs[s].coupon = c)
        <3>1. coupons'[c] = coupons[c]
            BY <1>0, <1>8, <2>4 DEF Apply, TypeOK
        <3> QED  BY <1>1, <2>2, <3>1
    <2>5. CASE Stored(c) /\ reqs[s].coupon = c
        <3>1. coupons'[c].used = coupons[c].used + 1
            BY <1>0, <1>8, <2>5, UsedDoc DEF Uses
        <3>2. Cardinality(At("validated", c)') = Cardinality(At("validated", c)) - 1
            <4>1. Cardinality(At("validated", c)') = Cardinality(At("validated", c)) + 0 - 1
                BY ZenonT(60), <1>0, <2>2, <2>3, <2>5, AtMove
            <4> QED  BY <4>1, AtCount
        <3>3. coupons[c].used \in Nat /\ Cardinality(At("validated", c)) \in Nat
            BY <1>0, AtCount DEF TypeOK, CouponDoc
        <3>4. coupons'[c].used + Cardinality(At("validated", c)')
                  = coupons[c].used + Cardinality(At("validated", c))
            BY <3>1, <3>2, <3>3
        <3> QED  BY <1>0, <2>2, <2>5, <3>4 DEF UseInv
    <2> QED  BY <2>4, <2>5
<1>9. ASSUME NEW d \in Ids, Delete(d), NEW c \in Ids
      PROVE  UseInv(c)'
    <2>1. At("validated", c)' = At("validated", c) /\ limits' = limits
        BY <1>9, AtSame DEF Delete
    <2>2. Stored(c)' => coupons'[c] = coupons[c]
        BY <1>0, <1>9, DeletedDoc DEF Stored
    <2> QED  BY <1>0, <2>1, <2>2 DEF UseInv, Stored
<1>10. ASSUME Tick \/ UNCHANGED vars \/ \E s \in Slots : CodeRead(s), NEW c \in Ids
       PROVE  UseInv(c)'
    <2>1. UNCHANGED <<coupons, limits, reqs>>
        BY <1>10 DEF Tick, CodeRead, vars
    <2> QED  BY <1>0, <2>1 DEF UseInv, Stored, At
<1> QED
    BY <1>2, <1>3, <1>4, <1>5, <1>6, <1>7, <1>8, <1>9, <1>10 DEF Next

-----------------------------------------------------------------------------
(* Counters                                                                *)

Accounted(c) == placed[c] + Cardinality(At("counted", c)) + lost[c]

\* CountsAddUp, for one coupon.
CountInv(c) == Stored(c) => coupons[c].used = Accounted(c)

LEMMA CountStep ==
    ASSUME IInv, [Next]_vars
    PROVE  CountsAddUp'
<1>0. TypeOK /\ \A c \in Ids : NewInv(c) /\ CountInv(c)
    BY DEF IInv, CountsAddUp, CountInv, Accounted
<1> SUFFICES ASSUME NEW c \in Ids
             PROVE  CountInv(c)'
    BY DEF CountsAddUp, CountInv, Accounted
<1>a. /\ placed[c] \in Nat /\ lost[c] \in Nat /\ coupons[c].used \in Nat
      /\ Cardinality(At("counted", c)) \in Nat
    BY <1>0, AtCount DEF TypeOK, CouponDoc
<1>1. ASSUME coupons'[c].used = coupons[c].used,
             coupons'[c].life = "stored" => coupons[c].life = "stored",
             Accounted(c)' = Accounted(c)
      PROVE  CountInv(c)'
    BY <1>0, <1>1 DEF CountInv, Stored
<1>2. ASSUME NEW s \in Slots, NEW req, reqs' = [reqs EXCEPT ![s] = req],
             req.pc # "counted", reqs[s].pc # "counted", UNCHANGED <<placed, lost>>
      PROVE  Accounted(c)' = Accounted(c)
    <2>1. At("counted", c)' = At("counted", c)
        BY <1>0, <1>2 DEF At, TypeOK
    <2> QED  BY <1>2, <2>1 DEF Accounted
<1>3. ASSUME NEW s \in Slots, NEW draft \in Drafts, CreateRead(s, draft)
      PROVE  CountInv(c)'
    <2> DEFINE req == [Idle EXCEPT !.pc = "create", !.form = draft]
    <2>1. req.pc # "counted"
        BY DEF Idle
    <2>2. /\ reqs' = [reqs EXCEPT ![s] = req] /\ reqs[s].pc # "counted"
          /\ UNCHANGED <<coupons, placed, lost>>
        BY <1>3 DEF CreateRead, Start
    <2> HIDE DEF req
    <2> QED  BY <1>1, <1>2, <2>1, <2>2
<1>4. ASSUME NEW s \in Slots, NEW d \in Ids, NEW change \in Changes, UpdateRead(s, d, change)
      PROVE  CountInv(c)'
    <2> DEFINE req == [pc |-> "update", coupon |-> d, form |-> change]
    <2>1. req.pc # "counted"
        OBVIOUS
    <2>2. /\ reqs' = [reqs EXCEPT ![s] = req] /\ reqs[s].pc # "counted"
          /\ UNCHANGED <<coupons, placed, lost>>
        BY <1>4 DEF UpdateRead, Start
    <2> HIDE DEF req
    <2> QED  BY <1>1, <1>2, <2>1, <2>2
<1>5. ASSUME NEW s \in Slots, NEW code \in Codes, Validate(s, code)
      PROVE  CountInv(c)'
    <2>1. PICK d \in Ids : /\ Start(s, [Idle EXCEPT !.pc = "validated", !.coupon = d])
                           /\ UNCHANGED <<coupons, placed, lost>>
        BY <1>5 DEF Validate
    <2> DEFINE req == [Idle EXCEPT !.pc = "validated", !.coupon = d]
    <2>2. req.pc # "counted"
        BY DEF Idle
    <2>3. reqs' = [reqs EXCEPT ![s] = req] /\ reqs[s].pc # "counted"
        BY <2>1 DEF Start
    <2> HIDE DEF req
    <2> QED  BY <1>1, <1>2, <2>1, <2>2, <2>3
<1>6. ASSUME NEW s \in Slots, NEW d \in Ids, CreateWrite(s, d)
      PROVE  CountInv(c)'
    <2>1. /\ reqs' = [reqs EXCEPT ![s] = Idle] /\ Idle.pc # "counted" /\ Idle.coupon # c
          /\ reqs[s].pc # "counted" /\ UNCHANGED <<placed, lost>>
        BY <1>6 DEF CreateWrite, Finish, Idle
    <2>2. CASE c # d
        <3>1. coupons'[c] = coupons[c]
            BY <1>0, <1>6, <2>2, CreatedDoc
        <3> QED  BY <1>1, <1>2, <2>1, <3>1
    <2>3. CASE c = d
        <3>1. coupons[c].life = "none" /\ coupons'[c].used = 0
            BY <1>0, <1>6, <2>3, CreatedDoc
        <3>2. /\ placed'[c] = 0 /\ lost'[c] = 0
              /\ \A t \in Slots : reqs'[t].coupon # c
            BY <1>0, <2>1, <3>1 DEF NewInv, TypeOK
        <3>3. Cardinality(At("counted", c)') = 0
            <4> DEFINE after == At("counted", c)'
            <4>1. after = {}
                BY <3>2 DEF At
            <4> HIDE DEF after
            <4>2. Cardinality(after) = 0
                BY <4>1, FS_EmptySet
            <4> QED  BY <4>2 DEF after
        <3> QED  BY <3>1, <3>2, <3>3 DEF CountInv, Accounted
    <2> QED  BY <2>2, <2>3
<1>7. ASSUME NEW s \in Slots, UpdateWrite(s)
      PROVE  CountInv(c)'
    <2>1. /\ reqs' = [reqs EXCEPT ![s] = Idle] /\ Idle.pc # "counted"
          /\ reqs[s].pc # "counted" /\ UNCHANGED <<placed, lost>>
        BY <1>7 DEF UpdateWrite, Idle
    <2>2. CASE ~(Stored(reqs[s].coupon) /\ reqs[s].coupon = c)
        <3>1. coupons'[c] = coupons[c]
            BY <1>0, <1>7, <2>2 DEF UpdateWrite, TypeOK
        <3> QED  BY <1>1, <1>2, <2>1, <3>1
    <2>3. CASE Stored(reqs[s].coupon) /\ reqs[s].coupon = c
        <3>1. Updates(s, c)
            BY <1>7, <2>3 DEF Updates
        <3>2. coupons'[c].used = coupons[c].used
            BY <1>0, <3>1, UpdatedDoc
        <3> QED  BY <1>1, <1>2, <2>1, <2>3, <3>2 DEF Stored
    <2> QED  BY <2>2, <2>3
<1>8. ASSUME NEW s \in Slots, Apply(s)
      PROVE  CountInv(c)'
    <2> DEFINE req == [reqs[s] EXCEPT !.pc = "counted"]
    <2>1. reqs[s] \in [pc : {"validated", "counted"}, coupon : Ids, form : {NoForm}]
        BY <1>0, <1>8 DEF Apply, TypeOK, Request
    <2>2. /\ reqs' = [reqs EXCEPT ![s] = req] /\ UNCHANGED <<placed, lost>>
          /\ req.pc = "counted" /\ req.coupon = reqs[s].coupon /\ reqs[s].pc # "counted"
        BY <1>8, <2>1 DEF Apply
    <2> HIDE DEF req
    <2>3. CASE reqs[s].coupon # c
        <3>1. coupons'[c] = coupons[c]
            BY <1>0, <1>8, <2>3 DEF Apply, TypeOK
        <3>2. At("counted", c)' = At("counted", c)
            BY <1>0, <2>2, <2>3 DEF At, TypeOK
        <3> QED  BY <1>1, <2>2, <3>1, <3>2 DEF Accounted
    <2>4. CASE reqs[s].coupon = c /\ Stored(c)
        <3>1. coupons'[c].used = coupons[c].used + 1
            BY <1>0, <1>8, <2>4, UsedDoc DEF Uses
        <3>2. Cardinality(At("counted", c)') = Cardinality(At("counted", c)) + 1 - 0
            BY ZenonT(60), <1>0, <2>2, <2>4, AtMove
        <3>3. Cardinality(At("counted", c)') = Cardinality(At("counted", c)) + 1
            BY <1>a, <3>2
        <3>4. coupons[c].used = Accounted(c)
            BY <1>0, <2>4 DEF CountInv
        <3>5. placed'[c] = placed[c] /\ lost'[c] = lost[c]
            BY <2>2
        <3> QED  BY <1>a, <3>1, <3>3, <3>4, <3>5 DEF CountInv, Accounted
    <2>5. CASE ~Stored(c)
        <3>1. coupons'[c].life # "stored"
            BY <1>0, <1>8, <2>1, <2>5 DEF Apply, TypeOK, Stored
        <3> QED  BY <3>1 DEF CountInv, Stored
    <2> QED  BY <2>3, <2>4, <2>5
<1>9. ASSUME NEW s \in Slots, Insert(s)
      PROVE  CountInv(c)'
    <2>1. /\ reqs' = [reqs EXCEPT ![s] = Idle] /\ Idle.pc # "counted"
          /\ reqs[s].pc = "counted" /\ UNCHANGED <<coupons, lost>>
          /\ placed' = [placed EXCEPT ![reqs[s].coupon] = @ + 1]
        BY <1>9 DEF Insert, Finish, Idle
    <2>2. CASE reqs[s].coupon # c
        <3>1. At("counted", c)' = At("counted", c)
            BY <1>0, <2>1, <2>2 DEF At, TypeOK
        <3>2. placed'[c] = placed[c]
            BY <1>0, <2>1, <2>2 DEF TypeOK
        <3> QED  BY <1>1, <2>1, <3>1, <3>2 DEF Accounted
    <2>3. CASE reqs[s].coupon = c
        <3>1. Cardinality(At("counted", c)') = Cardinality(At("counted", c)) + 0 - 1
            BY ZenonT(60), <1>0, <2>1, <2>3, AtMove
        <3>2. Cardinality(At("counted", c)') = Cardinality(At("counted", c)) - 1
            BY <1>a, <3>1
        <3>3. placed'[c] = placed[c] + 1 /\ lost'[c] = lost[c]
            BY <1>0, <2>1, <2>3 DEF TypeOK
        <3>4. Accounted(c)' = Accounted(c)
            BY <1>a, <3>2, <3>3 DEF Accounted
        <3> QED  BY <1>1, <2>1, <3>4
    <2> QED  BY <2>2, <2>3
<1>10. ASSUME NEW s \in Slots, Fail(s)
       PROVE  CountInv(c)'
    <2>1. /\ reqs' = [reqs EXCEPT ![s] = Idle] /\ Idle.pc # "counted"
          /\ UNCHANGED <<coupons, placed>>
        BY <1>10 DEF Fail, Finish, Idle
    <2>2. CASE reqs[s].pc # "counted"
        <3>1. lost' = lost
            BY <1>10, <2>2 DEF Fail
        <3> QED  BY <1>1, <1>2, <2>1, <2>2, <3>1
    <2>3. CASE reqs[s].pc = "counted" /\ reqs[s].coupon # c
        <3>1. At("counted", c)' = At("counted", c)
            BY <1>0, <2>1, <2>3 DEF At, TypeOK
        <3>2. lost'[c] = lost[c]
            BY <1>0, <1>10, <2>3 DEF Fail, TypeOK
        <3> QED  BY <1>1, <2>1, <3>1, <3>2 DEF Accounted
    <2>4. CASE reqs[s].pc = "counted" /\ reqs[s].coupon = c
        <3>1. Cardinality(At("counted", c)') = Cardinality(At("counted", c)) + 0 - 1
            BY ZenonT(60), <1>0, <2>1, <2>4, AtMove
        <3>2. Cardinality(At("counted", c)') = Cardinality(At("counted", c)) - 1
            BY <1>a, <3>1
        <3>3. lost'[c] = lost[c] + 1 /\ placed'[c] = placed[c]
            BY <1>0, <1>10, <2>1, <2>4 DEF Fail, TypeOK
        <3>4. Accounted(c)' = Accounted(c)
            BY <1>a, <3>2, <3>3 DEF Accounted
        <3> QED  BY <1>1, <2>1, <3>4
    <2> QED  BY <2>2, <2>3, <2>4
<1>11. ASSUME NEW d \in Ids, Delete(d)
       PROVE  CountInv(c)'
    <2>1. UNCHANGED <<placed, reqs, lost>>
        BY <1>11 DEF Delete
    <2>2. Accounted(c)' = Accounted(c)
        BY <2>1 DEF Accounted, At
    <2>3. coupons'[c].life = "stored" => coupons'[c] = coupons[c]
        BY <1>0, <1>11, DeletedDoc
    <2> QED  BY <1>0, <2>2, <2>3 DEF CountInv, Stored
<1>12. ASSUME Tick \/ UNCHANGED vars \/ \E s \in Slots : CodeRead(s)
       PROVE  CountInv(c)'
    <2>1. UNCHANGED <<coupons, placed, reqs, lost>>
        BY <1>12 DEF Tick, CodeRead, vars
    <2> QED  BY <1>0, <2>1 DEF CountInv, Accounted, Stored, At
<1> QED
    BY <1>3, <1>4, <1>5, <1>6, <1>7, <1>8, <1>9, <1>10, <1>11, <1>12 DEF Next

-----------------------------------------------------------------------------
(* The invariant holds, and what follows from it                           *)

\* The parts together are kept by every step of the coupon service.
THEOREM Inductive == Spec => []IInv
<1>1. Init => IInv
    <2> SUFFICES ASSUME Init  PROVE IInv
        OBVIOUS
    <2>1. TypeOK
        BY IdleType DEF Init, TypeOK, NoDoc, CouponDoc, Limit, Date
    <2>2. \A c \in Ids : coupons[c].life = "none" /\ placed[c] = 0 /\ lost[c] = 0
        BY DEF Init, NoDoc
    <2>3. \A s \in Slots : reqs[s].coupon = NoId /\ reqs[s].pc = "idle"
        BY DEF Init, Idle
    <2> QED
        BY <2>1, <2>2, <2>3
        DEF IInv, NewInv, LimitInv, UseInv, FreshInv, CodesUnique, CountsAddUp, Stored
<1>2. IInv /\ [Next]_vars => IInv'
    <2> SUFFICES ASSUME IInv, [Next]_vars  PROVE IInv'
        OBVIOUS
    <2>1. TypeOK'
        BY TypeStep DEF IInv
    <2>2. \A c \in Ids : NewInv(c)' /\ LimitInv(c)' /\ UseInv(c)'
        BY NewStep, LimitStep, UseStep
    <2>3. \A s \in Slots : FreshInv(s)'
        BY FreshStep
    <2> QED  BY <2>1, <2>2, <2>3, CodesStep, CountStep DEF IInv
<1> QED  BY <1>1, <1>2, PTL DEF Spec

\* No two stored coupons have the same code.
THEOREM CodesTheorem == Spec => []CodesUnique
<1>1. IInv => CodesUnique
    BY DEF IInv
<1> QED  BY <1>1, Inductive, PTL

\* The counter of a coupon is explained, use by use.
THEOREM CountsTheorem == Spec => []CountsAddUp
<1>1. IInv => CountsAddUp
    BY DEF IInv
<1> QED  BY <1>1, Inductive, PTL

\* A limit is exceeded by less than the number of requests in flight.
THEOREM OveruseTheorem == Spec => []OveruseIsBounded
<1>1. ASSUME IInv, NEW c \in Ids, Stored(c), Unlimited \notin limits[c]
      PROVE  \E l \in limits[c] : coupons[c].used < l + Cardinality(Slots)
    <2>1. PICK l \in limits[c] :
              coupons[c].used + Cardinality(At("validated", c)) < l + Cardinality(Slots)
        BY <1>1 DEF IInv, UseInv
    <2>2. l \in Nat /\ coupons[c].used \in Nat
        BY <1>1, <2>1 DEF IInv, TypeOK, Limit, Unlimited, CouponDoc
    <2> QED  BY <2>1, <2>2, AtCount, SlotsCount
<1>2. IInv => OveruseIsBounded
    BY <1>1 DEF OveruseIsBounded
<1> QED  BY <1>2, Inductive, PTL

\* What an update's check saw in order is in order once written, unless the
\* update clears the end of the window.
LEMMA CheckedStaysOrdered ==
    ASSUME NEW doc \in CouponDoc, NEW change \in Change, Ordered(doc),
           WindowChecked(doc, change), change.to # Epoch
    PROVE  Ordered(Updated(doc, change))
<1> DEFINE from == Or(change.from, doc.from)
           to == Or(change.to, doc.to)
<1>1. Updated(doc, change).from = from /\ Updated(doc, change).to = to
    BY DEF Updated, CouponDoc
<1>2. /\ doc.from \in Date /\ doc.to \in Date
      /\ change.from \in Date \cup {Keep} /\ change.to \in Date \cup {Keep}
    BY DEF CouponDoc, Change
<1>3. doc.from < doc.to
    BY DEF Ordered
<1>4. CASE change.from = Epoch /\ Keep # Epoch
    <2>1. from = -1
        BY <1>4 DEF Or, Epoch
    <2>2. CASE Dated(change.to)
        <3>1. to \in Nat
            BY <1>2, <2>2 DEF Or, Dated, Date
        <3> QED  BY <2>1, <3>1, <1>1 DEF Ordered
    <2>3. CASE ~Dated(change.to)
        <3>1. to = doc.to /\ doc.to >= 0
            BY <1>2, <1>3, <2>3 DEF Or, Dated, Date, Epoch
        <3> QED  BY <2>1, <3>1, <1>1, <1>2 DEF Ordered, Date, Epoch
    <2> QED  BY <2>2, <2>3
<1>5. CASE change.from # Epoch \/ Keep = Epoch
    <2>1. /\ Dated(change.from) => from = change.from
          /\ ~Dated(change.from) => from = doc.from
          /\ Dated(change.to) => to = change.to
          /\ ~Dated(change.to) => to = doc.to
        BY <1>5 DEF Or, Dated
    <2> HIDE DEF from, to
    <2> QED  BY <1>1, <1>3, <2>1 DEF WindowChecked, Ordered
<1> QED  BY <1>4, <1>5

\* A window is turned around only by an update whose check did not see it: one
\* that another update overtook, or that clears the end of the window.
THEOREM InvertedTheorem == Spec => InvertedOnlyUnseen
<1>1. ASSUME IInv, [Next]_vars, NEW c \in Ids,
             Stored(c), Ordered(coupons[c]), ~Ordered(coupons'[c])
      PROVE  \E s \in At("update", c) :
                 reqs'[s].pc = "idle" /\ (s \in stale \/ reqs[s].form.to = Epoch)
    <2>0. TypeOK
        BY <1>1 DEF IInv
    <2>1. PICK s \in Slots : Updates(s, c)
        <3>1. ASSUME NEW d \in Ids, coupons'[d] = coupons[d]
              PROVE  d # c
            BY <1>1, <3>1
        <3>2. ASSUME NEW s \in Slots, NEW d \in Ids, CreateWrite(s, d)
              PROVE  FALSE
            BY <1>1, <2>0, <3>1, <3>2, CreatedDoc DEF Stored
        <3>3. ASSUME NEW s \in Slots, NEW d \in Ids, Uses(s, d)
              PROVE  FALSE
            BY <1>1, <2>0, <3>3, UsedDoc DEF Ordered
        <3>4. ASSUME NEW d \in Ids, Delete(d)
              PROVE  FALSE
            <4>1. coupons'[c].from = coupons[c].from /\ coupons'[c].to = coupons[c].to
                <5>1. coupons[c] \in CouponDoc
                    BY <2>0 DEF TypeOK
                <5> QED  BY <2>0, <3>4, <5>1 DEF Delete, TypeOK, CouponDoc
            <4> QED  BY <1>1, <4>1 DEF Ordered
        <3>5. ASSUME NEW s \in Slots, NEW d \in Ids, Updates(s, d)
              PROVE  d = c
            BY <1>1, <2>0, <3>1, <3>5, UpdatedDoc
        <3>6. ~UNCHANGED coupons
            BY <1>1
        <3> QED  BY <1>1, <2>0, <3>2, <3>3, <3>4, <3>5, <3>6, DocumentStep
    <2>2. reqs[s].pc = "update" /\ reqs[s].coupon = c /\ reqs'[s] = Idle
        BY <2>0, <2>1 DEF Updates, UpdateWrite, TypeOK
    <2>3. coupons'[c] = Updated(coupons[c], reqs[s].form) /\ reqs[s].form \in Change
        BY <2>0, <2>1, UpdatedDoc
    <2>4. reqs[s].form.to = Epoch \/ ~WindowChecked(coupons[c], reqs[s].form)
        <3>1. coupons[c] \in CouponDoc
            BY <2>0 DEF TypeOK
        <3> QED  BY <1>1, <2>3, <3>1, CheckedStaysOrdered
    <2>5. s \in stale \/ reqs[s].form.to = Epoch
        BY <1>1, <2>2, <2>4 DEF IInv, FreshInv
    <2> QED  BY <2>2, <2>5 DEF At, Idle
<1>2. IInv /\ [Next]_vars =>
          [\A c \in Ids :
              Stored(c) /\ Ordered(coupons[c]) /\ ~Ordered(coupons'[c]) =>
                  \E s \in At("update", c) :
                      reqs'[s].pc = "idle" /\ (s \in stale \/ reqs[s].form.to = Epoch)]_vars
    BY <1>1
<1> QED  BY <1>2, Inductive, PTL DEF Spec, InvertedOnlyUnseen
=============================================================================
