----------------------------- MODULE DeskProofs -----------------------------
(***************************************************************************)
(* Proofs about Desk and Intake, for every set of fields, versions of the  *)
(* game, bodies and page sizes, and every number of requests and orders.   *)
(***************************************************************************)
EXTENDS Desk, TLAPS

-----------------------------------------------------------------------------
(* Requests                                                                *)

\* The game as it was at some moment of the request could be ordered.
Offered(p) == \E v \in p.seen : v.active /\ (p.body.package <=> v.type # "steam")

\* The fields fit the game as it was at some moment since the save hook.
Fitted(p) == \E v \in p.last : Complete(p.body.info, v) /\ NoStray(p.body.info, v)

\* What a request on its way has established.
Established(p) ==
    /\ p.pc # "idle" /\ "accountInfo" \notin p.checks => EmailsValid(p.body.info)
    /\ p.pc \in {"game", "package", "hook", "insert"} => p.checks = {}
    /\ p.pc \in {"package", "hook", "insert"} => Offered(p)
    /\ p.pc = "insert" => Fitted(p)

PlacingSound ==
    \A s \in Slots : /\ Established(placing[s])
                     /\ placing[s].pc # "idle" => game \in placing[s].seen

Ciphers == {"sealed three", "sealed more"}

NumbersSealed == \A i \in 1..Len(orders) : orders[i].number \in {"none"} \cup Ciphers

IntakeInv == IntakeTypeOK /\ PlacingSound /\ NumbersSealed

\* The idle request is a request, and has nothing to establish.
LEMMA IdlePlaceSound == IdlePlace \in Place /\ Established(IdlePlace) /\ IdlePlace.pc = "idle"
<1>1. NoBody \in Body
  BY DEF NoBody, Body, Values
<1>2. IdlePlace \in Place
  BY <1>1 DEF IdlePlace, Place
<1> QED
  BY <1>2 DEF IdlePlace, Established

\* The collections hold as requests begin.
LEMMA IntakeStart == IntakeInit => IntakeInv
<1> SUFFICES ASSUME IntakeInit PROVE IntakeInv
  OBVIOUS
<1>1. orders = <<>> /\ edited = 0 /\ game \in Versions /\ sold \in BOOLEAN
  BY DEF IntakeInit
<1>2. \A s \in Slots : placing[s] = IdlePlace
  BY DEF IntakeInit
<1>3. IntakeTypeOK
  BY <1>1, IdlePlaceSound DEF IntakeInit, IntakeTypeOK
<1>4. PlacingSound
  BY <1>2, IdlePlaceSound DEF PlacingSound
<1>5. NumbersSealed
  BY <1>1 DEF NumbersSealed
<1> QED
  BY <1>3, <1>4, <1>5 DEF IntakeInv

\* A step of one request that leaves the game and the orders alone: what the
\* request becomes is all there is to see to.
LEMMA OneRequest ==
    ASSUME IntakeInv, NEW s \in Slots, NEW p \in Place,
           placing' = [placing EXCEPT ![s] = p],
           UNCHANGED <<game, sold, orders, edited>>,
           Established(p), p.pc # "idle" => game \in p.seen
    PROVE  IntakeInv'
<1>1. /\ placing \in [Slots -> Place] /\ game \in Versions /\ sold \in BOOLEAN
      /\ orders \in Seq(Order) /\ edited \in Nat
  BY DEF IntakeInv, IntakeTypeOK
<1>2. IntakeTypeOK'
  BY <1>1 DEF IntakeTypeOK
<1>3. NumbersSealed'
  BY DEF IntakeInv, NumbersSealed
<1>4. ASSUME NEW t \in Slots
      PROVE  /\ Established(placing'[t])
             /\ placing'[t].pc # "idle" => game \in placing'[t].seen
  <2>1. CASE t = s
    <3>1. placing'[t] = p
      BY <1>1, <2>1
    <3> QED
      BY <3>1
  <2>2. CASE t # s
    <3>1. placing'[t] = placing[t]
      BY <1>1, <2>2
    <3> QED
      BY <3>1 DEF IntakeInv, PlacingSound
  <2> QED
    BY <2>1, <2>2
<1>5. PlacingSound'
  BY <1>4 DEF PlacingSound, Established, Offered, Fitted, Complete, NoStray, EmailsValid
<1> QED
  BY <1>2, <1>3, <1>5 DEF IntakeInv

\* A body that comes in is a body, and its request has everything to establish.
LEMMA ReceiveSound == ASSUME IntakeInv, NEW s \in Slots, NEW b \in Bodies, Receive(s, b)
                      PROVE  IntakeInv'
<1> DEFINE p == [pc |-> "validate", body |-> b, seen |-> {game}, last |-> {},
                 checks |-> {"accountInfo"} \cup (IF b.package THEN {"packageId"} ELSE {})]
<1>1. b \in Body /\ game \in Versions
  BY IntakeAssumption DEF IntakeInv, IntakeTypeOK
<1>2. p \in Place
  <2>1. {"accountInfo"} \cup (IF b.package THEN {"packageId"} ELSE {})
            \in SUBSET {"accountInfo", "packageId"}
    OBVIOUS
  <2> QED
    BY <1>1, <2>1 DEF Place
<1>3. Established(p) /\ game \in p.seen
  BY DEF Established
<1>4. placing' = [placing EXCEPT ![s] = p] /\ UNCHANGED <<game, sold, orders, edited>>
  BY DEF Receive
<1> HIDE DEF p
<1> QED
  BY <1>2, <1>3, <1>4, OneRequest

\* Each check adds its part to what is established.
LEMMA ValidateSound ==
    ASSUME IntakeInv, NEW s \in Slots, NEW check \in {"accountInfo", "packageId"},
           Validate(s, check)
    PROVE  IntakeInv'
<1> DEFINE old == placing[s]
           p == [old EXCEPT !.checks = @ \ {check},
                            !.pc = IF old.checks = {check} THEN "game" ELSE "validate"]
<1>1. /\ old \in Place /\ game \in Versions /\ old.pc = "validate" /\ check \in old.checks
      /\ Established(old) /\ game \in old.seen
      /\ check = "accountInfo" => ValidAccountInfo(old.body, game)
  BY DEF IntakeInv, IntakeTypeOK, PlacingSound, Validate
<1>2. placing' = [placing EXCEPT ![s] = p] /\ UNCHANGED <<game, sold, orders, edited>>
  BY DEF Validate
<1> HIDE DEF old
<1>3. p \in Place /\ p.body = old.body /\ p.checks = old.checks \ {check} /\ p.seen = old.seen
  BY <1>1 DEF Place
<1>4. p.pc = IF old.checks = {check} THEN "game" ELSE "validate"
  BY <1>1 DEF Place
<1> HIDE DEF p
<1>5. "accountInfo" \notin p.checks => EmailsValid(p.body.info)
  <2>1. check = "accountInfo" => EmailsValid(old.body.info)
    BY <1>1 DEF ValidAccountInfo
  <2>2. "accountInfo" \notin old.checks => EmailsValid(old.body.info)
    BY <1>1 DEF Established
  <2> QED
    BY <1>3, <2>1, <2>2
<1>6. p.pc = "game" => p.checks = {}
  BY <1>3, <1>4
<1>7. Established(p)
  BY <1>4, <1>5, <1>6 DEF Established
<1> QED
  BY <1>1, <1>2, <1>3, <1>7, OneRequest

\* createOrder has read the game: the game as it is now is one the request saw.
LEMMA ReadGameSound == ASSUME IntakeInv, NEW s \in Slots, ReadGame(s) PROVE IntakeInv'
<1> DEFINE old == placing[s]
           p == [old EXCEPT !.pc = IF game.type = "steam" THEN "hook" ELSE "package"]
<1>1. /\ old \in Place /\ old.pc = "game" /\ Established(old) /\ game \in old.seen
      /\ Orderable(old.body, game)
  BY DEF IntakeInv, IntakeTypeOK, PlacingSound, ReadGame
<1>2. placing' = [placing EXCEPT ![s] = p] /\ UNCHANGED <<game, sold, orders, edited>>
  BY DEF ReadGame, Goto
<1> HIDE DEF old
<1>3. /\ p \in Place /\ p.body = old.body /\ p.checks = old.checks /\ p.seen = old.seen
      /\ p.pc \in {"hook", "package"}
  BY <1>1 DEF Place
<1> HIDE DEF p
<1>4. Offered(p)
  BY <1>1, <1>3 DEF Orderable, Offered
<1>5. Established(p)
  BY <1>1, <1>3, <1>4 DEF Established
<1> QED
  BY <1>1, <1>2, <1>3, <1>5, OneRequest

\* Having read the package establishes nothing more about the game.
LEMMA ReadPackageSound == ASSUME IntakeInv, NEW s \in Slots, ReadPackage(s) PROVE IntakeInv'
<1> DEFINE old == placing[s]
           p == [old EXCEPT !.pc = "hook"]
<1>1. old \in Place /\ old.pc = "package" /\ Established(old) /\ game \in old.seen
  BY DEF IntakeInv, IntakeTypeOK, PlacingSound, ReadPackage
<1>2. placing' = [placing EXCEPT ![s] = p] /\ UNCHANGED <<game, sold, orders, edited>>
  BY DEF ReadPackage, Goto
<1> HIDE DEF old
<1>3. /\ p \in Place /\ p.body = old.body /\ p.checks = old.checks /\ p.seen = old.seen
      /\ p.pc = "hook"
  BY <1>1 DEF Place
<1> HIDE DEF p
<1>4. Offered(p)
  BY <1>1, <1>3 DEF Established, Offered
<1>5. Established(p)
  BY <1>1, <1>3, <1>4 DEF Established
<1> QED
  BY <1>1, <1>2, <1>3, <1>5, OneRequest

\* The save hook has compared the fields with the game as it is.
LEMMA HookSound == ASSUME IntakeInv, NEW s \in Slots, Hook(s) PROVE IntakeInv'
<1> DEFINE old == placing[s]
           p == [old EXCEPT !.pc = "insert", !.last = {game}]
<1>1. /\ old \in Place /\ old.pc = "hook" /\ Established(old) /\ game \in old.seen
      /\ Saveable(old.body, game) /\ game \in Versions
  BY DEF IntakeInv, IntakeTypeOK, PlacingSound, Hook
<1>2. placing' = [placing EXCEPT ![s] = p] /\ UNCHANGED <<game, sold, orders, edited>>
  BY DEF Hook, IntakeInv, IntakeTypeOK
<1> HIDE DEF old
<1>3. /\ p \in Place /\ p.body = old.body /\ p.checks = old.checks /\ p.seen = old.seen
      /\ p.pc = "insert" /\ p.last = {game}
  BY <1>1 DEF Place
<1> HIDE DEF p
<1>4. Offered(p) /\ Fitted(p)
  BY <1>1, <1>3 DEF Established, Offered, Fitted, Saveable
<1>5. Established(p)
  BY <1>1, <1>3, <1>4 DEF Established
<1> QED
  BY <1>1, <1>2, <1>3, <1>5, OneRequest

\* An order is stored as it was checked, without a transfer number.
LEMMA InsertSound == ASSUME IntakeInv, NEW s \in Slots, Insert(s) PROVE IntakeInv'
<1> DEFINE b == placing[s].body
           o == [info |-> b.info, package |-> b.package, method |-> b.method,
                 status |-> "pending", number |-> "none", name |-> "none"]
<1>1. /\ placing \in [Slots -> Place] /\ game \in Versions /\ sold \in BOOLEAN
      /\ orders \in Seq(Order) /\ edited \in Nat
  BY DEF IntakeInv, IntakeTypeOK
<1>2. /\ orders' = Append(orders, o)
      /\ placing' = [placing EXCEPT ![s] = IdlePlace]
      /\ UNCHANGED <<game, sold, edited>>
  BY DEF Insert
<1>3. b \in Body
  BY <1>1 DEF Place
<1> HIDE DEF b
<1>4. o \in Order /\ o.number = "none"
  BY <1>3 DEF Order, Body
<1> HIDE DEF o
<1>5. orders' \in Seq(Order)
  BY <1>1, <1>2, <1>4
<1>6. IntakeTypeOK'
  BY <1>1, <1>2, <1>5, IdlePlaceSound DEF IntakeTypeOK
<1>7. NumbersSealed'
  <2>1. ASSUME NEW i \in 1..Len(orders') PROVE orders'[i].number \in {"none"} \cup Ciphers
    <3>1. CASE i = Len(orders) + 1
      BY <1>1, <1>2, <1>4, <3>1
    <3>2. CASE i # Len(orders) + 1
      <4>1. i \in 1..Len(orders) /\ orders'[i] = orders[i]
        BY <1>1, <1>2, <1>4, <3>2
      <4> QED
        BY <4>1 DEF IntakeInv, NumbersSealed
    <3> QED
      BY <3>1, <3>2
  <2> QED
    BY <2>1 DEF NumbersSealed
<1>8. ASSUME NEW t \in Slots
      PROVE  /\ Established(placing'[t])
             /\ placing'[t].pc # "idle" => game \in placing'[t].seen
  <2>1. CASE t = s
    <3>1. placing'[t] = IdlePlace
      BY <1>1, <1>2, <2>1
    <3> QED
      BY <3>1, IdlePlaceSound
  <2>2. CASE t # s
    <3>1. placing'[t] = placing[t]
      BY <1>1, <1>2, <2>2
    <3> QED
      BY <3>1 DEF IntakeInv, PlacingSound
  <2> QED
    BY <2>1, <2>2
<1>9. PlacingSound'
  BY <1>2, <1>8
     DEF PlacingSound, Established, Offered, Fitted, Complete, NoStray, EmailsValid
<1> QED
  BY <1>6, <1>7, <1>9 DEF IntakeInv

\* A change of the game takes nothing away: what the requests have seen only grows.
LEMMA EditGameSound == ASSUME IntakeInv, NEW v \in Versions, EditGame(v) PROVE IntakeInv'
<1> DEFINE Edited(p) == [p EXCEPT !.seen = IF p.pc = "idle" THEN {} ELSE @ \cup {v},
                                  !.last = IF p.pc = "insert" THEN @ \cup {v} ELSE {}]
<1>1. /\ placing \in [Slots -> Place] /\ game \in Versions /\ sold \in BOOLEAN
      /\ orders \in Seq(Order) /\ edited \in Nat
  BY DEF IntakeInv, IntakeTypeOK
<1>2. /\ placing' = [s \in Slots |-> Edited(placing[s])]
      /\ game' = v /\ edited' = edited + 1 /\ UNCHANGED <<sold, orders>>
  BY DEF EditGame
<1>3. ASSUME NEW p \in Place
      PROVE  /\ Edited(p) \in Place
             /\ Edited(p).pc = p.pc /\ Edited(p).body = p.body /\ Edited(p).checks = p.checks
             /\ p.pc # "idle" => Edited(p).seen = p.seen \cup {v}
             /\ p.pc = "insert" => Edited(p).last = p.last \cup {v}
  BY DEF Place
<1> HIDE DEF Edited
<1>4. IntakeTypeOK'
  BY <1>1, <1>2, <1>3 DEF IntakeTypeOK
<1>5. NumbersSealed'
  BY <1>2 DEF IntakeInv, NumbersSealed
<1>6. ASSUME NEW s \in Slots
      PROVE  /\ Established(placing'[s])
             /\ placing'[s].pc # "idle" => game' \in placing'[s].seen
  <2>1. PICK p \in Place : p = placing[s] /\ Established(p)
    BY <1>1 DEF IntakeInv, PlacingSound
  <2>2. PICK q \in Place : q = placing'[s] /\ q = Edited(p)
    BY <1>2, <1>3, <2>1
  <2>3. /\ q.pc = p.pc /\ q.body = p.body /\ q.checks = p.checks
        /\ p.pc # "idle" => q.seen = p.seen \cup {v}
        /\ p.pc = "insert" => q.last = p.last \cup {v}
    BY <1>3, <2>2
  <2>4. Offered(p) /\ p.pc # "idle" => Offered(q)
    BY <2>3 DEF Offered
  <2>5. Fitted(p) /\ p.pc = "insert" => Fitted(q)
    BY <2>3 DEF Fitted
  <2>6. Established(q)
    BY <2>1, <2>3, <2>4, <2>5 DEF Established
  <2> QED
    BY <1>2, <2>2, <2>3, <2>6
<1>7. PlacingSound'
  BY <1>6 DEF PlacingSound, Established, Offered, Fitted, Complete, NoStray, EmailsValid
<1> QED
  BY <1>4, <1>5, <1>7 DEF IntakeInv

\* Every step of the requests and the administrators.
LEMMA IntakeStep == ASSUME IntakeInv, IntakeNext PROVE IntakeInv'
<1>1. ASSUME NEW s \in Slots, Refuse(s) PROVE IntakeInv'
  <2>1. placing' = [placing EXCEPT ![s] = IdlePlace] /\ UNCHANGED <<game, sold, orders, edited>>
    BY <1>1 DEF Refuse
  <2> QED
    BY <2>1, IdlePlaceSound, OneRequest
<1>2. CASE EditPackage
  BY <1>2 DEF EditPackage, IntakeInv, IntakeTypeOK, PlacingSound, NumbersSealed, Established,
              Offered, Fitted, Complete, NoStray, EmailsValid
<1> QED
  BY <1>1, <1>2, ReceiveSound, ValidateSound, ReadGameSound, ReadPackageSound, HookSound,
     InsertSound, EditGameSound DEF IntakeNext

-----------------------------------------------------------------------------
(* Lists                                                                   *)

\* The walks WalkComplete says nothing of.
Excused == slipped \/ (walk.role = "customer" /\ walk.limit > MaxPageSize)

\* The orders that were there at the beginning and are now in front of the next
\* page have been shown; an order never moves to an earlier page.
WalkSound ==
    /\ walk.had \subseteq 1..Len(orders)
    /\ walk.page >= 1
    /\ walk.pc \in {"page", "find"} /\ ~Excused =>
           \A i \in walk.had : Len(orders) - i < Skip(walk.page, walk.limit) => i \in walk.shown
    /\ walk.pc = "done" /\ ~Excused => walk.had \subseteq walk.shown

DeskInv == TypeOK /\ IntakeInv /\ WalkSound

\* The number of the last page.
LEMMA PagesTyped == ASSUME NEW total \in Nat, NEW limit \in Nat \ {0}
                    PROVE  TotalPages(total, limit) \in Nat
BY DEF TotalPages

\* The pages up to the last one hold all the orders that were counted.
LEMMA PagesReach ==
    ASSUME NEW total \in Nat, NEW limit \in Nat \ {0}, NEW page \in Nat \ {0},
           page >= TotalPages(total, limit)
    PROVE  total <= page * limit
<1> DEFINE q == TotalPages(total, limit)
<1>1. total + limit - 1 < q * limit + limit /\ q \in Nat
  BY DEF TotalPages
<1> HIDE DEF q
<1>2. total <= q * limit
  BY <1>1
<1>3. q * limit <= page * limit
  BY <1>1 DEF q
<1> QED
  BY <1>1, <1>2, <1>3

\* The next page begins where this one ends.
LEMMA NextSkip == ASSUME NEW page \in Nat \ {0}, NEW limit \in Nat \ {0}
                  PROVE  /\ Skip(page + 1, limit) = page * limit
                         /\ Skip(page, limit) + limit = page * limit
                         /\ Skip(page, limit) \in Nat
BY DEF Skip

\* A page that comes with the count it was made with shows what was in front of
\* the next one, and the last page all the rest.
LEMMA TurnSound ==
    ASSUME DeskInv, NEW total \in Nat, walk.pc \in {"page", "find"}, Turn(total),
           UNCHANGED orders, ~slipped' => ~slipped /\ total = Len(orders)
    PROVE  walk' \in Walk /\ WalkSound'
<1> DEFINE page == walk.page
           limit == walk.limit
           more == page < TotalPages(total, limit)
           new == Page(walk.role, page, limit)
<1>1. /\ walk \in Walk /\ Len(orders) \in Nat /\ orders \in Seq(Order)
      /\ page \in Nat \ {0} /\ limit \in Nat \ {0} /\ MaxPageSize \in Nat
      /\ walk.had \subseteq 1..Len(orders)
  <2>1. walk \in Walk /\ orders \in Seq(Order) /\ walk.had \subseteq 1..Len(orders)
    BY DEF DeskInv, TypeOK, IntakeTypeOK, WalkSound
  <2>2. walk.page \in Nat /\ walk.limit \in Limits
    BY <2>1 DEF Walk
  <2>3. walk.page >= 1
    BY DEF DeskInv, WalkSound
  <2>4. page \in Nat \ {0}
    BY <2>2, <2>3
  <2>5. limit \in Nat \ {0} /\ MaxPageSize \in Nat
    BY <2>2, DeskAssumption
  <2>6. Len(orders) \in Nat
    BY <2>1
  <2> QED
    BY <2>1, <2>4, <2>5, <2>6
<1>2. new \subseteq 1..Len(orders)
  BY DEF Page
<1> HIDE DEF new
<1>3. /\ walk' \in Walk
      /\ walk'.role = walk.role /\ walk'.limit = limit /\ walk'.had = walk.had
      /\ walk'.shown = walk.shown \cup new
      /\ more => walk'.pc = "page" /\ walk'.page = page + 1
      /\ ~more => walk'.pc = "done" /\ walk'.page = page
  <2>1. walk' = [walk EXCEPT !.shown = walk.shown \cup new,
                             !.total = total,
                             !.page = IF more THEN page + 1 ELSE page,
                             !.pc = IF more THEN "page" ELSE "done"]
    BY DEF Turn, new
  <2> HIDE DEF more
  <2>2. new \subseteq Nat /\ page + 1 \in Nat
    BY <1>1, <1>2
  <2> HIDE DEF page, limit
  <2>3. page \in Nat
    BY <1>1
  <2> QED
    BY <1>1, <2>1, <2>2, <2>3 DEF Walk, limit
<1>4. Excused' <=> slipped' \/ (walk.role = "customer" /\ limit > MaxPageSize)
  BY <1>3 DEF Excused
<1>5. ASSUME ~Excused', NEW i \in walk.had, Len(orders) - i < page * limit
      PROVE  i \in walk'.shown
  <2>1. ~Excused
    BY <1>4, <1>5 DEF Excused
  <2>2. PageSize(walk.role, limit) = limit
    BY <1>1, <2>1 DEF Excused, PageSize, Least, Walk
  <2>3. CASE Len(orders) - i < Skip(page, limit)
    BY <1>3, <2>1, <2>3 DEF DeskInv, WalkSound
  <2>4. CASE ~(Len(orders) - i < Skip(page, limit))
    <3>1. i \in 1..Len(orders) /\ Skip(page, limit) \in Nat
      BY <1>1, NextSkip
    <3>2. Len(orders) - i >= Skip(page, limit)
      BY <1>1, <2>4, <3>1
    <3>3. Len(orders) - i < Skip(page, limit) + limit
      BY <1>1, <1>5, NextSkip
    <3>4. i \in new
      BY <2>2, <3>1, <3>2, <3>3 DEF Page, new
    <3> QED
      BY <1>3, <3>4
  <2> QED
    BY <2>3, <2>4
<1>6. CASE more
  <2>1. Skip(page + 1, limit) = page * limit
    BY <1>1, NextSkip
  <2> QED
    BY <1>1, <1>3, <1>5, <1>6, <2>1 DEF WalkSound
<1>7. CASE ~more
  <2>1. ASSUME ~Excused', NEW i \in walk.had PROVE i \in walk'.shown
    <3>1. total = Len(orders) /\ i \in 1..Len(orders)
      BY <1>1, <1>4, <2>1
    <3>2. TotalPages(total, limit) \in Nat
      BY <1>1, PagesTyped
    <3>3. total <= page * limit
      BY <1>1, <1>7, <3>2, PagesReach
    <3>4. page * limit \in Nat
      BY <1>1
    <3>5. Len(orders) - i < page * limit
      BY <1>1, <3>1, <3>3, <3>4
    <3> QED
      BY <1>5, <2>1, <3>5
  <2> QED
    BY <1>1, <1>3, <1>7, <2>1 DEF WalkSound
<1> QED
  BY <1>6, <1>7

\* Orders are only added: a walk that stays as it is stays sound.
LEMMA WalkWaits ==
    ASSUME DeskInv, UNCHANGED <<walk, slipped>>,
           orders' \in Seq(Order), Len(orders') >= Len(orders)
    PROVE  WalkSound'
<1>1. /\ walk \in Walk /\ Len(orders) \in Nat /\ Len(orders') \in Nat
      /\ orders \in Seq(Order)
  BY DEF DeskInv, TypeOK, IntakeTypeOK
<1>2. walk.page \in Nat /\ walk.limit \in Nat /\ walk.had \subseteq 1..Len(orders)
  BY <1>1, DeskAssumption DEF Walk, DeskInv, WalkSound
<1>3. Skip(walk.page, walk.limit) \in Int
  BY <1>2 DEF Skip
<1>4. ASSUME NEW i \in walk.had, Len(orders') - i < Skip(walk.page, walk.limit)
      PROVE  Len(orders) - i < Skip(walk.page, walk.limit)
  BY <1>1, <1>2, <1>3, <1>4
<1>5. Excused' <=> Excused
  BY DEF Excused
<1>6. walk.had \subseteq 1..Len(orders')
  BY <1>1, <1>2
<1>7. walk.pc \in {"page", "find"} /\ ~Excused =>
          \A i \in walk.had :
              Len(orders') - i < Skip(walk.page, walk.limit) => i \in walk.shown
  BY <1>4 DEF DeskInv, WalkSound
<1> QED
  BY <1>5, <1>6, <1>7 DEF DeskInv, WalkSound, Skip

\* An order is added or changed by the requests and the administrators: never
\* taken away.
LEMMA OrdersGrow == ASSUME IntakeInv, IntakeNext PROVE Len(orders') >= Len(orders)
<1>1. Len(orders) \in Nat /\ orders \in Seq(Order)
  BY DEF IntakeInv, IntakeTypeOK
<1>2. ASSUME NEW s \in Slots, Insert(s) PROVE Len(orders') >= Len(orders)
  BY <1>1, <1>2 DEF Insert
<1>3. CASE UNCHANGED orders
  BY <1>1, <1>3
<1> QED
  BY <1>2, <1>3 DEF IntakeNext, Receive, Validate, ReadGame, ReadPackage, Hook, Refuse,
                    EditGame, EditPackage, Goto

-----------------------------------------------------------------------------
(* The desk                                                                *)

LEMMA DeskInit == Init => DeskInv
<1> SUFFICES ASSUME Init PROVE DeskInv
  OBVIOUS
<1>1. IntakeInv /\ IntakeTypeOK /\ orders = <<>>
  BY IntakeStart DEF Init, IntakeInit, IntakeInv
<1>2. /\ walk \in [pc : {"idle"}, role : Roles, limit : Limits,
                   page : {1}, total : {0}, had : {{}}, shown : {{}}]
      /\ slipped = FALSE
  BY DEF Init
<1>3. walk \in Walk /\ walk.pc = "idle" /\ walk.page = 1 /\ walk.had = {}
  BY <1>2 DEF Walk
<1>4. WalkSound
  BY <1>3 DEF WalkSound
<1> QED
  BY <1>1, <1>2, <1>3, <1>4 DEF DeskInv, TypeOK

\* A submission seals the number of one order.
LEMMA SubmitSound ==
    ASSUME DeskInv, NEW i \in 1..Len(orders), NEW number \in Numbers,
           SubmitWalletTransfer(i, number)
    PROVE  IntakeInv' /\ Len(orders') = Len(orders)
<1> DEFINE old == orders[i]
           new == [old EXCEPT !.status = "processing", !.number = Encrypt(number),
                              !.name = IF old.method = "insta-transfer" THEN "sealed" ELSE @]
<1>1. orders \in Seq(Order) /\ old \in Order
  BY DEF DeskInv, TypeOK, IntakeTypeOK
<1>2. orders' = [orders EXCEPT ![i] = new] /\ UNCHANGED <<game, sold, placing, edited>>
  BY DEF SubmitWalletTransfer
<1> HIDE DEF old
<1>3. new \in Order /\ new.number \in Ciphers
  <2>1. Encrypt(number) \in Ciphers
    BY DEF Encrypt, Ciphers
  <2> HIDE DEF Encrypt
  <2> QED
    BY <1>1, <2>1 DEF Order, Ciphers
<1> HIDE DEF new
<1>4. orders' \in Seq(Order) /\ Len(orders') = Len(orders)
  BY <1>1, <1>2, <1>3
<1>5. \A k \in 1..Len(orders) : orders'[k] = IF k = i THEN new ELSE orders[k]
  BY <1>1, <1>2, <1>3
<1>6. NumbersSealed'
  BY <1>3, <1>4, <1>5 DEF DeskInv, IntakeInv, NumbersSealed
<1>7. IntakeTypeOK'
  BY <1>2, <1>4 DEF DeskInv, TypeOK, IntakeTypeOK
<1>8. PlacingSound'
  BY <1>2 DEF DeskInv, IntakeInv, PlacingSound, Established, Offered, Fitted, Complete,
              NoStray, EmailsValid
<1> QED
  BY <1>4, <1>6, <1>7, <1>8 DEF IntakeInv

\* The requests, the submissions and the walks keep what each has established.
LEMMA DeskStep == DeskInv /\ [Next]_vars => DeskInv'
<1> SUFFICES ASSUME DeskInv, [Next]_vars PROVE DeskInv'
  OBVIOUS
<1>1. /\ IntakeInv /\ IntakeTypeOK /\ orders \in Seq(Order) /\ Len(orders) \in Nat
      /\ walk \in Walk /\ slipped \in BOOLEAN
  BY DEF DeskInv, TypeOK, IntakeTypeOK
<1>2. ASSUME IntakeInv', UNCHANGED <<walk, slipped>>, Len(orders') >= Len(orders)
      PROVE  DeskInv'
  <2>1. orders' \in Seq(Order)
    BY <1>2 DEF IntakeInv, IntakeTypeOK
  <2>2. WalkSound'
    BY <1>2, <2>1, WalkWaits
  <2> QED
    BY <1>1, <1>2, <2>2 DEF DeskInv, TypeOK, IntakeInv
<1>3. ASSUME UNCHANGED intakeVars, walk' \in Walk, slipped' \in BOOLEAN, WalkSound'
      PROVE  DeskInv'
  <2>1. IntakeInv'
    BY <1>1, <1>3
       DEF intakeVars, IntakeInv, IntakeTypeOK, PlacingSound, NumbersSealed, Established,
           Offered, Fitted, Complete, NoStray, EmailsValid
  <2> QED
    BY <1>3, <2>1 DEF DeskInv, TypeOK, IntakeInv
<1>4. CASE UNCHANGED vars
  <2>1. UNCHANGED intakeVars /\ UNCHANGED <<walk, slipped>> /\ UNCHANGED orders
    BY <1>4 DEF vars, intakeVars
  <2>2. WalkSound'
    BY <1>1, <2>1, WalkWaits
  <2> QED
    BY <1>1, <1>3, <2>1, <2>2
<1>5. CASE IntakeNext /\ UNCHANGED <<walk, slipped>>
  BY <1>1, <1>2, <1>5, IntakeStep, OrdersGrow
<1>6. ASSUME NEW i \in 1..Len(orders), NEW number \in Numbers, SubmitWalletTransfer(i, number)
      PROVE  DeskInv'
  <2>1. UNCHANGED <<walk, slipped>>
    BY <1>6 DEF SubmitWalletTransfer
  <2>2. IntakeInv' /\ Len(orders') >= Len(orders)
    BY <1>1, <1>6, SubmitSound
  <2> QED
    BY <1>2, <2>1, <2>2
<1>7. ASSUME NEW role \in Roles, NEW limit \in Limits, Browse(role, limit) PROVE DeskInv'
  <2> DEFINE begun == [pc |-> "page", role |-> role, limit |-> limit, page |-> 1,
                       total |-> 0, had |-> 1..Len(orders), shown |-> {}]
  <2>1. walk' = begun /\ slipped' = FALSE /\ UNCHANGED intakeVars /\ UNCHANGED orders
    BY <1>7 DEF Browse, intakeVars
  <2>2. 1..Len(orders) \subseteq Nat
    BY <1>1
  <2>3. begun \in Walk
    BY <2>2 DEF Walk
  <2>4. \A i \in 1..Len(orders) : ~(Len(orders) - i < Skip(1, limit))
    <3>1. limit \in Nat
      BY DeskAssumption
    <3>2. Skip(1, limit) = 0
      BY <3>1 DEF Skip
    <3> QED
      BY <1>1, <3>2
  <2>5. WalkSound'
    BY <2>1, <2>4 DEF WalkSound, Skip
  <2> QED
    BY <1>3, <2>1, <2>3, <2>5
<1>8. CASE GetAllOrders
  <2>1. /\ walk.pc = "page" /\ Turn(Len(orders)) /\ UNCHANGED intakeVars
        /\ UNCHANGED slipped /\ UNCHANGED orders
    BY <1>8 DEF GetAllOrders, intakeVars
  <2>2. walk' \in Walk /\ WalkSound'
    BY <1>1, <2>1, TurnSound
  <2> QED
    BY <1>1, <1>3, <2>1, <2>2
<1>9. CASE CountUserOrders
  <2>1. /\ walk.pc = "page" /\ walk' = [walk EXCEPT !.pc = "find", !.total = Len(orders)]
        /\ UNCHANGED intakeVars /\ UNCHANGED slipped /\ UNCHANGED orders
    BY <1>9 DEF CountUserOrders, intakeVars
  <2>2. /\ walk' \in Walk /\ walk'.pc = "find" /\ walk'.role = walk.role
        /\ walk'.limit = walk.limit /\ walk'.page = walk.page /\ walk'.had = walk.had
        /\ walk'.shown = walk.shown
    BY <1>1, <2>1 DEF Walk
  <2>3. Excused' <=> Excused
    BY <2>1, <2>2 DEF Excused
  <2>4. WalkSound'
    BY <2>1, <2>2, <2>3 DEF DeskInv, WalkSound, Skip
  <2> QED
    BY <1>1, <1>3, <2>1, <2>2, <2>4
<1>10. CASE FindUserOrders
  <2>1. /\ walk.pc = "find" /\ Turn(walk.total) /\ UNCHANGED intakeVars
        /\ slipped' = (slipped \/ walk.total # Len(orders)) /\ UNCHANGED orders
    BY <1>10 DEF FindUserOrders, intakeVars
  <2>2. walk.total \in Nat
    BY <1>1 DEF Walk
  <2>3. slipped' \in BOOLEAN /\ (~slipped' => ~slipped /\ walk.total = Len(orders))
    BY <1>1, <2>1
  <2>4. walk' \in Walk /\ WalkSound'
    BY <1>1, <2>1, <2>2, <2>3, TurnSound
  <2> QED
    BY <1>3, <2>1, <2>3, <2>4
<1> QED
  BY <1>4, <1>5, <1>6, <1>7, <1>8, <1>9, <1>10 DEF Next

LEMMA DeskInvariant == Spec => []DeskInv
BY DeskInit, DeskStep, PTL DEF Spec

-----------------------------------------------------------------------------
(* Theorems                                                                *)

\* The state has its type: orders, requests and walks are what they should be
\* after every step.
THEOREM TypeInvariant == Spec => []TypeOK
<1>1. DeskInv => TypeOK
  BY DEF DeskInv
<1> QED
  BY <1>1, DeskInvariant, PTL

\* Whatever administrators change between the four readings of the game, an
\* order about to be stored has valid addresses, fits the fields of a game the
\* save hook may have read, and was orderable at some moment of its request.
THEOREM OfferTheorem == Spec => []PlacedAsOffered
<1>1. DeskInv => PlacedAsOffered
  <2> SUFFICES ASSUME DeskInv, NEW s \in Slots, placing[s].pc = "insert"
               PROVE  /\ EmailsValid(placing[s].body.info)
                      /\ Fitted(placing[s]) /\ Offered(placing[s])
    BY DEF PlacedAsOffered, Fitted, Offered
  <2>1. Established(placing[s])
    BY DEF DeskInv, IntakeInv, PlacingSound
  <2> QED
    BY <2>1 DEF Established
<1> QED
  BY <1>1, DeskInvariant, PTL

\* A walk through the pages of a list to the last one shows every order there
\* was when it began, whatever is placed meanwhile, if no count was overtaken
\* by an order and no page was cut.
THEOREM WalkTheorem == Spec => []WalkComplete
<1>1. DeskInv => WalkComplete
  BY DEF DeskInv, WalkSound, WalkComplete, Excused
<1> QED
  BY <1>1, DeskInvariant, PTL

\* A submitted number is encrypted, and once: open to an administrator on the
\* order's page, masked to its customer unless it has only three digits.
THEOREM EvidenceTheorem == Spec => []EvidenceReadable
<1>1. DeskInv => EvidenceReadable
  <2> SUFFICES ASSUME DeskInv, NEW i \in 1..Len(orders), Submitted(i)
               PROVE  /\ orders[i].number \notin Numbers
                      /\ GetOrderById(i) \in Numbers
                      /\ GetOrderDetails(i) =
                            IF GetOrderById(i) = "three" THEN "three" ELSE "masked"
    BY DEF EvidenceReadable
  <2>1. orders[i].number \in Ciphers
    BY DEF DeskInv, IntakeInv, NumbersSealed, Submitted
  <2>2. PICK number \in Numbers : /\ orders[i].number = Encrypt(number)
                                  /\ orders[i].number \notin {"none", "three", "more"}
    BY <2>1 DEF Ciphers, Numbers, Encrypt
  <2>3. Decrypt(Encrypt(number)) = number /\ number # "error"
    BY DEF Decrypt, Encrypt, Numbers
  <2>4. GetOrderById(i) = number /\ GetOrderDetails(i) = MaskData(number)
    BY <2>2, <2>3 DEF GetOrderById, GetOrderDetails, Found
  <2> QED
    BY <2>2, <2>4 DEF MaskData, Numbers
<1> QED
  BY <1>1, DeskInvariant, PTL
=============================================================================
