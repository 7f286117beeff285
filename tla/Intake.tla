------------------------------- MODULE Intake -------------------------------
(***************************************************************************)
(* Intake: the way of an order's account fields into the database.  The    *)
(* same question, do the fields fit the game, is asked four times, of four *)
(* readings of the game: by the validator of accountInfo and the validator *)
(* of packageId, which run at once, by createOrder, and by the save hook   *)
(* of the order schema.  Administrators change the game between them.      *)
(*                                                                         *)
(* A field's value counts by its form alone: blank has only spaces, text   *)
(* is not an address, address is one.                                      *)
(***************************************************************************)
EXTENDS Integers, Sequences, FiniteSets

CONSTANTS
    Fields,       \* names an account field may have
    EmailFields,  \* those whose name contains email or gmail
    Versions,     \* what an administrator may make of the game
    Bodies,       \* bodies of createOrder
    Slots,        \* requests in flight at once
    MaxOrders,    \* bound on the orders
    MaxEdits      \* bound on the changes of the game and of its package

Types == {"steam", "games", "subscription"}

Values == {"none", "blank", "text", "address"}

WalletMethods == {"wallet-transfer", "insta-transfer", "fawry-transfer"}

\* Transfer numbers: the shortest that are accepted have three digits.
Numbers == {"three", "more"}

Version == [type : Types, active : BOOLEAN, fields : [Fields -> {"none", "optional", "required"}]]

Body == [info : [Fields -> Values], package : BOOLEAN, method : {"card"} \cup WalletMethods]

ASSUME IntakeAssumption ==
    /\ EmailFields \subseteq Fields
    /\ Versions \subseteq Version
    /\ Bodies \subseteq Body
    /\ MaxOrders \in Nat /\ MaxEdits \in Nat

VARIABLES
    game,     \* the game
    sold,     \* whether its package is active
    orders,   \* the orders collection, the oldest first
    placing,  \* the createOrder request in each slot
    edited    \* how often the game or the package was changed

intakeVars == <<game, sold, orders, placing, edited>>

-----------------------------------------------------------------------------
(* State                                                                   *)

Order == [info : [Fields -> Values], package : BOOLEAN, method : {"card"} \cup WalletMethods,
          status : {"pending", "processing"},
          number : {"none", "sealed three", "sealed more"} \cup Numbers,
          name : {"none", "clear", "sealed"}]

\* seen: the versions of the game since the request came in; last: those since
\* the save hook read it.
Place == [pc : {"idle", "validate", "game", "package", "hook", "insert"},
          body : Body, checks : SUBSET {"accountInfo", "packageId"},
          seen : SUBSET Versions, last : SUBSET Versions]

NoBody == [info |-> [f \in Fields |-> "none"], package |-> FALSE, method |-> "card"]

IdlePlace == [pc |-> "idle", body |-> NoBody, checks |-> {}, seen |-> {}, last |-> {}]

IntakeTypeOK ==
    /\ game \in Versions
    /\ sold \in BOOLEAN
    /\ orders \in Seq(Order)
    /\ placing \in [Slots -> Place]
    /\ edited \in Nat

IntakeInit ==
    /\ game \in Versions
    /\ sold \in BOOLEAN
    /\ orders = <<>>
    /\ placing = [s \in Slots |-> IdlePlace]
    /\ edited = 0

-----------------------------------------------------------------------------
(* The question                                                            *)

\* Every required field is given, and not blank.
Complete(info, v) ==
    \A f \in Fields : v.fields[f] = "required" => info[f] \in {"text", "address"}

\* No field is given that the game does not have.
NoStray(info, v) == \A f \in Fields : info[f] # "none" => v.fields[f] # "none"

EmailsValid(info) == \A f \in EmailFields : info[f] \in {"none", "address"}

\* IsValidAccountInfoConstraint.
ValidAccountInfo(b, v) ==
    v.active /\ Complete(b.info, v) /\ EmailsValid(b.info) /\ NoStray(b.info, v)

\* IsSteamGameValidationConstraint; it is skipped when packageId is missing.
ValidPackageId(v) == v.active /\ v.type # "steam"

\* createOrder asks about the fields of Steam games only.
Orderable(b, v) ==
    /\ v.active
    /\ v.type = "steam" => Complete(b.info, v) /\ EmailsValid(b.info) /\ NoStray(b.info, v)
    /\ b.package <=> v.type # "steam"

\* Mistake: required fields are left to the checks before.
SaveableAnyway(b, v) == NoStray(b.info, v)

\* The save hook; it does not ask whether the game is still active.
Saveable(b, v) == Complete(b.info, v) /\ NoStray(b.info, v)

-----------------------------------------------------------------------------
(* createOrder                                                             *)

Goto(s, pc) == placing' = [placing EXCEPT ![s].pc = pc]

Receive(s, b) ==
    /\ placing[s].pc = "idle"
    /\ Len(orders) < MaxOrders
    /\ placing' = [placing EXCEPT ![s] =
           [pc |-> "validate", body |-> b, seen |-> {game}, last |-> {},
            checks |-> {"accountInfo"} \cup (IF b.package THEN {"packageId"} ELSE {})]]
    /\ UNCHANGED <<game, sold, orders, edited>>

\* The validators read the game each for itself.
Validate(s, check) ==
    LET p == placing[s]
    IN  /\ p.pc = "validate" /\ check \in p.checks
        /\ check = "accountInfo" => ValidAccountInfo(p.body, game)
        /\ check = "packageId" => ValidPackageId(game)
        /\ placing' = [placing EXCEPT ![s] =
               [p EXCEPT !.checks = @ \ {check},
                         !.pc = IF p.checks = {check} THEN "game" ELSE "validate"]]
        /\ UNCHANGED <<game, sold, orders, edited>>

ReadGame(s) ==
    LET p == placing[s]
    IN  /\ p.pc = "game"
        /\ Orderable(p.body, game)
        /\ Goto(s, IF game.type = "steam" THEN "hook" ELSE "package")
        /\ UNCHANGED <<game, sold, orders, edited>>

ReadPackage(s) ==
    /\ placing[s].pc = "package"
    /\ sold
    /\ Goto(s, "hook")
    /\ UNCHANGED <<game, sold, orders, edited>>

Hook(s) ==
    /\ placing[s].pc = "hook"
    /\ Saveable(placing[s].body, game)
    /\ placing' = [placing EXCEPT ![s].pc = "insert", ![s].last = {game}]
    /\ UNCHANGED <<game, sold, orders, edited>>

Insert(s) ==
    LET b == placing[s].body
    IN  /\ placing[s].pc = "insert"
        /\ Len(orders) < MaxOrders
        /\ orders' = Append(orders,
               [info |-> b.info, package |-> b.package, method |-> b.method,
                status |-> "pending", number |-> "none", name |-> "none"])
        /\ placing' = [placing EXCEPT ![s] = IdlePlace]
        /\ UNCHANGED <<game, sold, edited>>

\* A check refuses, the database throws, or the server stops.
Refuse(s) ==
    /\ placing[s].pc # "idle"
    /\ placing' = [placing EXCEPT ![s] = IdlePlace]
    /\ UNCHANGED <<game, sold, orders, edited>>

\* updateGame, deletedGame, toggleGameStatus: the game gets another version.
EditGame(v) ==
    /\ edited < MaxEdits
    /\ v # game
    /\ game' = v
    /\ edited' = edited + 1
    /\ placing' = [s \in Slots |->
           LET p == placing[s]
           IN  [p EXCEPT !.seen = IF p.pc = "idle" THEN {} ELSE @ \cup {v},
                         !.last = IF p.pc = "insert" THEN @ \cup {v} ELSE {}]]
    /\ UNCHANGED <<sold, orders>>

\* updatePackage, deletePackage.
EditPackage ==
    /\ edited < MaxEdits
    /\ sold' = ~sold
    /\ edited' = edited + 1
    /\ UNCHANGED <<game, orders, placing>>

IntakeNext ==
    \/ \E s \in Slots :
          \/ \E b \in Bodies : Receive(s, b)
          \/ \E check \in {"accountInfo", "packageId"} : Validate(s, check)
          \/ ReadGame(s) \/ ReadPackage(s) \/ Hook(s) \/ Insert(s) \/ Refuse(s)
    \/ \E v \in Versions : EditGame(v)
    \/ EditPackage

-----------------------------------------------------------------------------
(* Safety                                                                  *)

\* Whatever administrators change while a request runs its four checks, an
\* order about to be stored has an address in every address field, fits the
\* fields the game had since the save hook read it, and was orderable, with a
\* package or without, as the game was at some moment of the request.
PlacedAsOffered ==
    \A s \in Slots : placing[s].pc = "insert" =>
        LET b == placing[s].body
        IN  /\ EmailsValid(b.info)
            /\ \E v \in placing[s].last : Complete(b.info, v) /\ NoStray(b.info, v)
            /\ \E v \in placing[s].seen : v.active /\ (b.package <=> v.type # "steam")
=============================================================================
