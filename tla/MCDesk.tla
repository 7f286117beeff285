------------------------------- MODULE MCDesk -------------------------------
(***************************************************************************)
(* A small instance of Desk: one plain field and one address field, a game *)
(* whose fields, type and status change, and bodies that fit some of them. *)
(***************************************************************************)
EXTENDS Desk, TLC

CONSTANTS id, mail

F(i, m) == (id :> i) @@ (mail :> m)

SmallVersions == {
    [type |-> "steam", active |-> TRUE, fields |-> F("required", "none")],
    [type |-> "games", active |-> TRUE, fields |-> F("required", "required")],
    [type |-> "games", active |-> FALSE, fields |-> F("optional", "required")]}

SmallBodies == {
    [info |-> F("text", "address"), package |-> TRUE, method |-> "insta-transfer"],
    [info |-> F("blank", "address"), package |-> TRUE, method |-> "fawry-transfer"],
    [info |-> F("text", "none"), package |-> FALSE, method |-> "wallet-transfer"]}
=============================================================================
