--------------------------- MODULE AccountContract ---------------------------
(***************************************************************************)
(* What the accounts promise, whatever requests overlap.  A request is     *)
(* allowed something on the state of that moment, and does it later or     *)
(* never.  A door opens to a code from the account's own mailbox that had  *)
(* opened none before; a password is changed for who opened that door; a   *)
(* session is for a confirmed account; what is confirmed or frozen stays.  *)
(***************************************************************************)
CONSTANTS Emails, Slots, Codes, Passwords, NoPassword

VARIABLES
    standing,  \* each account's: none, unconfirmed or confirmed
    password,  \* each account's password
    frozen,    \* the accounts frozen
    mailbox,   \* the codes mailed to each address
    spent,     \* the codes that opened a door
    trusted,   \* the accounts whose password may be changed
    members,   \* the accounts that were given a session
    granted    \* what each request was allowed and has still to do

vars == <<standing, password, frozen, mailbox, spent, trusted, members, granted>>

Nothing == [what |-> "nothing"]

Init ==
    /\ standing = [e \in Emails |-> "none"]
    /\ password = [e \in Emails |-> NoPassword]
    /\ frozen = {} /\ spent = {} /\ trusted = {} /\ members = {}
    /\ mailbox = [e \in Emails |-> {}]
    /\ granted = [s \in Slots |-> Nothing]

Mail(e, c) ==
    /\ \A f \in Emails : c \notin mailbox[f]
    /\ mailbox' = [mailbox EXCEPT ![e] = @ \cup {c}]
    /\ UNCHANGED <<standing, password, frozen, spent, trusted, members, granted>>

Register(e, p) ==
    /\ standing[e] = "none"
    /\ standing' = [standing EXCEPT ![e] = "unconfirmed"]
    /\ password' = [password EXCEPT ![e] = p]
    /\ UNCHANGED <<frozen, mailbox, spent, trusted, members, granted>>

\* Google vouches for the address.
RegisterVouched(e) ==
    /\ standing[e] = "none"
    /\ standing' = [standing EXCEPT ![e] = "confirmed"]
    /\ members' = members \cup {e}
    /\ UNCHANGED <<password, frozen, mailbox, spent, trusted, granted>>

OpenSession(e) ==
    /\ standing[e] = "confirmed"
    /\ members' = members \cup {e}
    /\ UNCHANGED <<standing, password, frozen, mailbox, spent, trusted, granted>>

-----------------------------------------------------------------------------
(* What a request may be allowed to do to e                                *)

Allowed(e) ==
    [what : {"confirm"}, to : {e},
     with : IF standing[e] = "unconfirmed" THEN mailbox[e] \ spent ELSE {}]
    \cup [what : {"trust"}, to : {e},
          with : IF standing[e] = "confirmed" THEN mailbox[e] \ spent ELSE {}]
    \cup [what : {"change"}, to : {e}, with : IF e \in trusted THEN Passwords ELSE {}]
    \cup [what : {"freeze"}, to : {e} \cap (members \ frozen)]

Allow(s, e) ==
    /\ granted[s] = Nothing
    /\ \E grant \in Allowed(e) : granted' = [granted EXCEPT ![s] = grant]
    /\ UNCHANGED <<standing, password, frozen, mailbox, spent, trusted, members>>

Done(s) == granted' = [granted EXCEPT ![s] = Nothing]

Confirm(s) ==
    LET g == granted[s]
    IN  /\ g.what = "confirm"
        /\ standing' = [standing EXCEPT ![g.to] = "confirmed"]
        /\ spent' = spent \cup {g.with}
        /\ Done(s)
        /\ UNCHANGED <<password, frozen, mailbox, trusted, members>>

Trust(s) ==
    LET g == granted[s]
    IN  /\ g.what = "trust"
        /\ trusted' = trusted \cup {g.to}
        /\ spent' = spent \cup {g.with}
        /\ Done(s)
        /\ UNCHANGED <<standing, password, frozen, mailbox, members>>

Change(s) ==
    LET g == granted[s]
    IN  /\ g.what = "change"
        /\ password' = [password EXCEPT ![g.to] = g.with]
        /\ Done(s)
        /\ UNCHANGED <<standing, frozen, mailbox, spent, trusted, members>>

Freeze(s) ==
    LET g == granted[s]
    IN  /\ g.what = "freeze"
        /\ frozen' = frozen \cup {g.to}
        /\ Done(s)
        /\ UNCHANGED <<standing, password, mailbox, spent, trusted, members>>

Abandon(s) ==
    /\ Done(s)
    /\ UNCHANGED <<standing, password, frozen, mailbox, spent, trusted, members>>

Next ==
    \/ \E e \in Emails :
          \/ \E c \in Codes : Mail(e, c)
          \/ \E p \in Passwords : Register(e, p)
          \/ RegisterVouched(e)
          \/ OpenSession(e)
          \/ \E s \in Slots : Allow(s, e)
    \/ \E s \in Slots : Confirm(s) \/ Trust(s) \/ Change(s) \/ Freeze(s) \/ Abandon(s)

Spec == Init /\ [][Next]_vars
=============================================================================
