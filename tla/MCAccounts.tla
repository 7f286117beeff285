----------------------------- MODULE MCAccounts -----------------------------
(***************************************************************************)
(* Small instances of Accounts.                                            *)
(***************************************************************************)
EXTENDS Accounts, TLC

Symmetry ==
    Permutations(Slots) \cup Permutations(Codes) \cup Permutations(Emails)
        \cup Permutations(Passwords)
=============================================================================
