SPECIFICATION Spec
CONSTANTS
    Emails = {e1}
    Slots = {s1, s2}
    Codes = {c1, c2, c3}
    Passwords = {p1, p2}
    NoCode = NoCode
    NoPassword = NoPassword
    NoEmail = NoEmail
    CodeLife = 0
    AccessLife = 1
    AdminLife = 2
    MaxTime = 2
SYMMETRY Symmetry
CHECK_DEADLOCK FALSE
INVARIANTS
    SecretsSealedOnce
    SpentCodeIsGone
    PurposeKept
    ResetEarnedInTime
PROPERTIES
    FrozenIsFinal
    ImplementsContract
