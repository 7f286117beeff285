SPECIFICATION SalesSpec
CONSTANTS
    Ids = {c1, c2}
    Codes = {"A", "B"}
    Slots = {s1, s2}
    Keep = Keep
    NoId = NoId
    NoForm = NoForm
    MaxTime = 1
    MaxUses = 3
    Grain = 1
    Prices = {10}
    Drafts <- MCDrafts
    Changes <- MCChanges
    Terms <- MCTerms
    TermChanges <- MCTermChanges
SYMMETRY Symmetry
CHECK_DEADLOCK FALSE
INVARIANTS
    CodesUnique
    OveruseIsBounded
    CountsAddUp
    DiscountWasOffered
    CostIsBounded
PROPERTY
    InvertedOnlyUnseen
