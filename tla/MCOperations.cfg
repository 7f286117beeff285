SPECIFICATION FairSpec
CONSTANTS
    Requests = {r1}
    Kinds <- SmallKinds
    MaxHits <- SmallHits
    MaxResponseTimes = 2
    MaxEscapes = 2
    Passes = {p1, p2}
    Metric <- SmallMetric
    Cooldown <- SmallCooldown
    MaxTime = 2
CHECK_DEADLOCK FALSE
INVARIANTS
    ErrorAlertExplained
    CountsExplained
PROPERTIES
    RaisingsApart
    EveryRequestAnswered
    LastingExcursionRaised
