SPECIFICATION FairSpec
CONSTANTS
    Grain = 2
    OrderIds = {o1}
    Slots = {s1, s2}
    SessionIds = {x1}
    NoCoupon = NoCoupon
    NoOrder = NoOrder
    NoSessionId = NoSessionId
    Purchases <- CardPurchases
    BodyParsers <- JsonFirst
CHECK_DEADLOCK FALSE
PROPERTY
    CapturedIsConfirmed
