SPECIFICATION Spec
CONSTANTS
    Grain = 2
    OrderIds = {o1}
    Slots = {s1, s2}
    SessionIds = {x1}
    NoCoupon = NoCoupon
    NoOrder = NoOrder
    NoSessionId = NoSessionId
    Purchases <- CardPurchases
    BodyParsers <- RawFirst
CHECK_DEADLOCK FALSE
PROPERTY
    RejectingPaidRefunds
