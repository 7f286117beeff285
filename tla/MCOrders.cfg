SPECIFICATION Spec
CONSTANTS
    Grain = 2
    OrderIds = {o1}
    Slots = {s1, s2}
    SessionIds = {x1, x2}
    NoCoupon = NoCoupon
    NoOrder = NoOrder
    NoSessionId = NoSessionId
    Purchases <- MCPurchases
    BodyParsers <- RawFirst
SYMMETRY Symmetry
CHECK_DEADLOCK FALSE
INVARIANTS
    TypeOK
    AcknowledgedIsRecorded
    ChargeMatchesTotal
    PaidInFull
    RefundOnlyAfterPaid
    EvidenceIsComplete
PROPERTIES
    TerminalLeftOnlyByOldCopy
    SessionOnlyForPending
    ImplementsContract
