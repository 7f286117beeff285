SPECIFICATION FairSpec
CONSTANTS
    g1 = g1
    p1 = p1
    n1 = n1
    Games = {g1}
    Packages = {p1}
    Names = {n1}
    Editors = {e1, e2}
    Readers = {r1}
    GameBodies <- SmallGameBodies
    PackageBodies <- SmallPackageBodies
    NoName = NoName
    NoGame = NoGame
    NoPackage = NoPackage
    NoEntry = NoEntry
    MaxEdits = 5
    PageSize = 1
CHECK_DEADLOCK FALSE
INVARIANTS
    TypeOK
    GameOfferSound
    PackageOfferSound
    PageMatchesLists
    ShownWasOnSale
PROPERTIES
    DeletedPackageFinal
    CacheSettles
