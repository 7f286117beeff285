SPECIFICATION Spec
CONSTANTS
    id = id
    mail = mail
    Fields = {id, mail}
    EmailFields = {mail}
    Versions <- SmallVersions
    Bodies <- SmallBodies
    Slots = {s1}
    MaxOrders = 3
    MaxEdits = 2
    Limits = {1, 2, 3}
    MaxPageSize = 2
CHECK_DEADLOCK FALSE
INVARIANT
    ReviewShowsNumber
