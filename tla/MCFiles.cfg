SPECIFICATION Spec
CONSTANTS
    Categories = {c1, c2}
    Items = {i1}
    CloudFiles = {f1, f2, f3, f4}
    Names = {n1, long}
    LongNames = {long}
    Slots = {s1, s2}
    None = None
SYMMETRY Symmetry
CHECK_DEADLOCK FALSE
INVARIANTS
    LogoShown
    FilesAccounted
PROPERTY
    RemovedAfterLogo
