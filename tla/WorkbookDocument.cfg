CONSTANTS
    Names = {n1, n2, n3}
    Titles = {t1, t2}
    Actors = {a1}
    OldSchemas = {4}
    NoName = NoName
    MaxBooks = 2
    MaxSheets = 4
    MaxVersions = 2
    MaxParts = 2
    MaxOperations = 4
SYMMETRY Symmetry
SPECIFICATION Spec
CHECK_DEADLOCK FALSE
INVARIANTS
    SheetsAreInOrder
    
    FormulasFollowTheirSheet
PROPERTIES
    RestoreIsExact
    DeletionIsBackedUp
    CopyIsComplete
