SPECIFICATION FairSpec
CONSTANTS
    Texts <- MCTexts
    Size <- MCSize
    Requests = {r1, r2}
    BaseLayers <- Base
    Edits <- AllEdits
    MaxEdits = 2
CHECK_DEADLOCK FALSE
INVARIANTS
    TypeOK
    CleanerHasDatabase
    ReleasedInOrder
    ServedUntilReturn
 
