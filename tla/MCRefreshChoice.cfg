SPECIFICATION Spec
CONSTANTS
    NShops = 2
    NRows = 1
    NCols = 4
    ShopOfCol <- ShopsTwice
    NameOfRow <- NamePerRow
    Selections <- AnyChoice
    UBOutcomes <- AllOutcomes
    Resettable <- OneCell
    MaxBacklog = 1
    MaxLoads = 1
    MayStop = TRUE
    MaySilent = TRUE
INVARIANTS
    CursorInMap
    ReadyIsClean
    MarkedHaveEntries
    IInv
CHECK_DEADLOCK FALSE
