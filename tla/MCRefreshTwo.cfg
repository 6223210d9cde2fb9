SPECIFICATION FairSpec
CONSTANTS
    NShops = 2
    NRows = 2
    NCols = 2
    ShopOfCol <- ShopPerCol
    NameOfRow <- NamePerRow
    Selections <- Everything
    UBOutcomes = {"crash"}
    Resettable = {}
    MaxBacklog = 1
    MaxLoads = 1
    MayStop = TRUE
    MaySilent = TRUE
INVARIANTS
    OneSearchPerShop
    TypeOK
    BusyIsReleased
    RefreshHasNext
    ServeInv
PROPERTIES
    NoSearchAfterStop
    AskedOnce
    FinishedMeansAnswered
    StopCompletes
    RefreshCompletes
    ImplementsRefreshSpec
CHECK_DEADLOCK FALSE
