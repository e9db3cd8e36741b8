SPECIFICATION ServicesSpec
CONSTANTS
    Parts = {"buffer", "srp", "tlv", "clicks", "sweep"}
    Thread = {OT, A, B}
    OT = OT
    A = A
    B = B
    NoThread = NoThread
    Size = 2
    LeaseInterval = 7
    LeaseGuard = 3
    Patience = 1
    AddRefused = TRUE
    Listings <- TwoListings
    ShortNames = {"x"}
    BrowseMax = 2
    TlvKeys = {1, 2, 3}
    TlvLens = {0, 1, 2}
    TlvSizes = {5, 6, 7, 12, 17, 18, 24}
    Paths = {0, 1, 3, 4}
    DevTypes = {1, 2}
    UriNameMax = 3
    UrisPerDevice = 2
    TimerDebounce = 1
    TimerDoubleClick = 3
    TimerLongPressStart = 5
    TimerLongPressTick = 4
    DimControl <- DimControlTable
INVARIANTS TypeOK ReservedUntouched LeaseHeld AddedIsFound ParsedIsOffered
PROPERTIES ImplementsSlot MutexComesFree NoFlash ServiceAgainRegistered ServicesFound EveryClickReported ClicksCounted DimmerSweepsThrough
CHECK_DEADLOCK FALSE
