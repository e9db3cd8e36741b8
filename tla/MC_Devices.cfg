SPECIFICATION DevicesSpec
CONSTANTS
    Parts = {"btn", "fx", "lamp", "strip"}
    Device = {d1, d2}
    NoDev = NoDev
    NumOfButtons = 3
    ResetHold = 1
    ResetClick = 0
    ResetClicks = 2
    ResetTime = 1
    AssignTime = 2
    MaxRestart = 1
    Leds = 3
    Wheel = 16
    Sat = 2
    Val = 3
    U32 = 21
    MaxSegments = 2
    Modes <- OneAndAll
    Speeds <- TwoSpeeds
    Turns <- OneTurns
    SpeedMin = 10
    SpeedMax = 65535
    DefaultSpeed = 150
    p1 = p1
    p2 = p2
    Panels <- TwoPanels
    Users <- FewUsers
    Dim <- SmallTable
    rgbColorTab <- TwoColours
    FirstColour = 1
    NetMax = 1
    LightRestarts = 1
    StripLeds = 2
    Depth = 2
    Drivers = {"rmt", "dma"}
    Colours = {0, 1, 2}
    Black = 0
INVARIANTS TypeOK OneButtonPerDevice OneMark StoredIsKept PressFindsDevice StaysHome SegmentsApart DimmedFits Resynced RmtFrameShown
PROPERTIES Remembered ResetIsDeliberate
CHECK_DEADLOCK FALSE
