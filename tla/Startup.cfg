CONSTANTS
    InitSize = 32
    Chunk = 2
    UnitNames = 2
    PageUnits = 16
    Routines <- MCRoutines
    Page = 2
    TempCells = 8
    ListCells = 1
    Top = 120
    FourGig = 88
    CellUnits = 8
    Npte = 6
    Contig = 2
    ImageVa = 324
    Boards <- MCBoards
    Gig = 60
    MaxBoots = 3
    Tools = {t1}
    Drivers = {d1}
    Depth = 1
    MaxMsgs = 2
    MaxOther = 1
    GPIO_MAX = 5
    PerFsel = 2
    PerPull = 4
    PinTable <- MCPinTable
    NoValue = NoValue
    MAX_NUM_REG = 3
    Slice = 33500
    GpioUsers = {g1, g2}
    GpioCmds <- MCGpioCmds
    KickArgs <- MCKickArgs
SPECIFICATION SysSpec
INVARIANTS RamIsSound HandoverWhole StartsPristine PinsAsAsked AnswerIsOwn WatchdogFed
