CONSTANTS
    Columns = 2
    ScreenRows = 2
    TabStops = {1, 2}
    Letters = {"a"}
    AddressRows <- MCAddressRows
    AddressColumns <- MCAddressColumns
    RX_NUMTR = 2
    RX_NUMSC = 2
    RX_NUMBY = 2
    RxTargets <- MCRxTargets
    RxVersions = {0, 1, 2}
    RL_NUMWD = 2
    RL_NUMSC = 2
    RlCylinders <- MCRlCylinders
    RlAttached = {0, 1}
    RlLocked = {1}
    RlJobs <- MCRlJobs
    RlMaxJobs = 1
    RlMaxResets = 1
    RhCount = 16
    RhMemory = 6
    RP_NUMWD = 2
    RpCyls = 2
    RpSurfs = 2
    RpSects = 2
    RpDrives = 3
    RpLocked = {1}
    RpEmpty = {2}
    RpJobs <- MCRpJobs
    RpFunctions <- MCRpFunctions
    RpMaxFunctions = 2
    RpMaxTroubles = 1
    RpMaxJobs = 1
    MacLength = 2
    Bank = 2
    MacStride = 3
    SecondBank = 6
    LongSetup = 12
    SanityTime <- MCSanityTime
    XQ_SYSTEM_ID = 2
    XQ_HW_SANITY = 1
    HwSanity = TRUE
    Rom <- MCRom
    Peers <- MCPeers
    Setups <- MCSetups
    InitBlocks <- MCBlocks
    Requests <- MCRequests
    MaxRequests = 1
    MaxGuest = 4
    AddressSpace = 16
    INT_TEST = 2
    CisInstructions <- MCCisInstructions
    Second = 1000
    SIM_TMAX = 500
    GapTooBig = 5000
    clk_tps = 4
    sim_int_clk_tps = 5
    ClkInit = 4000
    ClkDelay = 1000
    Speeds = {10, 30}
    Throttles <- MCThrottles
    SleepMin = 40
    MaxTroubles = 1
    MaxSeconds = 8
    Installed <- MCInstalled
    OffAtFirst = {"RP", "RQB", "RQC", "XQB"}
    Sizes = {2, 3, 5, 9}
    Mem64 = 3
    UniMem = 5
    MaxMem = 9
    IoPage = 1
    Addresses <- MCAddresses
    Vectors <- MCVectors
    RomUnits = 2
    RomSizes <- MCRomSizes
    MaxChanges = 2
    RegModels = {"11/05", "11/24", "11/44", "11/45", "11/60", "11/70", "11/23+", "11/53", "11/84", "11/93"}
    JCSR_dflt = {{11}}
    MemBlocks = {0, 1}
    SwitchRegister = {5}
    WrittenWords <- MCWritten
    Lasts = {{0, 21}}
    ToyTimes <- MCToyTimes
    MaxAccesses = 2
    MapPage = 8
    UniSize = 24
    Physical = 64
    MapByte = 4
    DmaMemory <- MCDmaMemory
    IoWords = {16, 18, 22}
    IoCpu = {22}
    DmaRequests <- MCTransfers
    MapWrites <- MCMapWrites
    MaxDma = 3
    RQ_NUMBY = 4
    RQ_MAXFR = 8
    DrvTab <- MCDrvTab
    ImageSizes = {0, 6, 8, 16}
    HostBytes = 10
    Plugs = {2}
    RqCommands <- MCRqCommands
    RqMaxCommands = 1
    RqMaxMishaps = 1
    Files <- MCFiles
    FloppyCapac = 6
    FloppySector = 2
    MaxTape = 4
    MaxTapeEvents = 2
    SdpRecords <- MCSdpRecords
    SdpAnswers = {1, 2, 5, 200}
SPECIFICATION Spec
INVARIANTS PictureKept BusyServed MediaExact StationExact MachineExact TimeKept
CHECK_DEADLOCK FALSE
