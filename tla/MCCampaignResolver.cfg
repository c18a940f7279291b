SPECIFICATION AuthoringSpec
CONSTANTS
    None = None
    NotResolved = NotResolved
    MaxU8 = 5
    MaxU32 = 7
    SpawnRows <- SpawnRowsMC
    LabelRows <- LabelRowsMC
    GiverRows <- GiverRowsMC
    EnderRows <- EnderRowsMC
    Starts <- StartsMC
    BaseId = "base"
    GraphId = "route"
    EdgeMenu <- EdgeMenuMC
    SkipMenu <- IdsMC
    OverrideMenu <- OverrideMenuMC
    FieldMenu <- FieldMenuMC
    MaxEdges = 3
    MaxSkips = 3
    MaxOverrides = 1
    Healthy <- HealthyMC
    Databases <- DatabasesMC
INVARIANTS
    SkippedNodesLeaveTheRoute
    
    BrokenReadsNeverShow
    EmptyOperationsAreReported
CHECK_DEADLOCK FALSE
