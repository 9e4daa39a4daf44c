\* Every input is asked about once, and the stores and the routes are called a few
\* times, after which nothing is left to do.
SPECIFICATION Spec
CHECK_DEADLOCK FALSE
CONSTANTS
    RuleLists <- PairsAndTriples
    Contexts <- Asking
    Grids <- CustomGrids
    Saved <- SomeServers
    Others <- OneOtherServer
    MaxCalls = 5
    RowNames = {"d"}
    Tokens = {"j", "k"}
    Bodies <- SomeBodies
    OldSources <- OneOldSource
    OldLayers <- OneOldLayer
    MaxRoutes = 3
    Workspaces = {"w"}
    Hearsay = {"w", "v"}
    SourceNames = {"s", "metadata"}
    SourceTypes = {"postgis", "mongo", "geotiff", "cascaded_wms"}
    ViewNames = {"l", "x"}
    LayersThere <- OneLayerThere
    AdminRules <- SomeRules
    Askers <- SomeAskers
    FileSources <- SomeFileSources
    NumberOf <- Numeral
    RankOf <- Ranks
    Upper <- Capitals
    EndsIn <- Endings
    World = 72
    MAX_ZOOM = 2
    Clamp = 17
    DefaultLimit = 2
    MaxFeatures = 3
    CoverageSize = 4
INVARIANTS
    StoresAgree
    BestRulesDecide
    
    TilesFit
    PagesKeep
    RestoredAsSaved
    OfferedOpens
    ImportsOpen
    MapsCompose
    InfoFindsEach
    PicturesAgree
    StylesAlike
    OneView
