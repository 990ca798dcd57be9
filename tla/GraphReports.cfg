SPECIFICATION Spec
CONSTANTS
    Size = 4
    MaxEdges = 5
    Exported <- MCExported
    Layouts <- MCLayouts
    Titles <- MCTitles
    HotFanIn = 2
    HotChurn = 3
    HotNesting = 3
    HubFanIn = 3
    Trees <- MCTrees
    Crates <- MCCrates
    MaxImports = 3
    MergeLimit = 2
    MaxDepthSearch = 3
    MinExtensionFiles = 3
    NoDirs = NoDirs
    NoName = NoName
    Services <- MCServices
    DesiredStates <- MCDesiredStates
    Codes <- MCCodes
    Projects <- MCProjects
    CompositionRootFanOut = 2
    InfraTypeThreshold = 1
    SrpLOC = 1
    SrpFanOut = 1
    SrpDomains = 1
    SrpSymbols = 1
    IspMethods = 1
    EnrichmentLOC = 1
INVARIANTS
    ViewsAgree
    ChangesTracked
    
    CallsFollowed
    MeshConsistent
    ScansResolve
    
    
    SymbolsIndexed
    QueriesAnswered
    RolesJudged
    HealthScored
