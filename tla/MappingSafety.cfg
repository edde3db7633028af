SPECIFICATION Spec
CONSTANTS
    NoId = NoId
    MaxSaves = 2
    NoText = NoText
    MaxSuggestions = 2
    MaxCandidates = 1
    DisplayOf <- MCDisplayOf
    Searches <- MCSearches
    MaxJobs = 1
    Ids <- MCIds
    Tags <- MCTags
    Names <- MCNames
    Cards <- MCCards
    TagOf <- MCTagOf
    Paks <- MCPaks
    UserFiles <- MCUserFiles
    Roms <- MCRoms
    Cwd <- MCCwd
INVARIANTS
    TypeOK
    MemoryIsFile
    RefusedIsKept
    JobsMatchMappings
    ScreensAreComplete
PROPERTIES
    SaveKeepsTheRest
    EditsTakeEffect
    ImplementsStore
