SPECIFICATION Spec
CONSTANTS
    Tagged <- MCTagged
    Starred <- MCStarred
    NonGame <- MCNonGame
    Long <- MCLong
    CueLists <- MCCueLists
    Cards <- MCCards
    Types <- MCTypes
    Regions <- MCRegions
    Servers <- MCServers
    NoUrl = NoUrl
    NoMedia = NoMedia
    MaxRetries = 2
    Threads = 2
    MaxEvents = 2
INVARIANTS
    TypeOK
    MediaIsWhole
    VerdictsAreTrue
    LibraryIsComplete
PROPERTIES
    RequestsEnd
CHECK_DEADLOCK FALSE
