SPECIFICATION Spec
CONSTANTS
    Tagged <- MCTagged
    Starred <- MCStarred
    NonGame <- MCNonGame
    Long <- MCLong
    CueLists <- MCCueLists
    Cards <- SameName
    Types <- MCTypes
    Regions <- MCRegions
    Servers <- OneServer
    NoUrl = NoUrl
    NoMedia = NoMedia
    MaxRetries = 0
    Threads = 2
    MaxEvents = 0
INVARIANTS
    MediaIsWhole
CHECK_DEADLOCK FALSE
