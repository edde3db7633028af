SPECIFICATION Spec
CONSTANTS
    Token <- MCToken
    NoToken = "none"
    Files <- MCFiles
    Directories <- MCDirectories
    Games <- MCTwoRegions
    Priorities <- MCPriorities
    NoFile = NoFile
INVARIANTS PlainFirstInTier
