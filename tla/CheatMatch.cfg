SPECIFICATION Spec
CONSTANTS
    Token <- MCToken
    NoToken = "none"
    Files <- MCFiles
    Directories <- MCDirectories
    Games <- MCGames
    Priorities <- MCPriorities
    NoFile = NoFile
INVARIANTS MatchFollowsRules
