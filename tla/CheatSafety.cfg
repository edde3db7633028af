SPECIFICATION FairSpec
CONSTANTS
    Dirs = {d1, d2}
    NoDir = NoDir
    MaxCache = 1
    Faults = {"crash", "clear_fails", "lock_fails"}
INVARIANTS TypeOK ListsAreAlive RepoIsQuiet UpdateBeforeLists RepoIsThere
PROPERTIES StopReturns
