SPECIFICATION FairSpec
CONSTANTS
    r1 = r1
    r2 = r2
    Lead = lead
    CheatThread = cheat
    Workers = {w1, w2}
    Kinds = {"artwork", "manual", "cheat"}
    Forces = {FALSE}
    MaxItems = 2
    MaxId = 2
    SavedQueues <- SomeSaved
    Roms = {r1, r2}
INVARIANTS
    TypeOK
    UniqueIds
    StartedMeansAlive
    ClaimsStayValid
    ExclusiveClaims
    NoDuplicateWork
    NothingStuck
    StoppedIsQuiet
PROPERTIES
    ResultsAreFinal
    ChangesAreDirty
    WorkersKeepInterruptedItems
    ImplementsJobBoard
    WorkIsFinished
    StopsComplete
