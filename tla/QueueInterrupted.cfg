SPECIFICATION Spec
CONSTANTS
    r1 = r1
    r2 = r2
    Lead = lead
    CheatThread = cheat
    Workers = {w1}
    Kinds = {"artwork"}
    Forces = {FALSE}
    MaxItems = 1
    MaxId = 1
    SavedQueues <- NoSaved
    Roms = {r1}
PROPERTIES
    InterruptedItemsSurvive
