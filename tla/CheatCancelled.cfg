SPECIFICATION Spec
CONSTANTS
    Dirs = {d1, d2}
    NoDir = NoDir
    MaxCache = 1
    Faults = {}
INVARIANTS ListsAreWhole
