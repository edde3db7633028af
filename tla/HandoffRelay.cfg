SPECIFICATION FairSpec
CONSTANTS
    Jobs = {j1, j2}
    Daemons = {d1, d2}
    Faults = {}
PROPERTIES ImplementsRelay HandoffsEnd
