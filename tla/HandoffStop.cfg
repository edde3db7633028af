SPECIFICATION Spec
CONSTANTS
    Jobs = {j1}
    Daemons = {d1}
    Faults = {}
PROPERTIES StopIsHonoured
