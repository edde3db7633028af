SPECIFICATION Spec
SYMMETRY Symmetry
CONSTANTS
    Jobs = {j1}
    Daemons = {d1, d2}
    Faults = {"app_crash", "daemon_crash", "write_fails", "pid_reuse", "sigterm"}
INVARIANTS TypeOK OneOwner OwnerIsSeen
PROPERTIES NothingLost
