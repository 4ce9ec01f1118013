CONSTANTS
    Script = {"gfx", "resize", "daemon"}
    MaxRuns = 3
    MaxFaults = 1
SPECIFICATION Spec
INVARIANTS NoRestartNeeded
CHECK_DEADLOCK FALSE
