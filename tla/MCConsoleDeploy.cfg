CONSTANTS
    Script = {"gfx", "resize", "daemon"}
    MaxRuns = 3
    MaxFaults = 1
SPECIFICATION Spec
INVARIANTS TypeOK DoneMeansInForce FailedRunIsUndone ServiceSurvives
CHECK_DEADLOCK FALSE
