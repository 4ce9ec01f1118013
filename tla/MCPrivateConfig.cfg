CONSTANTS
    Sources <- MCSources
SPECIFICATION Spec
INVARIANTS PrivateAndAsAsked OthersKept
CHECK_DEADLOCK FALSE
