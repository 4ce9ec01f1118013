CONSTANTS
    Modes = {"input-roundtrip"}
    Samples = 2
    MaxPolls = 2
SPECIFICATION Spec
INVARIANTS CorrespondingKeyPress
CHECK_DEADLOCK FALSE
