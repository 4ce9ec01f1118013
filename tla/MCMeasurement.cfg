CONSTANTS
    Modes = {"graphics", "input-roundtrip"}
    Samples = 2
    MaxPolls = 2
SPECIFICATION Spec
INVARIANTS TypeOK SkewBoundedByMisses FreshUntilAMiss AtMostOneOutstanding EverySampleCounted
PROPERTIES RunEnds
CHECK_DEADLOCK FALSE
