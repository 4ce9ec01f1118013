CONSTANTS
    Frame <- MCFrame
    MaxInFlight = 6
    MaxHeader = 2
SPECIFICATION Spec
INVARIANTS FramesIntact BrowserStopped
PROPERTIES ProbeEnds
CHECK_DEADLOCK FALSE
