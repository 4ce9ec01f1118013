CONSTANTS
    Client = Client
    Backend = Backend
    None = None
    Repairs = {FALSE, TRUE}
    MaxBuffer = 1
    RecvSize = 2
    KIn = 2
    KOut = 1
    MaxBytes = 3
    MaxSpurious = 1
SPECIFICATION Spec
INVARIANTS TypeOK StreamIntact BufferBounded InterestMatchesPending
PROPERTIES PipeSpec QuietWhenBlocked EndsWhenPeerLeaves NeverStallsSender EveryByteArrives
CHECK_DEADLOCK FALSE
