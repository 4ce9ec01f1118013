CONSTANTS
    Client = Client
    Backend = Backend
    None = None
    Repairs = {FALSE}
    MaxBuffer = 1
    RecvSize = 2
    KIn = 1
    KOut = 1
    MaxBytes = 2
    MaxSpurious = 1
SPECIFICATION Spec
PROPERTIES ForwardsUntilAPeerLeaves
CHECK_DEADLOCK FALSE
