CONSTANTS
    Missing = Missing
    ReadSize = 3
    MaxEntries = 4
    Groups = {"code", "code_renderer"}
    Other = "other"
    Gone = Gone
    MaxPid = 2
    Conns = {"first", "second"}
    Foreign = {"ssh"}
    MaxRows = 2
    MaxMoves <- Moves
SPECIFICATION Spec
INVARIANTS TypeOK LogCountedOnce LogMissesNothing TicksWereSpent SteadyProcessesCounted BytesWereSent
CHECK_DEADLOCK FALSE
