CONSTANTS
    Modes = {"graphics"}
    Cases = 1
    Namespace = TRUE
    TicketExpires = FALSE
    Stubborn = {}
    InterruptAt = {"setup", "ports", "start", "assign", "wait", "measure", "kill", "sigkill", "delns", "dellink"}
    MaxInterrupts = 1
    MaxDeaths = 0
SPECIFICATION Spec
INVARIANTS InterruptCleansUp
CHECK_DEADLOCK FALSE
