CONSTANTS
    Modes = {"graphics", "input-roundtrip"}
    Cases = 2
    Namespace = TRUE
    TicketExpires = TRUE
    Stubborn = {"client", "vnc", "probe"}
    InterruptAt = {"setup", "ports", "start", "assign", "wait", "measure", "kill", "sigkill", "delns", "dellink"}
    MaxInterrupts = 2
    MaxDeaths = 1
SPECIFICATION Spec
INVARIANTS TypeOK NothingLeftBehind SuccessMeansMeasured
PROPERTIES ClientDiesBeforeItsNetwork ServersOutliveClients RunEnds
CHECK_DEADLOCK FALSE
