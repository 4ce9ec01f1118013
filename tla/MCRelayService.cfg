CONSTANTS
    Conn = {c1, c2, c3}
    None = None
    Backlog = 1
    Repairs = {FALSE, TRUE}
SPECIFICATION Spec
INVARIANTS TypeOK NoneForgotten
PROPERTIES LineSpec
CHECK_DEADLOCK FALSE
