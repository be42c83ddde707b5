CONSTANTS
    Clients = {"cold", "warm"}
    Fifo = TRUE
    Results <- MCResults
SPECIFICATION Spec
INVARIANT FailureRecorded
CHECK_DEADLOCK FALSE
