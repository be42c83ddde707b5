CONSTANTS
    Umi = {u1}
    NoUmi = NoUmi
    Calls = {"Load"}
    Liberties = {"GuestHalt"}
    Fifo = TRUE
    MaxTasks = 2
    MaxRecv = 1
SPECIFICATION FairSpec
PROPERTY HaltCompletes
CHECK_DEADLOCK FALSE
