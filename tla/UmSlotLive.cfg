CONSTANTS
    Umi = {u1, u2}
    NoUmi = NoUmi
    Calls = {"Load"}
    Liberties = {}
    Fifo = TRUE
    MaxTasks = 2
    MaxRecv = 2
SPECIFICATION FairSpec
INVARIANT ArmedWhileAsleep
PROPERTIES HaltCompletes OccupantWakes EmptySlotIsFilled
CHECK_DEADLOCK FALSE
