CONSTANTS
    Umi = {u1, u2, u3}
    NoUmi = NoUmi
    Calls = {"Load", "Run", "SignalYield"}
    Liberties = {"GuestHalt", "EarlyTimer"}
    Fifo = FALSE
    MaxTasks = 2
    MaxRecv = 1
SPECIFICATION Spec
SYMMETRY InstanceSymmetry
INVARIANTS SlotInv NoFault SlotMatchesCpu BootOnce OneWakeupEach HaltRemembered
PROPERTY SlotPromise
CHECK_DEADLOCK FALSE
