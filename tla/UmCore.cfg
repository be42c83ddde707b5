CONSTANTS
    Umi = {u1, u2}
    NoUmi = NoUmi
    Calls = {"Load", "Run", "SignalYield"}
    Liberties = {}
    Fifo = TRUE
    MaxTasks = 1
    MaxRecv = 1
    Snap = {s1}
    Page = {code, data}
    Writable = {data}
    Frame = {f1, f2, f3}
    NoFrame = NoFrame
    v0 = v0
    Val = {v0, v1}
    Image <- SameImage
    Code = code
    BootAlone = TRUE
SPECIFICATION CoreSpec
SYMMETRY CoreSymmetry
VIEW Shape
INVARIANT CoreInv
PROPERTIES MemoryFollowsSlot GuestsKeepMemory
CHECK_DEADLOCK FALSE
