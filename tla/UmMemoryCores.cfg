CONSTANTS
    Core = {c1, c2}
    Inst = {i1, i2}
    Snap = {s1}
    NoInst = NoInst
    Page = {p1, p2}
    Writable = {p1}
    Frame = {f1, f2, f3, f4}
    NoFrame = NoFrame
    v0 = v0
    Val = {v0, v1}
    Image <- SameImage
    SwapBooted = FALSE
SPECIFICATION Spec
SYMMETRY MemorySymmetry
INVARIANT MemInv
PROPERTY RemapInvisible
CHECK_DEADLOCK FALSE
