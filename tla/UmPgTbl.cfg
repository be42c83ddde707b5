CONSTANTS
    Inst = {i1}
    Snap = {s1, s2}
    NoInst = NoInst
    Fanout = 2
    Page <- ThreePages
    Writable <- TwoPages
    Frame = {f1, f2, f3, f4, f5, f6, f7, f8, f9, f10, f11, f12, f13, f14, f15, f16, f17, f18}
    Null = Null
    v0 = v0
    v1 = v1
    Val = {v0, v1}
    Image <- TwoImages
    SwapBooted = TRUE
SPECIFICATION Spec
SYMMETRY Snapshots
VIEW Shape
INVARIANTS TablesAreTrees TraversalMeetsWalk CountersAgree
PROPERTIES TablesKept OwnedPagesComeBack FlatTables
CHECK_DEADLOCK FALSE
